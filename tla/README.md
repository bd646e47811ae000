# A TLA+ model of fc

fc is a C++ foundation library: values and their serialisation, logging and
tracing, networking, files and cryptography used by a blockchain node. It has no
main loop of its own. What can go wrong in it, and is hard to test, is where it
keeps state over a long sequence of calls, hands memory to asynchronous
operations, races a timer, runs a worker thread, persists something, frees by
hand, or computes at the edge of a width.

Source paths below are relative to the repository. In `PROJECT.json` each
definition is mapped to the lines it models, each hazard stands at the line where
it bites, and every component is listed with what is left out of it.

## Inventory

| Component | State and operations | Hard part | Modules |
|---|---|---|---|
| `message_buffer` (`include/fc/network`) | deque of pooled buffers, two indices; grow, `async_read`, read, peek, skip, reset | regions outstanding while the chain changes; 32-bit indices | `MessageBuffer`, `ByteQueue`, `MessageBufferProofs` |
| `zipkin` (`src/log`) | id counter, failure count, stop flag, strand, thread; spans moved and destroyed, shut down | check-then-post, toggled flag, joining | `Zipkin`, `ZipkinProofs` |
| `http_client` (`src/network/http`) | kept-alive connections; `post_sync` with a deadline | handlers racing the timer, late responses | `HttpClient`, `HttpClientProofs` |
| `tracked_storage`, `persistence_util` | multi_index and its size, file; insert, modify, erase, save, load | collisions, exceptions half way, crash in a save | `TrackedStorage`, `TrackedStorageProofs` |
| `cfile` | FILE, its buffer, the kernel's data, the device; open, seek, read, write, flush, sync, punch hole, close | power failure, reopening, holes | `CFile`, `ValuesProofs` |
| logger, configuration, appenders (`src/log`) | maps of loggers and appenders, shared implementations; configure, update, get, log | reconfiguring while threads log, exception part-way | `Logging`, `LogAppenders`, `LoggingProofs` |
| exceptions | log, type, code; throw, rethrow, copy, convert | chains of copies and conversions | `ExceptionFlow`, `LoggingProofs` |
| variant | a tag and a value or an owned block; copy, move, assign, edit, convert | ownership by hand, limits of widths | `VariantStore`, `ValueStore`, `VariantValue`, `ValuesProofs` |
| variant_object | shared and owned vectors; copy, move, set, merge, erase | aliasing of copies | `VariantObject`, `ValuesProofs` |
| json | parse (three parsers), write, pretty print | depth, escapes, ends of input | `Json` |
| raw, containers, varint | pack, unpack | lengths, used targets, cut-off input | `Raw` |
| datastreams, buffered streams | cursors and buffers; read, peek, write, flush, seek | mixtures of sizes, failures | `Streams`, `ValuesProofs` |
| text codecs, uint128, real128, safe, time, fixed_string, digests, url, ip, utf8 | pure functions | leading zeros, carries, wrap-around, round trips | `TextCodecs`, `Uint128`, `Numbers`, `Digest`, `Addresses` |
| rate limiter | tokens, two lists of operations, a loop | fibers, failures, change of the limit | `RateLimiter`, `ValuesProofs` |
| bloom filter | table of bits; insert, combine, copy | sizes, seeds | `BloomFilter`, `ValuesProofs` |
| filesystem | temporaries, rename, lock files, relative paths | processes that die, moves, errors half way | `Files`, `ValuesProofs` |
| keys and signatures | sign, recover, derive; text; OpenSSL handles | low s, recovery ids, texts of several suites, double free | `Elliptic`, `Keys`, `KeyHandles`, `WebAuthn`, `CryptoProofs`, `ValuesProofs` |
| ciphers, sha3, hmac | modes, padding, streaming, files | ends of blocks, pieces of input | `Primitives`, `CryptoProofs` |
| rpc | pending calls, apis, callbacks over a connection | replies before the wait, nested calls, close | `Rpc`, `NetworkProofs` |
| ntp, udt sockets | offset of the clock; epoll set and promises | unreliable network, races of three threads | `Ntp`, `Udt`, `NetworkProofs` |

Interaction: `zipkin` posts spans from the threads of the application to its
worker, whose handler calls `http_client::post_sync`; a logger calls its
appenders under `log_mutex`, and `gelf_appender` sends through `udp_socket`
(`Logging` and `LogAppenders`); exceptions carry log messages; `tracked_storage`
writes through `cfile`; `message_buffer` is filled by the application's
`async_read` and drained by `raw::unpack`; JSON, raw and the logs all go through
variants, and the texts of keys through base58 and the digests.

## Modules

**State machines.** `MessageBuffer` has the members of the class as variables, the
pool, the cells handed to `async_read` and not yet filled, one peek stream and
the recursive call in progress; `read()` and `peek()` take one step per level of
their recursion. `Zipkin` splits `zipkin::log` into check and post, because other
threads run in between. `HttpClient` is `post_sync` as the sequence of its waits;
a wait is the operation outstanding, the timer, the handlers that are ready and
the locals they write. `TrackedStorage` has a container with two unique keys and
a file as a sequence of words, with the words stdio still buffers. `CFile` has
stdio's buffer (`pend`), the kernel's contents (`data`), the device, and two
histories: what the calls say the file holds (`told`) and what was synced
(`safe`). `Logging` makes every operation under `log_mutex` one action and the
steps of a macro outside it actions of their own. `LogAppenders` is one
`logger::log` at work: GELF's datagrams, which the network loses, repeats and
reorders, and dmlog's `fwrite` loop; the texts it makes are functions (below).
`ExceptionFlow` follows one exception
through frames, copies and variants. `Rpc` has fibers on both sides of a
websocket that delivers in order until it closes. `Udt` gives the processor away
at every lock of the epoll service. `Ntp` has the ntp thread's fibers, a thread
that calls `get_time`, and datagrams. `RateLimiter` runs its loop from one wait to
the next; a list of operations is how often each operation is in it, as the loop
sorts them before it gives out tokens and their order decides nothing. `Streams`, `Files`, `BloomFilter`, `VariantObject`, `VariantStore` and
`KeyHandles` have one action per call.

**Functions.** `ClientCall` is the scheme of the modules without state: a client
makes one call (`call`) with an input from a bounded set, and the invariants
relate the result to a reference definition. `TextCodecs`, `Addresses`, `Uint128`,
`Digest`, `VariantValue`, `Numbers`, `Raw`, `Json`, `Elliptic`, `Keys`, `Primitives` and
the texts of `LogAppenders` are of this kind. Widths are constants (`Bits`, `Quarter`, `Group`...), so
that all values of a small width are tried, limits included. A text is a
sequence of symbols, one for each class of characters the code tells apart.

**Abstract specifications.** `ByteQueue` is what `message_buffer` promises: a
sequence of bytes with a read end, a write end and a cursor
(`ImplementsByteQueue`; the unread cells, in order, are the queue). `ValueStore` is
value semantics: every object has a value only operations on it change.
`VariantStore` and `KeyHandles` refine it (`IsValue`, `KeyIsValue`), the value of a
boxed variant being the contents of its block, that of a key the point of its
handle.

**Sums.** `MCValues`, `MCConversions`, `MCLogging`, `MCNetwork` and `MCCrypto` check
several components in one run. These share nothing at run time, so a variable
`part` says which one a behaviour exercises and the others stay in their first
state, in which no action with fairness is enabled. `MCLogging` has `Zipkin` too, which
reports through no logger. The registry and
appenders do meet in the code, inside `log_mutex`: there `log` is one action of
`Logging` and its inside is `LogAppenders`, whose `LogReturns` is what makes the one
step sound.

**Contracts.** Where the code relies on its client, the guards say so: no skip past
the unread bytes of a message_buffer, no draining under an outstanding read, no
use of a moved-from mutable object, one reader and one writer of a udt socket, no
seek outside a datastream's region, no assignment of a key to itself.

**External.** The curve is a group of prime order with given x coordinates, hashes
are free of collisions, the permutation of sha3 and the block function of AES are
ideal, rapidjson delivers the tokens of any well-formed document, stdio, the
kernel and the network do anything their interfaces allow.

## Runs

| Run | Result | What it shows |
|---|---|---|
| `message_buffer` | pass | `BufferSound`: pointers in the chain, chunks owned once, outstanding read into free space, exact counts; `RefusedWhole`; refinement of `ByteQueue` |
| `http_client` | pass | own response from the right endpoint, or that of the https url with the same cache key; nothing left behind, late timer ignored, the deadline ends the call |
| `tracked_storage` | pass | exact size within the limit, whole saves, "all read" means all |
| `values` | pass | variants, objects and keys are values; files, locks, holes and synced bytes are kept; streams in order; the rate limit; no false negatives, indices within the table of whole cells |
| `conversions` | pass | texts, numbers, variants, packed bytes and JSON are read back as written, or refused; doubles round, objects that are unpacked into keep what the property says; even limits of depth refuse and odd ones do not |
| `logging` | pass | one configuration per logger, held loggers stable, messages whole, `log` returns, exceptions keep log, type and code; zipkin's spans sent at most once, disabled by failures alone, joined means drained, no span lost but exactly those with a caller's id 0, every queued span handled while the process lives |
| `rpc` | pass | own reply, no lost call, the api that was returned, a call returns |
| `network` | pass | no lost wakeup, an accurate clock; waits end when what they wait for comes, or by a close that finds them |
| `crypto` | pass | recovery gives the signer, one s and one text, webauthn's members, round trips, hashes apart |
| `zipkin_shutdown` | violation | the first `shutdown()` returns at once |
| `variant_copy_on_write` | violation | assigning a mutable object to an object changes the object's copies |
| `zipkin_nine_failures` | violation | nine failures in a row leave zipkin enabled |

A property such as `FilesKept` is a conjunction of named parts (`NoLeak`,
`NothingLost`, `LockExclusive`, `RelativeLeads`, `ContentsAsTold`, `SyncedSurvives`,
...), each with its comment in its module. The passing runs take every action of
every module. Deadlock is not checked where a behaviour really may stop: after a
client's one call, a closed stream, a destroyed object.

### Bounds

- `message_buffer`: buffers of 2 bytes, chains of up to 3, requests of up to 5
  bytes, `U32 = 8`, the smallest modulus that the chain and one buffer more fit
  in. A request can begin and end in the middle or at the edge of a buffer, span
  all three, and fill the chain exactly. The proofs have none of these bounds.
- `http_client`: three calls, so that a late response meets the call after it and
  the one after that; http and https with and without port 80, and a unix destination:
  https with port 80 and without it have one key in the cache.
- `tracked_storage`: three values of each key, sizes 1 and 2, limits 0, 2 and 4: the
  limit is hit before the first object, exactly at one, and not at all.
- `values`: two objects and two mutable ones (a vector shared by two handles while a
  third edits), three variants and blocks, three keys and four handles, three
  temporaries, two processes with two lock objects each; a cfile of blocks of 2
  and up to 3 bytes, so that a hole, a block half written and two blocks synced at
  different times occur; three operations in the limiter, the fewest with which
  one waits while two share the tokens; two filters whose parameters differ, among
  them limits that are no whole cells and parameters the code refuses; a name of
  a temporary may be one that exists.
- `conversions`: see `MCConversions.cfg`. Bytes are sampled around the signs and the
  alphabets' sizes; integers of 4 and 2 bits and doubles of 2 significant bits
  (`Significant`, 53 of 64 in the code), so that integers are rounded and doubles lie
  outside the words; 128-bit words of 4 bits and products of quarters of 2, where a
  real128's integer part can pass the word it is read into; containers of up to 2
  elements or bytes, and 3, which pack refuses; all texts of up to 4 symbols of 17 for JSON, where every state of
  the parsers is within that distance; packed input of up to 4 bytes, one more than
  the longest variable-length integer.
- `logging`: two threads, two generations of configuration after the default one, one
  of which fails half way; messages of up to four packets, where `Chunk = 4` makes the
  count byte wrap; five frames for an exception.
- `logging`, zipkin: two objects (a move needs two), three spans with one tolerated failure
  (`MaxErrors` stands for 9), ids modulo 3 so that the counter wraps, three
  shutdowns so that the flag is toggled both ways before the destructor. Ids come
  from the counter, from a sha256 and from a hash of another type. A destructor that
  finds the thread joinable ends the process, and the worker with it.
- `rpc`: two calling fibers and nested handlers, one close of the connection.
- `network`: a udt socket with a listener and two fibers, one of which closes; two
  ntp servers, one ahead and one behind, with two datagrams in flight.
- `crypto`: order 11 in the field of 13, all secrets, digests and nonces; documents of
  up to 11 tokens, enough for a nested object with each member name inside the outer
  one; two blocks for the ciphers and the sponge and one byte more.

Symmetry is used in `message_buffer`, `tracked_storage` and `values` (the limiter's
operations), none of which has a liveness property, over sets from which no `CHOOSE`
takes a value that matters. `values` has a `VIEW` without the variables that only name
the last call.

### Fairness

- `http_client`: the thread of the call runs what is ready and time passes; `NetSpec`
  adds that the operating system ends a connect in the end, which its own timeout
  does. The server is not assumed to answer.
- `logging`: the thread inside `log` goes on; `fwrite` makes progress if it does not
  fail. The network delivers nothing it does not want to.
- `logging`, zipkin: the worker's thread runs what is queued, a post ends (by its deadline),
  `join()` returns when the thread has ended, and a thread past `log()`'s check goes
  on to post. Nothing is assumed of creation, destruction or shutdown.
- `rpc`: fibers run, and handlers answer; the connection may close at any time.
- `network`: udt's epoll thread and fibers run; a mutex is granted in the end to a
  fiber that waits for it (strong fairness of `Keep` and `remove`, which the epoll
  thread can disable over and over). ntp's tasks run and a closed socket ends its
  read. The recursion of `read()` runs on one thread and does not block.

## Proofs

The theorems hold for every value of the constants that satisfies the named
assumptions of the module. Each comes from one inductive invariant: the properties
that the runs check are not inductive, and the invariant says what the code keeps
true between them. TLC evaluates each assumption in a run whose module extends the
one that states it.

| Module | Theorems of properties that a run checks |
|---|---|
| `MessageBufferProofs` | `BufferIsSound` (from one theorem for each part), `RefusalIsWhole`, and the refinement `BufferImplementsQueue` |
| `NetworkProofs` | `CallsAreSound`, `WaitersAreKept`, `ClockIsSound` |
| `HttpClientProofs` | `CallsAreClean`, `LateTimerIsIgnored`, `AnswersAreMatched` |
| `ZipkinProofs` | `ZipkinIsSound`, `SpanLoggedOnce`, `NoSpanLost` |
| `TrackedStorageProofs` | `SizeIsSound`, `TrueIsAll`, `SaveIsWhole` |
| `ValuesProofs` | the refinements `VariantIsValue`, `PublicKeyIsValue`; `ObjectsAreIndependent`, `FiltersAreSound`, `StreamsKeepOrder`, `LimiterIsSound`, `FilesAreKept` (from `FilesAreSafe` and `CFileIsSound`, for the composition) |
| `LoggingProofs` | `LoggersAreConsistent`, `HeldLoggersAreStable`, `LoggedStaysWhole`, `ExceptionSurvives` |
| `CryptoProofs` | `ClientDataIsSound`, `KeyTextsStaySound`, `SignaturesStaySound`, `PrimitivesStaySound` |

**`MessageBufferProofs`** assumes that `BufferLen` is positive, that the bounds are
natural numbers, and that the chain with one buffer more fits in 32 bits. The
inductive invariant is `IInv == ChainOK /\ PendingOK /\ CallOK`:

- `ChainOK`: types of the chain, pool and memory; the chain owns the pool
  injectively and is counted by `sanity_check`; the read pointer is in the first
  buffer and not behind the write pointer, which is inside the chain; equal
  pointers are at the origin. It gives `advance_index` and the counts their
  exact values (no wrap-around), which the guards of the loops need.
- `PendingOK`: the outstanding cells are the cells from the write pointer on. It
  is preserved by dropping buffers at the front because the write pointer moves
  with them, and by growth because that only appends.
- `CallOK`: the peek index is between the pointers, and a read in progress with
  an `async_read` outstanding is not one that drains the buffer. Without the
  last part `ReadStep` could reset the chain under the outstanding read, and
  `PendingOK` would not be preserved.

The argument goes bottom-up: arithmetic (`DivMod`, `PosOrder`, `AdvanceIndex`,
`ChainBytes`, `CountFromIndex`, `CountToWrite`), then what each operation of the
chain does to `ChainOK` (`GrowOK`, `DropFrontOK`, `ResetOK`, `AdvanceReadOK`,
`AdvanceWriteOK`), to the outstanding cells (`CellInChain`, `PendingKept`), one
step per action (`StepOK`), and the temporal conclusion (`Invariance`).

That the buffer implements `ByteQueue` is then an argument about positions. Position
`p` of the chain is cell `p % BufferLen` of its buffer `p \div BufferLen`, and the
unread bytes are those from the read to the write pointer. Each action leaves these
cells alone, shifts them by whole buffers, or writes behind them (`StepMaps`, with
`Queued` for the request in progress). `RefusalIsWhole` needs that the rest of a
request that passed its first check is still there (`RestIsThere`).

**`NetworkProofs`** follows one id. `Unique` says that a request is at any time in one
place and once there: on its way, with a handler that asks back, or answered on its
way back; a request not yet sent is in none (`OwnIds`). `Present` says that an awaited
one is in some place while the connection is up, `Content` that what is there fits
what the fiber with this id asked for, `Known` that a callback anyone holds is
registered. Every action moves one id from one place to the next. That an idle handler
exists when a request needs one is a count of ids against handlers, and
`register_api`'s search for the first equal entry takes the least number of a set.
`RpcAssumption` gives the handlers, apis and proxies their sorts, and one api that is
no proxy.

The module also holds the proofs of the two other parts that wait for a network.
`UdtInv` tells for each place in a call (`CallShape`, `CallSockets`) what the fiber may
hold there, that a fiber about to store its promise has its socket in the epoll set
(`Registered`), and that a socket has one reader, writer, connect and accept
(`OneCaller`, which is udt's own rule for its callers). `Registered` is what makes
`WakeupPossible` inductive: the epoll thread may pass between the two steps of a fiber
that begins to wait, but it takes promises only, and the socket leaves the set when it is
closed.
`NtpInv` says that every datagram on its way bears stamps some clock showed, in order
(`Genuine`), also one that was answered twice or overtaken, and that an offset is accurate
from the moment the loop stores it, before it sets the flag `get_time` looks at.
`ClockIsSound` has the hypothesis `BeforeWrap`: no clock passes the second at which the
32-bit count of seconds of a stamp comes round (in 2106), because the code has no notion
of ntp's eras. That the bound is half the accepted round trip is linear arithmetic over
the four stamps; what the two conversions of a stamp do is `StampBack` and rests on
the uniqueness of quotient and remainder.

**`HttpClientProofs`** keeps apart what belongs to a wait and what is on the wires.
`HandlersOfWait`: only handlers of the wait in progress are outstanding or ready, and
until there is a result the operation is under way or was given up; hence `run_one`
never blocks on nothing and no handler outlives the frame whose locals it writes.
`Traffic`: the connection of the call carries its own request or response and nothing
else, cached ones carry nothing. `ReadBrings`: a completed read has brought the
response and left the wire quiet. `AnswersAreMatched` adds that a cached connection
leads to an endpoint of its key. A key has one endpoint, except that of https with port 80,
which is also that of https without a port: `url_to_host_key` takes a missing port for 80
whatever the protocol (`src/src/network/http/http_client.cpp:155`), while the connection
is made to 443. The property says so, and the run reaches it.
`NoneAssumption` keeps the absent value apart from
connections, responses and error codes, as `std::optional` does.

**`ZipkinProofs`**: `HoldsSpan` and `ObjectsApart` say that of the objects that ever held
a span all but one are moved-from and that none of the rest holds one the worker has;
`WorkerApart` that queue, current span and reports are disjoint; `WorkerLife` that
spans still queued after the worker's end came too late; `ErrorsCounted` that
`consecutive_errors` is the length of the last run of failures. For `NoSpanLost`, a span
that was created is with one of the objects, with the worker or among the refused, and
ids that are not 0 are what keeps it there when its object is destroyed; `FlaggedGone` is
the converse, that nothing ever logs a span with the id 0. `ZipkinAssumption`
asks for a modulus of at least 2 for ids and a limit of failures that is a number.

**`TrackedStorageProofs`**: `Containers` (unique keys, size is the sum), `SaveGoes` (what
the kernel has, what stdio holds and what is still to be written are together the file
of the container as the save began), `DiskKnown` (a file is foreign or starts like the
last save), `LoadGoes` (every object passed is in the container or collided with one
from before). The sum is a fold over a set; what it does when an object is added or
removed is proved by a minimal counterexample among the subsets of a finite set.
`SaveIsWhole` has the hypothesis `Flushes`: `close()` drops the error of `fclose`
(`src/include/fc/io/cfile.hpp:203`), so only a client that flushes first can rely on it.

**`ValuesProofs`**, objects and filters: `Owning` and `NotLeaked` say that a boxed variant's block is in use
and its alone, and that a block in use has an owner; the handles of keys likewise. With
them each action of `VariantStore` and `KeyHandles` is a step of `ValueStore` under
the mapping of an object to its contents. `HandleAssumption` keeps the marks of absent
keys and freed handles apart from real ones. For objects `ObjectInv` says that every
object has a vector and that no other handle has a mutable one's. That a new vector can
always be had is the pigeonhole principle on handles and addresses (`FreshVector`), and
what merging does to the order of the keys goes through the entries of the other object
one by one (`SetExtends`, `MergedExtends`). `ObjectAssumption` asks for finitely many
objects. For the bloom filter `BloomInv` says that
every filter is well made: its size is the one its parameters give, its salts are the first
ones of the generator for its seed, and every key inserted has those of its bits set that
the table has. Two filters that the operators combine have equally many salts, so they set
the same bits for a key. The code clamps the size after it rounds it
(`src/include/fc/bloom_filter.hpp:151`), so limits of any size are allowed and the property
tells apart the filters of whole cells, whose every index is in the table, and the others,
which reach one cell further.

**`ValuesProofs`**, streams, limiter and files: `DataInv` says that the region behind the
last byte written is as it was, so that the three datastreams, driven alike, agree. `ReadInv` says that what a
`buffered_istream` gave, then its buffer, then the rest of the source are consecutive;
`WriteInv` that what a `buffered_ostream` still holds goes on where its sink and the bytes
lost by a failing flush end. `LimiterInv` says that a limiter is `NothingGranted` (it permitted
nothing yet: its first iteration earns a whole second, whenever it comes, and only the
bucket limits it) or within its `Budget`:
`Second` times what was permitted, is left or came back, and `Rate` times the ticks since
the last iteration, are no more than a full bucket and `Rate` times all ticks. The product
form keeps the rounding of `Earned` out of the invariant. That the loop which gives out
the tokens takes no more than there are is an argument about a recursive function: that it
exists is proved by the least point at which it would not, and its values are bounded in
the same way (`LoopRuns`, `LoopTakes`).

`FilesInv` says who owns each temporary, that the contents of a rename are whole under
one of its names at each place a crash can come, and that an object believes it has the
lock only if the system gave it that lock. That a relative path leads where it should is
an argument about two walks from the root: along the common part they agree, every step
up undoes the last name that is not `.`, and the rest of the second path follows.
`CFileInv` has three parts. `BufferInv`: the bytes that stdio still holds, laid over the
kernel's data, are what the calls say. `SafeInv`: synced bytes are with the kernel and on
the device, and no byte of the buffer is for their places; without the last part a
write-back by the C library would change them, and `SyncedSurvives` would not be
inductive. The rest is types. Bytes are laid by a recursive function; that laying a buffer
in two parts, or bytes at other places first, comes to the same is shown by the least
number of bytes for which it would not. `CFileAssumption` asks only for positive sizes.

**`LoggingProofs`**: `ExcInv` tells how what is caught relates to what was thrown.
`ForeignAsThrown`, `FcAsThrown` and `RegisteredAsThrown` follow exceptions of other
libraries, of fc and of types the factory knows through wrapping, copies and variants:
the code never changes, the log only grows at its end, and the type is lost only where a
variant is made of a type the factory does not know. That the factory comes back with the
type that was thrown rests on codes being unique among the registered types.

`AppInv` is what the appenders keep. `DatagramsInv`: every datagram sent or on its way is
the whole of a logged message or packet `q` of one, with the bytes that `q` packets of
full size leave (`Upto`); `JobInv` says how many packets and bytes the call in progress
has handed over, so the packet that is sent next is the one after. `FileInv`: each byte of
dmlog's file is followed by the next of its line, and the file ends where the call in
progress is, unless the appender was stopped; whole lines alone would not be inductive,
as `fwrite` may take part of a line. That the packets of a message have all its bytes is
the arithmetic of the rounded-up quotient. `CallInv` gives the texts of messages and
console lines inputs of their sorts.

`LogInv` adds to `MapIsCurrent`, `OneConfiguration` and `FailedIsSilent` that every appender
of the map is of a configuration applied so far. The work is inside one step:
`configure_logging` goes through the loggers of a configuration one by one, and what
holds in between is `Rebuilt`: no logger of the new map is one that was held before,
names have loggers of their own, and their appenders are those of the new map, none for a
logger not reached yet. This gives `HeldIsStable` too: a reconfiguration never touches a
logger somebody holds. That a new implementation can be had is the pigeonhole principle
on handles, threads and names (`LoggingAssumption` asks for that many). `ConfigAssumption`
asks that a configuration name no logger twice and no appender twice in a logger, because
`configure_logging` would attach the appender once for each
(`src/src/log/logger_config.cpp:93`).

**`CryptoProofs`**: the handler of the client data never sees the reader's stack and must
infer from its own state and depth where it is. `HandlerFollows` in `WebInv` says that it
does: at the outermost level its state is the key last read, inside a value it is
`nested` and the depth is that of the stack. With that, what it collects is what the
outermost object gives, whatever objects lie inside. It holds for documents of any number
of tokens and any depth.

Keys and curves are functions: `KeyCalls` and `CurveCalls` say only that a call has an input
of its kind, and the work is in what the functions return. For texts it is the parse of
every form a text can have; that a body is refused under another suite or kind rests on
the prefix being hashed into the checksum. For curves it is arithmetic modulo the order
(`Cong`, `ModInverse`, `Cancelled`): `LowSigned` shows that the id which either library
puts in the header names the point of the nonce, negated where s was; `KeyOfSecret` that
the recovery then solves the signature's equation for the secret; `LowSIsUnique` that two
low s for one key are equal, as the other solution would be the negated one and both are at
most half of the order; the header is not unique, as compressed and uncompressed keys have
their own. A secret that is a multiple of the order has the point at infinity as its key,
which r1 recovers and webauthn, by the size of its encoding, refuses. `EllipticAssumption` states the facts about the curve that are
used, all true of both curves of the library: numbers below the order have inverses (it
is prime), points with the same x are equal or each other's negative, which have y
of different parity, and the field is smaller than twice the order (Hasse's bound), so a
recovery id has two bits.

sha3's encoder has state: `HashInv` says that the blocks it permuted and the bytes it xored
in since are the message (`Fed`). The padding is then the last byte that is not zero once
the end bit is taken off, also where both fall into one byte, so the blocks of a digest
give the message and the variant back. hmac's keys, filled up with zeros, are equal only
if they were equal up to zeros at the end.

The ciphers' round trips are inductions over rounds and blocks, which the prover does not
do by itself. `UpTo` is induction up to a number, stated over a set instead of a
predicate and proved from the least member of a set of numbers; with it `StepsRun`,
`FoldsExist` and `FoldRuns` show that a fold of the library runs through its steps one
after the other. The rest are then statements about two runs side by side. `Decrypted`:
after i rounds with the subkeys in reverse the halves are those of n - i rounds of the
encryption, swapped.
`ModeBack` and `CbcBack`: before each block the chain of the decryption is that of the
encryption, in ECB, CBC and CFB of blowfish and in the CBC of AES; `CbcBack` also gives
the last chain, which the streaming encoder goes on from. `StartIs` shows that the key
schedule, for every key `start` takes, cut to 56 bytes or not, ends with subkeys and boxes of words. The theorem holds for any
number of rounds, any initial subkeys and boxes (`CiphersAssumption`), and any length of
text; the words of blowfish and the block function of AES are the small ones of
`Primitives`.

Only model-checked: all liveness properties (`SpanHandled`, `DeadlineEndsCall`,
`CallReturns`, `LogReturns` and `WaitsEnd`; the prover has no fairness), and the five
invariants of the conversions, `TextKept`, `NumbersKept`, `VariantsKept`, `PackedKept` and
`WrittenKept`, whose modules use `RECURSIVE` operators, which take the prover's SMT
backend away.

## What the code does that its reader may not expect

The violations are findings, with the comment they contradict. Other behaviours met
while modelling are left out of the properties of the passing runs or are what these
state, each where it says so:

- zipkin: the template `to_id` (`src/include/fc/log/zipkin.hpp:123`) does not avoid 0, so
  that a span with a caller's own hash may never be logged (`NothingLost`); the destructor
  of a zipkin nobody shut down meets the toggled flag too, and the joinable thread ends the
  process with what is queued (`SpanHandled`).
- `http_client`: a connect is not cancelled at the deadline; `https://h` and `https://h:80`
  share a cached connection (`src/src/network/http/http_client.cpp:155`), so that a request
  may go to the other's port (`SentToEndpoint`).
- bloom filter: the size is clamped after it was rounded to cells
  (`src/include/fc/bloom_filter.hpp:151`), and with a limit that is no multiple of a cell
  bits lie up to one cell behind the table (`IndexInTable`).
- `cfile`: `close()` drops errors; reopening with `wb+` writes unflushed bytes into
  the emptied file; a failed reopen leaves `is_open()` true; `punch_hole` punches
  before it flushes; `sync()` does not flush.
- logging: a failed configuration leaves every logger silent; `level` not set does not
  mean the parent's level; `additivity` has no effect; a GELF message of 256 chunks
  wraps its count; an appender that a logger names twice writes every message twice.
- json: only the legacy parser has a limit of depth, and an odd one passes zero and wraps
  (`src/src/io/json.cpp:391`), so that nothing is refused (`DepthLimited`); the relaxed
  parser does not end on a triple-quoted string that the text leaves open
  (`src/include/fc/io/json_relaxed.hpp:119`, `ParserEnds`); the strict one refuses numbers
  with a point.
- raw: `std::set`, `list`, `optional`, `shared_ptr` and null variants keep what the
  target held, also as elements of a vector or deque that is unpacked into; a `boost::container::vector` of numbers wider than a byte loses data.
- variant: a double that is NaN or out of range gives an integer that C++ leaves open;
  division by zero and the assignment of an own element are undefined;
  `operator==` is false for booleans, nulls and objects.
- rpc: a reply that comes before `wait_for_response` makes the call throw; closing the
  connection does not end the calls that wait.
- rate limiter: the shortest operation starves when there are fewer tokens than
  operations; lifting the limit leaves tokens nobody earned.
- udt: a read that starts while the socket is closed may wait for ever; ntp: requests
  are repeated only after `set_request_interval`.
- real128: an integer part of 2^64 or more is written and not read back.
- addresses: a port may have a sign; `-1` is read as 65535.
- datastream: after a skip past the end the region's own check of its size wraps and lets
  everything through; `valid()` is the caller's to ask.
- filesystem: a moved-from temporary still removes its file; a temporary whose name exists
  throws and removes what it met; `make_relative` is wrong
  for paths with `..`.
- crypto: blowfish's chain is not advanced from call to call; `from_wif` takes one or
  two rounds of the checksum's hash and any version byte; an r1 key's copy assignment
  to itself frees its handle.

## Not modelled

- Thin wrappers: `fstream`, `sstream`, console, interprocess, `resolve`, zlib, `rand`.
- Cryptography inside its libraries: OpenSSL, secp256k1, libff, GMP (`bigint`, `dh`,
  `alt_bn128`, `modular_arithmetic`); hash functions as such; city and crc, whose
  tables and constants have no smaller instance that would tell a mistake.
- Code that cannot run: `binary_api_connection` and `bstate` do not instantiate,
  `variant_connection` is only declared, `pke` and `equihash` are not built.
- `tcp_socket`, gntp, processes, fiber schedulers: calls of asio and the system.
- Compile-time machinery (`reflect`) and vendored code.

CMake compiles neither `rate_limiting`, `udt_socket`, `ntp`, `buffered_iostream` nor
`rpc`; they are modelled for their algorithms, against the thread library they were
written for.

## Plan

1. Proofs: the conversions, once their recursion is written with functions of positions
   instead of `RECURSIVE` operators, starting with `Uint128` and `Digest`.
2. A composition of `Zipkin` and `HttpClient`, the worker's post being a `post_sync`
   with its waits.
3. `tracked_storage` with several storages in one file.
