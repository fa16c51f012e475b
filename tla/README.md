# A TLA+ model of xhttpcache

xhttpcache is an HTTP cache and key-value server on top of RocksDB. Clients
read through an HTTP frontend, write through an HTTP backend or through a port
that speaks the redis protocol, and may give a key a time-out, after which a
thread of the server removes it. This directory holds TLA+ modules translated
from the code, TLC configurations that check them on small instances, and
proofs that TLAPS checks for every value of the constants. Paths below are
those of the repository.

## 1. Inventory

| component | state | operations | hard because |
|---|---|---|---|
| `SortedSet` (`common/sorted_set.*`) | a `std::set` of (score, key) items, a `std::map` from key to iterator | add, del, front, back, max_score, pop_front, pop_back, size | every operation changes two containers |
| `ExpireManager` (`src/xExpireManager.*`) | `sort_set`, a cache of at most `BATCH_SIZE` deadlines; `first_timeout`, the time before which the thread sleeps | SetTTL (redis thread); Dispatch, ExpireLoop, LoadExpirationKeys (expire thread) | a cache of a prefix, a wake-up time, no lock |
| `xDataBase` (`src/xDataBase.*`) | RocksDB rows `k` (values), `s` (a key's deadline), `z` (index by deadline) | Set, Get, Del, Zset, Zget, Zdel, ScanKey, LoadExpirationKeys, Flushall | a deadline is several rows, written one by one; rows of three kinds share one order of bytes |
| redis commands (`src/xRedisServer.*`) | none of their own | SET, SET EX, GET, DEL, EXPIRE, TTL, SCAN, FLUSHALL | run beside the expire thread and the HTTP threads; calls fail half-way |
| redis protocol (`common/xRedisServerLib.*`) | per connection `cmdbuffer`, `parsed`, `argnum`, `argc`, `argv`; the connection table | ReadCallback, ProcessCmd, ParaseData, ParaseLength, DoCmd, FreeArg; accept, idle time-out, error | the stream comes in arbitrary pieces; connections are freed from two callbacks |
| HTTP backend (`src/xevHtpdBackend.*`) | none, uses two databases | GET, PUT, POST, DELETE, scan, configuration, uploads | several threads, body conversions, results ignored |
| HTTP frontend (`src/xevHtpdFrontend.*`) | none | GET with validators | several threads, a shared static buffer, timestamps taken before the write |
| ETag cache (`src/xEtagManager.*`) | LRU lists of hashes | Set, Get | a list and a map of iterators into it; never filled in this version, because `SetEtag` is called without its second argument (`src/xHttpCache.cpp:98`) |
| start-up and guard (`common/util.cpp`, `src/xHttpCache.cpp`) | the processes | daemonize, guard, restart after a crash | what a process inherits, what survives a crash |
| configuration (`common/xIniFile.*`, `src/xConfig.*`) | sections, values and comments; the settings | read, write, edit; Load | a section or a value may be there twice; loaded twice |
| multipart parser (`common/Parser.*`) | the state of the parser, the bytes held back | AcceptSomeData | a boundary may be cut anywhere |
| logger (`common/xLog.*`) | `_fd` | logMessage, rotateLog | `_fd` is used outside the mutex, descriptors are reused |

The redis port is one thread (one libevent loop). The expire thread is another.
The two HTTP servers have several threads each. They meet in RocksDB, whose
single calls are atomic, in `ExpireManager`, whose members the redis thread
and the expire thread use without a lock, and in the log. A redis command
reaches the expire manager through `SetTTL`; the expire thread reaches the
database through `Del` and `Zdel`.

What makes each component correct:

* `SortedSet` is a map from keys to scores, ordered by score and key.
* The time-out service removes a key when its deadline has passed, not before,
  not under a deadline that was replaced, and never a value without one.
* The cache must always hold the earliest deadlines, because the expire thread
  looks at nothing else until it is empty; and `first_timeout` must never be
  later than a stored deadline.
* A deadline that a client was granted is stored in both kinds of rows, whatever
  call failed; FLUSHALL leaves nothing of what was there before.
* The parser of the redis port must execute the commands that were sent, in
  order, whatever the pieces they come in. A connection is freed once, with its
  timer and its bufferevent, and only for a reason of its own.
* The backend stores what it acknowledges; what the frontend answers is true of
  some moment of the request.
* A form is read alike in whatever pieces it comes.
* A launch has one worker, with the settings of the last file that could be read.

`PROJECT.json` lists under `hazards` what in this code is hard to test, each at
its line with the properties that would catch it going wrong. Where the code does
go wrong there, and no run is spent on it, a note says so and section 3 describes it.

## 2. Modules

| module | what it is |
|---|---|
| `SortedSetOps` | the operations of `SortedSet` as operators on a function from keys to scores; used wherever the code uses a `SortedSet` |
| `SortedMap` | abstract: the calls of `SortedSet` and their results, on that function |
| `SortedSet` | the class as built, with its two containers; implements `SortedMap` |
| `KeyTimeout` | abstract: what the time-out service promises, without cache, index or wake-up time |
| `ExpireManager` | the redis commands, the database rows and the passes of the expire thread, each handler one action |
| `ExpireThreads` | the same handlers broken into the steps of their threads, with the HTTP backend and crashes |
| `RedisCommands` | extends `ExpireManager` with every command's reply, with RocksDB calls that fail and with 64-bit deadlines |
| `FlushRows` | FLUSHALL and SCAN DEL row by row, beside the other threads, failures and crashes |
| `RowCodec` | the byte strings under which rows are stored, their order, and the scans over them |
| `RespStream` | the redis protocol parser of one connection |
| `RedisConnections` | the connections of the redis port: table, timers, bufferevents |
| `ConditionalGet` | the frontend's threads serving conditional GETs beside writers |
| `LruCache` | abstract: an LRU cache |
| `EtagCache` | the shards of the ETag cache with list nodes and iterators; implements `LruCache` |
| `MultipartOps`, `Multipart` | the multipart parser as operators on its state; the parser fed with chunks |
| `Backend` | the callbacks of the HTTP backend on two databases, with uploads read by `MultipartOps` |
| `IniFileOps`, `IniFile` | `CIniFile` as operators on its contents; an object and its file under calls in any order |
| `Startup` | main, daemonize, guard, the worker and the settings each process holds, read by `IniFileOps` |
| `Logger` | `CLogger` by several threads |
| `MCExpireManager`, `MCStorage`, `MCRedisPort`, `MCHttp`, `MCProcess` | instances for TLC |
| `MCExpireThreads` | `ExpireThreads` with the history of the values that were written for good |
| `ExpireManagerProofs`, `ExpireThreadsProofs`, `RedisCommandsProofs` | theorems and proofs about the module of that name |
| `ContainerProofs` | theorems and proofs about `SortedSet`, `IniFile` and `EtagCache` |
| `TableProofs` | theorems and proofs about `FlushRows` and `RowCodec` |
| `RedisPortProofs` | theorems and proofs about `RedisConnections` and `RespStream` |
| `HttpProofs` | theorems and proofs about `ConditionalGet`, `Multipart` and `Backend` |
| `ProcessProofs` | theorems and proofs about `Startup` and `Logger` |

Each module with actions also has, under a heading that says so, faulty
variants of some actions. They are not part of any specification: substituted
for the real one they break the property that watches it, which shows that the
property says something about that code.

`MCStorage`, `MCRedisPort`, `MCHttp` and `MCProcess` each check several
components in one run. The components of one such module have no state in
common, so they are not interleaved: a variable `part` is chosen by `Init` and
never changes, the component that it names moves, and the others keep their
initial state. The state space is the sum of those of the components. The
module extends one of them and has an instance of each of the others, whose
properties are stated again there under their own names; the ones that are dear
to evaluate are checked only while their component moves.

### How state and actions correspond to the code

`SortedSetOps` represents a set as a total function on `Keys`, with `NoScore`
for a key that is not held. Keys are numbers that stand for strings in
lexicographic order; nothing in the code asks more of them.

`SortedSet` has `existed` and `sorted_set` as in the class; an iterator is the
item it points to. `add` is three actions, for its three ways to return. `io`
records the last call and its result so that results are part of the
refinement.

`ExpireManager` has `kv` (the keys with a `k` row), `zset` (the `s` rows),
`zscore` (the `z` rows, as pairs), `sort_set`, `first_timeout` and the clock
`now`. `Set`, `SetEx`, `SetExSame`, `Expire`, `Del`, `ScanDel` and `Flushall`
are the commands that change something. `SetEx` calls `SetTTL` twice, as the
code does, and `SetExSame` is the path on which `Zset` refuses because the
deadline is unchanged. `ExpireLoop` is one pass: load if the cache is empty,
then one of the three ends. `Restart` forgets what is in memory. `timed_out` is
a history variable that tells a removal by the service from one by a client.

`ExpireThreads` gives each of the two threads a program counter. One step is
one RocksDB call, one call of `SortedSet`, or one access to `first_timeout`.
`BackendPut` and `BackendDelete` are the HTTP threads; plain `SET` and `DEL`
on the redis port have the same effect. `kv` holds the timestamp that
`xDataBase::Set` stores with a value. `Crash` may come between any two steps.
`asked` is a history variable, the deadlines clients have asked for.
`MCExpireThreads` adds `plain`, the keys whose value an HTTP client wrote for
good: at a moment when the key had no value, no `s` row, no place in the cache and
no command under way, and the expire thread was asleep; and for which no client
has asked for a deadline since.

`RedisCommands` takes over the state of `ExpireManager`. Each handler meets a
set `F` of RocksDB calls that fail in it, from those it makes, and does what
the code does with their results, ignored ones included; `reply` is what the
client is told. `promised` and `asked` are history variables: the deadline last
granted to a key and the earliest one asked for.

`FlushRows` has the rows as triples of kind, key and deadline. `Flushall` and
`ScanDel` fix what the iterator or the list will show, `DeleteNext` deletes the
next row in the order of the encoded rows, or fails, and `Answer` ends the
command. One step is one RocksDB call, in `Zset` (`Zget`, `DelZ`, `PutZ`, `PutS`)
and in the expire thread's `Del` and `Zdel` (`XDel`, `XZget`, `XDelZ`, `XDelS`)
as well. The clock and `sort_set` are left out. FLUSHALL does not clear
`sort_set`, so the expire thread may remove any key that was ever given a
deadline (`asked`), at any time, which allows more behaviours than the code does.
`range`, `flushed`, `fresh` and `answered` are history variables: the rows the
deletion is about, the keys of which it deleted a row of a deadline, the values
written since it began, and the range of a deletion that was just answered.

`RowCodec` has the table as a function from byte strings, sequences over
`0 .. Base - 1`, to values, in the order RocksDB's comparator gives them.
`EncodeString`, `EncodeZset` and `EncodeZscore` are the three cases of
`EncodeKey`, with the one-byte lengths, and `encode_score` the conversion to
big-endian bytes with wrap-around: `Shifted` shifts right byte by byte, and
`Joined` puts the bytes together again. `ScanKey` and `LoadExpirationKeys` are
functions of the table; the iterator's list is `Ascending`, whose i-th row is the
one with i - 1 rows before it.

`RespStream` abstracts the text of a stream to items and offsets. `erased`,
`cmdbuffer` and `parsed` are counts of bytes; an argument in `argv` is the range
of the stream it was copied from, so that a command with a byte too few or of
its neighbour would show. `Deliver` hands any number of the bytes under way to
the evbuffer and starts `ReadCallback`, whose inner steps are the actions
`ReadCallback`, `Header`, `NoHeader`, `Resume`, `ParaseData`, `NoData`, `DoCmd`.
Callbacks of all connections run one at a time on one thread and share nothing
that is modelled, so one connection is enough.

`RedisConnections` has the allocated objects, the ones that a timer or a
bufferevent still points to, and `connectionmap`, all keyed by address, so that
a registration that outlives its object shows. Addresses are used again.
`sessionbase` counts modulo its width. Time is the age of the last activity and
the rest of the timer.

`ConditionalGet` gives each thread of the frontend a program counter with
`toGMT` in four steps (gmtime, asctime's beginning and end, the copy), because
its two static buffers are shared; what two threads print at the same time is
`Mixed`, and the copy of it may be any date. `Set` is two steps, the timestamp and
the `Put`. The clients are part of the model: they keep the last value and its
validators and send them. Which validators a client uses, either or both, is a
parameter. `torn` and `spoilt` are history variables: the threads whose date
another one wrote over between their writing and their reading a static buffer,
and the clients' copies whose validators came with such a date.

`EtagCache` models the nodes of the lists by address, so that an iterator to a
freed node shows. A call of `Set` or `Get` of a shard holds its mutex and is one
step; the two counters have no lock and are read and written in separate steps.

`MultipartOps` takes the parser's status, the bytes held back and the fields
read; each method of the parser is an operator of that name. `Process` is the
body of the loop of `_ProcessData`, `Round` one turn of it with `NeedToRepeat`,
and the loop is a recursive function of the number of turns. The symbols of a
body are a constant with CR, LF, NUL and `-` among them; a header line is one
symbol that `FieldOf` gives a meaning to. `Multipart` cuts a body anywhere.

`Backend` makes a request one action, for a request changes at most one row. It
takes a body as bytes, and the conversion to a C string and the parser do to
those bytes what they do. `acked` is a history variable: the contents of the
databases as clients have been told. `Storable` says which uploads the server
can store as they are meant: bytes without a NUL, and forms with a file that
are not too long.

`IniFileOps` has an object as a sequence of sections with their values and
comments, and a file as a sequence of lines of the kinds `ReadFile` tells apart,
which it reads one after the other by a recursive function of their number.
`CheckCase` folds names as the class does. What the calls of `IniFile` return is
left out, because the program uses only the result of `ReadFile`, in `Load`.

`Startup` has processes with a program counter, a parent and the settings they
hold in memory, which a fork copies. `loads` is a history variable, the files that
were loaded into these settings one after the other, readable or not. `Edit` is
the user.

`Logger` has the table of descriptors of the process, in which sockets come and
go, the sizes of the log files ever opened, and which file has which name.
`logMessage` is the steps write, lock, lseek, rename, open, close, assign and
unlock.

## 3. Runs

| run | configuration | result |
|---|---|---|
| `storage` | `Storage.cfg` | holds: `SortedSet` mirrors its containers and implements `SortedMap`; `EtagCache` keeps its iterators valid and implements `LruCache`; `CIniFile` writes what it reads and hides nothing; `RowCodec` keeps deadlines apart, lists keys and loads deadlines in order; FLUSHALL and SCAN DEL leave no row of before, and FLUSHALL takes a value before its deadline |
| `serial` | `ExpireManager.cfg` | holds: `IndexAgree`, `CachePrefix`, `CacheBounded`, `Wakeup`, `TimeoutHappens` |
| `serial_refines` | `ExpireManagerRefine.cfg` | holds: without FLUSHALL, `KeyTimeout` is implemented |
| `threads` | `ExpireThreads.cfg` | holds: a removal is always justified by a deadline asked for and passed |
| `redis_port` | `RedisPort.cfg` | holds: order, exactness and promptness of commands under every fragmentation; no dangling registration, an exact table, idle connections closed in time and no other |
| `redis_commands` | `RedisCommands.cfg` | holds: with any one handler meeting failures, or one FLUSHALL, granted deadlines are found and nothing is removed before a deadline asked for; without them, not before the deadline granted |
| `http` | `Http.cfg` | holds: acknowledged writes and only they are stored and read; the frontend's answers are current up to the precision of validators, and validators belong to the values, but for dates written over in `toGMT`; forms are read alike in all pieces |
| `process` | `Process.cfg` | holds: one worker per launch, with the settings of the last readable file and the password of the last one that sets it, and restart after a crash; log files are full when renamed and never much fuller, and the log is open |
| `flush` | `ExpireManagerFlush.cfg` | violated: with FLUSHALL, `KeyTimeout` is not implemented |
| `wakeup` | `ExpireThreadsWakeup.cfg` | violated: a wake-up can be lost |
| `permanent` | `ExpireThreadsPermanent.cfg` | violated: a value that is written after a crash, without a deadline, can be removed |
| `backend_binary` | `BackendBinary.cfg` | violated: a body with a NUL byte is not stored as it was sent |

What the violated ones show, in steps of the code:

* `flush`: SET k v EX t puts k in the cache; FLUSHALL deletes all rows and
  leaves the cache; SET k w gives k a value without a deadline (TTL replies -2);
  the next pass after the old deadline deletes it.
* `wakeup`: ExpireLoop loads an empty database; the redis thread then stores a
  deadline, for which SetTTL changes nothing, because `first_timeout` is still 0
  and the cache is empty; ExpireLoop goes on and stores INT64_MAX. Dispatch does
  not look again until another SetTTL.
* `permanent`: EXPIRE of a key is under way and a client deletes the value
  meanwhile; the process crashes after `Put` of the `z` row and before `Put` of
  the `s` row. After the restart, while the expire thread sleeps and the cache is
  empty, a client writes the key over HTTP. The key has no `s` row, and nobody
  asks for a deadline. ExpireLoop then loads the `z` row that was left, and
  deletes the value. (`Zdel` returns at the missing `s` row, so that the `z` row
  stays for the next reload, src/xDataBase.cpp:407.)
* `backend_binary`: `value = buffer` copies up to the first NUL; the PUT is
  answered with OK.

### What the passing runs leave out on purpose

Modelling the code showed more places where it does not do what its comments or
its README say. The models contain these behaviours, but for the last two; the
passing runs exclude them by a constant or by a condition in the property.

* The expire thread deletes a value under the deadline it has read although a
  client has replaced it since (`src/xExpireManager.cpp:79`). `ExpiryJustified`
  asks only for a deadline that was asked for.
* The expire thread's `Del` and `Zdel` and the redis thread's `Zset` are several
  calls each, without a lock. A SET EX between `Del` and `Zget` may lose the
  deadline it was granted, and the value stays (`src/xExpireManager.cpp:80`); one
  between `Zget` and the second Delete of `Zdel` is left with a `z` row and no `s`
  row (`src/xDataBase.cpp:416`). No crash is needed.
* Neither FLUSHALL nor SCAN DEL touches the cache of the expire thread: a key
  written afterwards may be removed under a deadline that is gone (run `flush`).
  `FlushRows` has these removals and its properties are not about them.
* A single byte in the evbuffer is not read (`common/xRedisServerLib.cpp:237`): a
  last byte that arrives alone waits. `FollowedExecuted` is about commands with
  something behind them.
* The length 0 is taken for an incomplete line
  (`common/xRedisServerLib.cpp:102`): an empty argument blocks its connection.
  The stream of the run has none.
* After `sessionbase` has wrapped onto a number in use, `FreeConnection` frees
  the older connection of the two (`common/xRedisServerLib.cpp:376`). The run
  accepts no more connections than there are numbers.
* Two threads that use dates share asctime's buffer: a client is sent another
  key's date, or is told that its value is current by that date
  (`common/util.cpp:55`). This happens in the run; `AnswerCurrent` and
  `ValidatorsMatch` leave out the requests and the copies in `torn` and `spoilt`,
  and hold for all others.
* A client that sends both validators is answered with 304 when either matches,
  and is given the newer ETag for its old value (`src/xevHtpdFrontend.cpp:149`).
  `ValidatorsMatch` allows the ETag of another value of the same second beside a
  date.
* Values written within one second, or one millisecond, have the same
  validators (`src/xevHtpdFrontend.cpp:132`, `:141`). `AnswerCurrent` allows it.
* Validators are sent only to a client that sent one
  (`src/xevHtpdFrontend.cpp:136`): a client that starts without one never gets
  one. The clients of the run make one up.
* A read that fails is answered as a value by the frontend
  (`src/xevHtpdFrontend.cpp:123`) and by the backend, a failing scan with an empty
  list, and a failing Del with 404 (`src/xevHtpdBackend.cpp:136`).
  `AnswerCurrent` and `ReadsAcked` leave failed reads out.
* A form that the parser refuses for its length is acknowledged and stored as an
  empty value (`src/xevHtpdBackend.cpp:154`). The forms of the run are short
  enough.
* `/config` and `/statistics` acknowledge every method and store nothing
  (`src/xevHtpdBackend.cpp:88`). The run sends GET there. This, the length of
  forms and the NUL of `backend_binary` are what `StorableRequests` excludes.
* GET and FLUSHALL send no reply when their call fails
  (`src/xRedisServer.cpp:66`); SET answers OK when its Put failed (`:76`); SET EX
  repeated within a millisecond answers null (`:88`); a time-out that overflows 64
  bits is granted and the value removed at once (`:81`).
* When the Put of the `s` row fails, the `z` row stays
  (`src/xDataBase.cpp:372`), and the refused deadline acts; when a Del of the
  expire thread fails, nothing tries again (`src/xExpireManager.cpp:79`).
  `KeepsPromise` is about executions without failures.
* A deadline before the epoch is encoded behind `SCORE_MAX` and never loaded
  (`src/xDataBase.cpp:282`). `LoadsEarliest` is about the others.
* FLUSHALL answers OK after a Delete that failed, and deletes `s` rows before `z`
  rows: a crash in between leaves `z` rows that nothing deletes
  (`src/xDataBase.cpp:334`). `FlushedGone` is about rows whose Delete did not
  fail, and `ValueGoesFirst` about the other half: a crash leaves no value of
  before whose deadline is gone.
* A worker that loads a file without a password, after main has loaded one with
  it, still asks for the old one (`src/xConfig.cpp:78`), and `ConfigWhole` says
  so: the password is that of the last file that sets one. The files of the
  backend's certificate are given to the frontend (`src/xHttpCache.cpp:114`);
  `etag_cache_count` is read from another section than the one the delivered file
  has it in (`src/xConfig.cpp:50`). `ConfigWhole` takes the settings as `Load`
  computes them from one file.
* The hit rate of the ETag cache divides two integers (`src/xEtagManager.h:78`)
  and is 0 until every look-up was a hit; the counters lose increments.
* `SetValue` by number returns false when it has entered the data, `SetValueI`
  does not pass on `create`, and `DeleteKey` deletes the first of two sections
  with one name (`common/xIniFile.cpp:199`, `:226`, `:151`).

### Bounds

* `Keys` is {1, 2, 3} in the serial runs with `BatchSize` 2: one deadline more
  than the cache holds, so that trimming, refusing and reloading all happen.
  `flush` needs only two keys, and `redis_commands` has two with a cache of one.
* `MsPerSec` is 2 (1000 in the code): enough for a deadline and a clock value
  between two of them. `MaxTime` bounds the clock and the deadlines; a command
  whose deadline would lie beyond is not issued. `Never` stands for INT64_MAX
  and is beyond every deadline.
* `TTLs` includes 0, a deadline that is due at once, and in `serial_refines` -1,
  a deadline in the past, which the code accepts.
* `MaxAsked` bounds the different deadlines and `MaxCrashes` the crashes in
  `ExpireThreads`, whose interleavings are many: two keys, a cache of one, two
  deadlines and one crash give about two million states. Two keys and a cache of
  one have the trimming and the reload race with `SetTTL`. The theorem
  `ExpiryIsJustified` has none of these bounds.
* `FlushRows` has two keys, two deadlines for each and at most two deadlines asked
  for: the orders of `z` rows and of keys differ, and a deadline is replaced while
  the expire thread deletes it.
* `MaxFaults` is 1 everywhere: one handler that meets any set of failures, or one
  crash, which is enough to leave a row or an answer behind.
* `RespStream` runs on three commands of two and three arguments, one of them
  ten bytes long so that lengths of one and two digits occur, in every division
  into pieces. `RedisConnections` has three connections that reuse addresses, and
  a period that does not divide the time allowed.
* `EtagCache` has two shards of two tags and four tags that collide: every shard
  gets full and evicts. `Width` is small enough for a hash to wrap.
* `IniFile` runs four calls on files that have sections and values twice, in two
  spellings; `RowCodec` has six byte values, of which three are the flags and the
  colon, keys that are prefixes of each other, a name whose length does not fit
  its byte, and deadlines around zero and `SCORE_MAX`. The theorems are about any
  files and calls, and about any bytes, names and deadlines.
* `ConditionalGet` moves as two threads whose clients keep dates, beside one
  writer, without a failing read and with a clock that stops at `PairTime`; and as
  one thread whose client keeps both validators, beside two writers whose
  timestamps arrive out of order and a read that fails. A second has two
  milliseconds. The two clients that keep dates are interchangeable, and TLC uses
  the symmetry. All of it at once has too many states; the theorems about it
  have none of these bounds.
* `Multipart` has every content of up to three bytes from CR, LF, `-` and `b`,
  which are the bytes of a boundary and of its surroundings, and every division
  of a body into chunks. The theorems are about all forms and all boundaries
  without a line end.
* `Startup` has three processes, three deaths and two edits between three files:
  the guard's worker can die, be started again with another file, and die again.
  `Logger` has two threads, three descriptors and files of two bytes.

### Fairness

* `ExpireManager`: weak fairness of `ExpireLoop`. Dispatch is a loop that sleeps
  10 ms at most between two looks at the clock. Clients owe nothing.
* `ExpireThreads`: weak fairness of each thread's steps, for both run for ever
  and never block each other, and of the clock.
* `RespStream`: weak fairness of the running callback, and of delivery: TCP
  delivers what was sent and the event loop reads a readable socket. The size of
  the pieces stays arbitrary.
* `Startup`: weak fairness of every process's own steps, which the operating
  system's scheduler gives. Deaths, launches and edits owe nothing.

`CHECK_DEADLOCK FALSE` is set where a component may stop: a client's stream ends,
a body is read to its end, and calls, launches and files are bounded.

## 4. Proofs

TLAPS checks the following for every value of the constants, under these
assumptions: a finite set of keys, integer scores and time-outs, positive batch
sizes, capacities, widths and limits, and special values (`NoScore`, `NoNode`,
`nobody`) that are none of the ordinary ones. Where a module is used on its own
they are its named `ASSUME`s; where it shares an MC module with others they are
a definition (`CacheAssumption`, `FlushAssumption`, `CodecAssumption`,
`FrontendAssumption`, `LoggerAssumption`, `ConnectionsAssumption`,
`CallsAssumption`, `BackendAssumption`, `BoundaryAssumption`, `FormsAssumption`)
that the MC module assumes and the theorem has as its hypothesis or takes from
there (`HttpAssumption`). `ContainerProofs`, `TableProofs`, `RedisPortProofs`,
`HttpProofs` and `ProcessProofs` extend the MC module of their components, so that
their theorems state the very properties the run checks; the theorems are about
the specification of the component, or for `Multipart` and `Backend` about
`MCSpec`, and the constants stay arbitrary.

What a loop of the code computes is a recursive function of a number in these
models, the turns of the loop or the elements read so far. The library's induction
theorems have an operator as a parameter and cannot be used; instead each such
induction takes the least number of the set of counterexamples (`NatMin`), which
the theorem about well-founded relations gives.

* `ContainerProofs`, for `SortedSet`: `TypeCorrect`, `ContainersMirror`, and `Refinement`, that
  the class implements `SortedMap`. `Mirror` with the types is inductive; the
  refinement follows because under `Mirror` the first item of the ordered set is
  the front key of the map that `existed` represents. For `IniFile`:
  `IniNothingShadowed`, that no call leaves a value that another one hides, and
  `IniRoundTrip`, that ReadFile of what WriteFile writes succeeds and gives every
  name the value it had. The invariant is `ShadowFree`: of several sections with one
  name, in whatever case, only the first has values, and none of these has its
  name twice. Each call and each line that is read keeps it. The round trip needs
  it: a second value of the same name would be read as a change of the first.
  `ReadConcat` reads a file in two pieces, and what `WriteFile` writes is followed
  section by section (`Copied`) and value by value (`CopiedTo`). For
  `EtagCache`: `EtagIteratorsValid`, and `EtagImplementsLru`, that each shard is an
  LRU cache. `CacheInv` says that a node has one place in one list (`NodesOnce`),
  that the node at each place is in the map under its tag (`ListToMap`) and the
  converse (`MapToList`).
* `ExpireManagerProofs`: `TypeCorrect`, `IndexAgrees`, `CacheIsPrefix`,
  `NeverSleepsPast`, `CacheIsBounded`. The inductive invariant `IInv` is the
  conjunction of `TypeOK`, `IndexAgree`, `CachePrefix` and `Wakeup`. None of the
  last three is inductive alone: a pass sets `first_timeout` from the cache, so
  that `Wakeup` needs `CachePrefix`; and that popping or trimming the cache keeps
  it a prefix needs one `z` row per key, `IndexAgree`. FLUSHALL is included.
  Why the cache stays a prefix when `SetTTL` adds a key: it adds only a deadline
  at or before the latest one cached, and what it trims is the latest.
  `Refinement` in the same module shows that the service without FLUSHALL
  implements `KeyTimeout` under `deadline <- zset`. It needs, beyond `IInv`, that
  every cached deadline is the stored one, the fact FLUSHALL breaks.
* `ExpireThreadsProofs`: `TypeCorrect` and `ExpiryIsJustified`. The inductive
  invariant says that every deadline anywhere on its way (in the rows, the cache,
  the iterator, a command, the expire thread's locals) is one that was asked for
  for that key, and that the expire thread is past its test of the clock only
  with a deadline that has passed.
* `RedisCommandsProofs`: `GrantedDeadlineIsFound`, `NoRemovalBeforeAsked` and
  `PromisesKept`, with any set of failing calls in any number of handlers. When
  calls fail, the rows of a key no longer agree, and `IndexAgree` and
  `CachePrefix` are lost. What is left is `CopiesAsked`: each copy of a deadline,
  in a `z` row or in the cache, is one that was asked for. Until the first
  failure `CopiesPromised` says more: the copies agree with the `s` row and that
  with the promise. `PromisesKept` has the hypothesis `InRange`, that no deadline
  asked for leaves `int64_t`; one that does is granted and due at once.
* `RedisPortProofs`, for `RedisConnections`: `ConnectionsNoDangling` holds whatever the session
  numbers do. `ConnectionsExactWhileFresh` is about the time before a number
  comes again, `SidsFresh`: the table finds exactly the open connections, and
  none is silent for longer than allowed. `ConnectionsMapExact`,
  `ConnectionsIdleBounded` and `ConnectionsClosedForItself` are the same for a
  server that accepts no more connections than there are numbers (2^32 in the
  code). The strengthening: numbers in the table have been given out, and an
  armed timer runs out before its connection has been silent for too long. For
  `RespStream`: `StreamInOrder`, for any commands and any division of the stream
  into pieces, and `StreamNothingWaits`. `StreamInv` ties `erased`, `parsed`,
  `argnum` and the ends of `argv` to one place in the stream: in front of a
  command (`Between`) or inside the arguments of one (`Within`), with as many
  commands done as begin before it. The offsets are a recursive function; that
  there is one is proved from a least counterexample. `StreamNothingWaits` has the
  hypothesis `NoEmpty`: a bulk of length 0 makes `ParaseData` fail, and the
  command waits for ever, which section 3 has among what the runs leave out.
* `TableProofs`, for `FlushRows`: `FlushRowsFlushedGone` and
  `FlushRowsValueGoesFirst`, for any number of keys, deadlines, crashes and
  failures. In `FlushInv`, `Covered` says that a row of the range is still on the
  list or is a value written since; `ValueGoesFirst` is inductive with it, because
  a row of a deadline is deleted only when no value is left on the list. For `RowCodec`: `CodecDeadlinesKept`, that each
  member has the deadline it was last given. The length of a member has one byte
  in the row, so that two members may have the same one; but all of the name
  follows, and `EncodeZset` stays one-to-one. Rows of other kinds differ in the
  first byte. `CodecScanListsKeys`: a scan lists exactly the keys from its start
  on, in order and up to its limit, and no row of another kind.
  `CodecLoadsEarliest`: what LoadExpirationKeys loads are the earliest deadlines,
  in the order of time. The invariant `TableInv` says which rows there are at
  all. The rest is about the order of bytes: that it is a strict total order,
  and so every row of a finite table has a `Rank` of its own and `Ascending` is a
  sorted list; that rows of one kind lie together; and that `encode_score` is
  strictly increasing on the scores that are not negative, because at the first
  place where two scores' digits differ the larger score has the larger one.
* `HttpProofs`, for `ConditionalGet`: `FrontendAnswerCurrent` and
  `FrontendValidatorsMatch`, for any number of threads and clients with any
  validators. The invariant of a thread follows the date through the two static
  buffers (`Dated`, and `DateKept` while nobody wrote over it) and keeps what was
  stored since the request came (`Witnessed`). `PrintsAlone` says that of two
  threads that use asctime's buffer at the same time each one that may be
  disturbed is in `torn`. `NotModifiedAlike`: a 304 that is not torn is for a
  value of the same second, and of the same millisecond if the client has no date;
  so renewed validators still fit (`Fits`). Nothing is assumed of the clients. What
  the properties leave out, `torn` and `spoilt`, is needed: without it TLC finds
  both violated by two threads that print dates.

  For `Multipart`: `MultipartChunksInvisible` and `MultipartFormRead`, for all
  forms and all divisions of a body into chunks. A `Measure` of the bytes held
  back and the status gets smaller with every turn of the loop but the last, so
  that the loop ends (`RoundsSuffice`). `RunConcat`, by the least measure: what
  the parser makes of a chunk and then of the next is what it makes of both
  together, unless it throws. So `MultipartInv` holds: a parser that has not thrown
  is as if all had come at once. `FormRead` follows the form part by part
  (`ReadUpTo`), in a few turns of the loop for each, and the boundary is found
  where it stands, not before, because `WellFormed` has none in a content and
  `BoundaryNext` shows that none reaches from a content into the line end behind
  it.

  For `Backend`: `BackendAckedIsKept` and `BackendReadsAcked`, with any number of
  failing calls. `BackendInv` says that the rows are the ones clients know and that
  each table is finite, which the list of a scan needs; `ValueMeant`, from the
  theorem about forms, that the value stored is the one that was meant. The hypothesis
  `StorableRequests` is the condition described in section 3: without it the
  server acknowledges writes that it does not store as they were sent, and the
  run `backend_binary` is a counterexample. `RequestsAssumption` has TLC check
  that the requests of the run `http` satisfy it.
* `ProcessProofs`, for `Startup`: `StartupOneWorker`, whose `LaunchInv` counts
  for each launch the processes on their way to a worker, and says whom a worker
  has for a guard; and `StartupConfigWhole`, whose invariant says that at every
  moment the settings of a process are what its history of loads is to result in:
  a file that cannot be read changes nothing, and one that can be overwrites every
  option but a password it does not set. For `Logger`: `LoggerLogIsOpen` and
  `LoggerSizeBounded`. `LogInv` says where rotateLog is and what it has done by
  then (`Rotation`), that nothing else is open on a log file (`OnlyLog`), and, the
  heart of it (`Room`): the limit may be passed by one message for each thread
  that has written and not yet looked at the size, `Behind`.

The inductive invariants were checked with TLC before they were proved. The runs
spend no property on types, except `threads`, whose program counters and locals
are many; the other `TypeOK`s are there for the proofs.

Only model-checked:

* `TimeoutHappens`, `FollowedExecuted` and `GuardKeepsServing`, which are liveness
  under fairness, and out of the prover's reach.

Every other property that a passing run checks is stated by a theorem.

## 5. Not modelled

* What two overlapping calls of `SortedSet` do to its trees: undefined behaviour
  of the C++ library. A call is one step, and a crash is possible at any point.
* Empty keys and members in `Zset` and `Zdel` (`src/xDataBase.cpp:344`, `:400`): an
  empty argument blocks the parser, so that no command has one.
* `etag_cache_count` 0, which a configuration can say and `CacheAssumption`
  excludes: the ETag cache is never filled.
* A clock that goes backwards. Logging of the handlers, and the wording of
  replies and pages.
* `OpenDB` and its options, `StatusStr`; `Rawdel`, `Expire` and `Scan` of
  `xDataBase`, which nothing calls.
* gzip in the frontend, which does not change what a body means; the table of
  content types, binding and threads, which wrap libevhtp and keep no state.
* Files that the multipart parser could keep in a temporary directory, and the
  logger's old-file list and `checkFile`: nothing switches them on.
* The formatted and floating-point getters and setters of `CIniFile`, which
  convert and call the modelled ones. Of the modelled part the program itself calls
  `ReadFile` and the getters; `EtagCache` and the edits and `WriteFile` of `IniFile`
  are checked as classes.
* Memory: iterators of RocksDB and the parser of an upload are never deleted.
* Third-party code: jsoncpp, sds and MurmurHash under `common/`, the headers of
  RocksDB and libevhtp under `include/`. They are about four fifths of the
  lines of the repository. The code uses of them: `sdsnewlen` and `sdslen` (an
  argument and its length), `Json::FastWriter` on one flat list and one flat
  record, and `MurmurHash64A` as a number.

## 6. Plan

The modules of the plan are all there, and every safety property of the passing
runs is proved. What is worth doing next is at the level of design: corrected
versions of `ExpireThreads` (a `Zset` that writes both rows in one batch, a lock
around `sort_set` and `first_timeout`) and of FLUSHALL (which would clear the
cache), and the proof that they keep what the present code breaks.
