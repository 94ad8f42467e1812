# A TLA+ model of lua-lluv

lua-lluv binds libuv to Lua.  The C part (`src/src/*.c`) wraps every libuv
handle and request in Lua objects and calls Lua callbacks from the event loop;
the Lua part (`src/src/lua/lluv/*.lua`) adds containers, a buffer, coroutine
sockets and coroutine files.  This directory holds TLA+ models of the parts
where the order of events decides whether the program is right, TLC
configurations for small instances, and TLAPS proofs for every instance.

## 1. The system

Everything runs in one thread.  Concurrency comes from three actors that
interleave on one C stack:

* the **Lua program**, which calls methods from its main chunk or from a callback;
* **libuv**, which calls back from `uv_run`, in an order it chooses;
* the **Lua garbage collector**, which may run at any allocation, clears weak
  values, calls `__gc` and frees userdata.

A fourth works beside them: libuv's **worker threads**, which carry out file
system and DNS requests and touch the memory that the request points to.

| component | state | operations | what makes it correct |
|---|---|---|---|
| handle base (`lluv_handle.c`, `lluv_req.c`) | per handle: open flag, lock bits, request counter, registry reference, callback slots; two weak tables | create, close, lock, unlock, data, requests, `__gc` | libuv never points to freed memory; a handle with a planned callback is not collected; a closed handle leaves nothing behind and is released |
| watchers (`lluv_timer.c`, `idle`, `prepare`, `check`, `poll`, `signal`, `fs_event`, `fs_poll`) | callback slot and START lock of the handle | start, stop, again, event callbacks | the lock follows the watcher; no event without a callback |
| streams, sockets, processes (`lluv_stream.c`, `tcp`, `pipe`, `tty`, `udp`, `process`) | callback slots, requests in flight | write, connect, shutdown, listen, accept, read, send, recv, spawn | requests unlock the handle once; accept and spawn failures do not leak |
| event loop (`lluv_loop.c`, `lluv_lua_call`) | defer queue, running level, error mark, stop flag | run, stop, defer, close_all_handles, close | deferred calls run once and in order; the last error of its callbacks becomes the error of a run; closing ends |
| list (`lluv_list.c`) and Lua list (`utils.lua`) | first, last, table | push, pop, insert, remove | it is a deque |
| file system requests (`lluv_fs.c`) | request, file object, buffer references | one function per libuv call, sync or async | buffers and files live as long as the request; every descriptor is closed exactly once |
| references (`lluv_req.c`, registry table of lluv) | callback, data and context of each request, callbacks of handles, each a number of `luaL_ref` | new, free, return of a refused request | a number names its owner's value as long as it is kept, and is given back once |
| read buffers (`lluv_utils.c`) | the buffer of the loop and a busy flag | alloc and free callbacks | every buffer is back before Lua runs |
| DNS (`lluv_dns.c`) | request | getaddrinfo, getnameinfo | each request answers once |
| `Buffer`, `Queue`, `DeferQueue` (`utils.lua`) | list of chunks, end of line | append, read_line, read_n | what is read does not depend on how the data was cut into chunks |
| coroutine sockets (`luasocket.lua`) | socket state, waiting coroutine, timer | connect, accept, send, receive, timeouts | a waiting coroutine is resumed once, by the event it waits for |
| coroutine files (`cofs.lua`) | file, position, buffer, waiting coroutine | open, read, write, seek, close, interrupt | bytes and position are right however the file falls into chunks; a call is answered by its own request; no descriptor is lost |
| misc, error, fbuf, `l52util`, module init | none, or one object | getters and conversions | not about order: unit tests reach them |

How they meet: handles and requests call `lluv_return...`, which puts the
callback in the loop's defer queue (`LluvHandle!Defer`, `LluvLoop!defer`, a
`LluvList`); every callback of libuv goes through `lluv_lua_call` and then runs
the defer queue (`LLUV_HANDLE_CALL_CB`); `close_all_handles` walks the handles.

## 2. Modules

| module | models |
|---|---|
| `LluvHandle` | `lluv_handle_t` as a record: memory, open, lock, counter, self, cb, weak tables, libuv's view, program references; creation, close, lock, finalizer, request primitives |
| `LluvWatcher` | the eight watcher kinds |
| `LluvStream` | tcp, pipe, tty, udp, process |
| `LluvHandles` | the composition of the three, fairness, all properties of handles, the inductive invariant `HandleInv` |
| `LluvLoop` | the loop object, with the C stack explicit: run, close_all_handles, defer_proceed and Lua frames |
| `Deque` | the abstract list |
| `LluvList`, `LuaList` | the C list and the Lua list, refining `Deque` |
| `LluvFs` | `lluv_fs.c`: requests, file objects, the registry entries that keep buffers alive, the kernel's descriptors, the workers |
| `LluvReq` | `lluv_req.c` and its users in `lluv_stream.c`, `lluv_udp.c`, `lluv_dns.c`, `lluv_handle.c`: the registry as numbered slots, requests, readers, the shared read buffer |
| `ByteStream` | the abstract buffer: one string of bytes |
| `LuaString` | the part of Lua's `string.find` that the buffer and the files use |
| `LuaBuffer` | the class `Buffer`: chunks and a size, refining `ByteStream` |
| `LuaCofs` | the class `File` of `cofs.lua` over one path: chunks, position, interruption, the requests that an interruption leaves behind; workers and kernel as an external action |
| `LuaBaseSock` | the class `BaseSock` of `luasocket.lua`: waiting, timer, errors, pending callbacks |
| `LuaTcpSock`, `LuaUdpSock` | the classes derived from it |
| `LuaDatagrams` | what a `UdpSock` promises of the datagrams that it returns |
| `MC...` | instances for TLC; `MCSockets` has a socket of either class; `MCRequests` and `MCLibs` are sums of modules that know nothing of each other: a behaviour of one uses one of the modules, and has all the behaviours of this module |
| `LluvHandlesProofs`, `LluvLoopProofs` | theorems about the handles and the loop |
| `LluvRequestsProofs` | theorems about the file requests and the references |
| `LuaUtilsProofs` | theorems about both lists and the buffer |
| `LuaStringProofs` | lemmas about sequences of bytes and the searches of `LuaString` |
| `LuaTcpSockProofs`, `LuaUdpSockProofs`, `LuaCofsProofs` | theorems about the coroutine sockets and files |

One action stands for one C function run to its next call of Lua or its return;
that is atomic in the program as nothing else runs in between.  Where a C
function calls Lua and goes on afterwards (the close callback, the one-shot
signal, `lluv_loop_defer_proceed`, `lluv_loop_run_impl`), the model has a frame
on `stack` and a second action for the rest.

In the socket and file modules a step goes from one resumption of the coroutine to its
next `yield` or to the return of the call.  Between two calls the program may
yield somewhere else, so that callbacks come in between; other coroutines may
call `interrupt` and `close`, as the constant `Others` says.

Definitions whose names end in `_Something` after the name of another definition
and carry the comment "Mutant" are deliberately wrong variants of it, used to
see that the properties notice.

### What is assumed of libuv and Lua (external)

* `uv_xxx_start`, `uv_write` and so on may fail; on a closing handle they do.
  `uv_xxx_stop` succeeds.  Connecting a pipe that is already closed is not
  modelled.
* Every accepted request calls back once, cancelled or not, before the close
  callback of its handle; after `uv_close` a handle makes no other callback.
* `uv_run` looks at the stop flag before each iteration and clears it on return.
* Weak values of a dead object are cleared before its finalizer runs, weak keys
  after; a finalizer runs once; the program may run in between.
* A worker carries out a file request before its callback.  `uv_fs_close` with a
  callback is accepted, and releases the descriptor also when it reports an
  error.  `uv_loop_close` refuses while requests are in flight.  The program
  gives `fs_open_fd` a descriptor of its own that no open file has yet.  The
  flag of a loop that was collected may read either way.
* `luaL_ref` may return any number that is not in use; `luaL_unref` makes it
  free at once.  libuv asks for a read buffer, reads and calls back without
  anything in between.  With a failed UDP receive there is no address
  (`addr == NULL`), with a datagram there is one.
* A worker may finish queued file requests in any order, also ones of an
  abandoned call.  A read returns what is there, up to the length asked for; a
  write to a full disk is cut short and fails when nothing fits.
* A timer that is stopped or closed does not call back; `uv_timer_again` does
  not start one whose repeat is zero; `start_read` does not call back after
  `stop_read`.

## 3. Runs

| run | checks | bounds |
|---|---|---|
| `handles_one` | memory, locks, callbacks and life cycle of handles, thirteen kinds; `CloseCompletes`, `ForgottenIsClosed` | 1 handle, 2 requests, 2 deferred calls, 2 nested callbacks |
| `handles_two` | the inductive invariant `HandleInv`, two tcp handles | 1 request each, nesting 2; symmetric |
| `timer_stop` | expected violation: `InactiveIsUnlocked` | 1 timer |
| `loop_nested` | queue order, pass counting and error marks with `uv.run()` inside event callbacks | queue 3, 2 alive, stack 7, `DeferDepth` 2, errors: two values and nil |
| `loop_live` | without nested runs: the first pass drains the queue; termination of `defer_proceed`, of a stopped run, of `close_all_handles` | stack 4 |
| `loop_pop` | expected violation: `PopSucceeds` with `uv.run()` inside a deferred call | stack 7 |
| `requests` | files: memory of buffers and files, ownership of descriptors, noclose, `ForgottenFileIsClosed`; references: `OwnReferences`, `OnlyRestartsLeak`, `BuffersAreBack`, `RequestsComplete` | 1 file, 2 requests, 2 buffers, 2 descriptors; 1 stream, 1 UDP socket, 2 requests, 3 references, 1 deferred call; all reused |
| `udp_recv_error` | expected violation: `RecvErrorIsReported` | the same, 1 reference |
| `libs` | the C list and the Lua list refine `Deque`; the buffer refines `ByteStream` but for lines up to `\r\n`, size and conservation of bytes for all ends of line; files: `OneAnswer`, `NoDescriptorLost`, `TransfersAreExact`, `NothingIsSkipped`, `CallReturns` | 8 slots, 2 values; 5 bytes, pieces of up to 3; a file of 3 bytes, chunks of 2, 2 requests |
| `sockets` | `WaitingIsExact`, `WakesItsOwn`, `ConnectedIsConnected`, the accept queue, `OnlyFromPeer`, `TimeoutWakes`, `ErrorWakes`, for a socket of either class | 2 addresses, 2 chunks or datagrams, 3 clients, `MAX_ACCEPT_COUNT` 1, 2 senders; Lua without integers |
| `tcp_end` | expected violation: `EndKeepsData` | the same, Lua with integers, nobody interrupts or closes |
| `udp_assert` | expected violation: `ReceiverFindsDatagram` | as `tcp_end` |

Why the bounds are enough.  Handles interact only through `accept`,
`close_all_handles` and nesting on the stack, each of which takes two.  Two
requests distinguish "the last one" from "one of them", two nested callbacks let
a handle be closed, dropped and collected under its own callback.  In the loop
two passes (`LLUV_DEFER_DEPTH` is 10 in the code) have a first, a next and a
last one; a queue of three has a head, a middle and a tail; stack 7 holds a run,
an event, a nested run with its own event, and a `defer_proceed` with a call.
Of two error values and nil any can come first, and any replace any other.
The list bounds let the index range drift over zero in both directions.
Addresses of files, requests and buffers, the descriptors and the references
are reused in `requests`, which is what its properties are about; files meet only in the
descriptors, and one file after the other is enough for a descriptor to be
reused while a request on the earlier file is pending.  Five bytes hold a `\r\n` cut in two with another
end of line behind it.  Three references are the callback, data and context of
one request, or those of two requests and a reader, so that a number that was
given back is taken by another owner while the first may still have it; with
three of them a leak also shows.  A file of three bytes in chunks of two
(`BUFFER_SIZE` is 4096 in the code) has a line, and its end, across a chunk, a
full and a short read, and the end of the file behind either; two requests are
the one that is waited for and one that an interruption has left.  Two
addresses make an attempt and its successor; three
clients overflow a queue whose limit is one (10 in the code, and the code keeps
one more than the limit).

Deadlock is not checked: a program may end with everything closed and freed.

### Fairness

Callbacks return (a callback that never returns hangs the real program, too).
libuv serves finished requests, closing handles and the defer queue in every
iteration, however many other events there are: strong fairness, as a callback
stack at its bound may disable them in between.  The collector runs again and
again.  Nothing is assumed of the program.  `loop_live` sets
`StartWhileClosing` to FALSE: a program whose close callbacks start new handles
keeps `close_all_handles` busy for ever, in the code as in the model.  In
`LluvFs` workers, callbacks and the collector are weakly fair; in `LluvReq`
libuv calls back for every request it took, as it does even for the requests of
a closing handle; in `LuaCofs` the worker and the callback of the request that
is waited for are weakly fair, and nothing is assumed of the abandoned ones,
nor of an interruption; in `MCSockets`
the timer and the callbacks of requests are, while nothing makes a peer send
data or the program call.  `TimeoutWakes` makes an exception of objects that
another coroutine closes: `close()` takes the timer away and resumes nobody.

### What the violations show

* `timer_stop`: `lluv_timer_stop` (`lluv_timer.c:87`) calls `lluv_handle_lock`
  where all other kinds unlock.  A stopped timer stays in the registry until it
  is closed, unlike what `doc/lluv.ldoc:621-628` says.
* `loop_pop`: `lluv_loop_defer_proceed` counts the queue once per pass and
  asserts that each pop succeeds.  A nested run from a deferred call pops calls
  the outer pass has counted.
* `tcp_end`: data is lost when the end of the stream comes between two calls of
  `receive`.
* `udp_assert`: a stranger's datagram wakes the receiver, whose assertion fails.
* `udp_recv_error`: a failed UDP receive, which the tests and `luasocket.lua`
  handle in their callbacks, ends the program: `lluv_on_udp_recv_cb`
  (`lluv_udp.c:439`) gives `lluv_push_addr` the null pointer that libuv passes
  with an error.  So in `LluvStream` and `LuaUdpSock` receivers see datagrams
  only.

Seen while modelling; the models contain these behaviours, no run is about them:

* The callback of `file:close(cb)` gets `nil` as its first argument, as
  `lluv_file_close` (`lluv_fs.c:691`) sets no `file_ref`; the comment at
  `lluv_fs.c:29` names only `fs_open` as an exception.
* A file does not keep its loop alive; `lluv_check_file` and the file's
  finalizer read `f->loop` after the collector has freed a closed loop
  (`GcLoop`, and the choice in `CloseNow`).
* `Buffer:read_line` with the end of line `\r\n` overlooks one that begins at
  the end of a chunk if the next chunk has another one (`utils.lua:539`): the
  chunks `\r` and `\n\r\n` give the line `\r\n`, the same bytes in one chunk an
  empty line.  `ImplementsStream` makes this exception.
* An error whose value is nil is no error to `uv.run`: `lluv_lua_call` stores
  what `lua_pcall` left (`lluv_utils.c:85`) and `lluv_loop_run_impl` raises only
  a mark that is not nil (`lluv_loop.c:355`).  After `error()`, `error(nil)` or a
  message handler that returns nothing the loop stops and `uv.run` returns; an
  error that the same run had before is lost.  `test/test-error-handler.lua`
  relies on the handler.  So `Nil` may be one of `Errors`, and
  `ErrorsAreRaised` speaks of the last error.  (Out of memory is not one of
  `Errors`: it is marked, and raised with whatever is on the Lua stack,
  `lluv_loop.c:353`.)
* `settimeout` with less than a millisecond starts no timer (`luasocket.lua:104`,
  `lluv_timer.c:97-100`): the call waits without a timeout.  With Lua 5.3 and
  later any fraction of a millisecond raises an error instead (`Timeouts`,
  `LuaIntegers`).
* `send` reports `"closed"` when it timed out, as `_err` is that from the start
  (`luasocket.lua:340`); LuaSocket's own test (`test/luasocket/testclnt.lua:60`)
  expects `"timeout"`.
* `shutdown` yields without `_start` (`luasocket.lua:208`) and never returns if
  the peer closes, or the shutdown fails, while it waits.
* `TcpSock:socket` is defined a second time inside the block of `UdpSock`
  (`luasocket.lua:561`), where `UdpSock:socket` was meant, so that
  `socket(true)` of a TCP socket calls `stop_recv` (not modelled).
* On a UDP handle `_on_io_error` calls `stop_read`, which it does not have, so
  that an error never closes the socket (`OnUdpError`); a failed `setsockname`
  leaves a TCP handle in a UDP socket.
* A second `start_read` or `start_recv` takes a new reference and forgets the
  old one, which stays in the registry for ever (`lluv_stream.c:296`,
  `lluv_udp.c:449`); this is the exception in `OnlyRestartsLeak`.
* `udp:send(host, port, data, cb, ctx)` with an address that is none calls `cb`
  later without `ctx` (`lluv_udp.c:361`).
* `cofs`: an interrupted read is still carried out, into the buffer that the
  next read uses, too, so that a read may return bytes of another position; this
  is why `TransfersAreExact` speaks of calls that find no abandoned request.  An
  interrupted or failed `read_line` has moved past the chunks it read and does
  not return them, where `read_n` does (`NothingIsSkipped`).  `interrupt()`
  without an argument looks like the end of the file.  A write that the disk
  cuts short is reported as complete and moves the position by the whole
  string.  `read_n(0)` and `read_all` of an empty file return nil.
* One-shot signals and polls that failed keep their START lock
  (`lluv_signal.c:82`, `lluv_poll.c:64`), errors during `close_all_handles` are
  stored in a mark nobody reads (`lluv_loop.c:218`), and an error in a deferred
  call outside `uv_run` leaves the stop flag set for the next `uv.run()`.

Seen in code that is not modelled:

* The functions on paths in `cofs.lua` (`call_fs`, line 385) pass on a global
  variable `path` that nobody sets, so that every one raises an error;
  `cofs.rename` asks for `fs_scandir`.
* `getaddrinfo(node, cb)` and `getaddrinfo(node, hints, cb)` look for the
  callback one position further on, take the synchronous path and never call it
  (`lluv_dns.c:279-283`).
* `lluv_req_has_cb` (`lluv_req.c:58`) returns true when there is none; nothing
  calls it.
* `DeferQueue:close` (`utils.lua:890`) closes `_prepare`, which no object has.

## 4. Proofs

Every theorem holds for all values of the constants that satisfy the named
assumptions: any number of handles, requests, buffers, descriptors, references,
clients, datagrams, chunks and nested runs.  The bounds of the runs are
constants, too, so that they bound nothing here.  Of the invariants and action
properties that the passing runs check, all are proved; what is left to TLC is
liveness.  Each inductive invariant was checked by TLC on the instances of
section 3 before it was proved.

| property | run | theorem |
|---|---|---|
| `HandleInv`, `UvMemoryIsAlive`, `PushselfFinds`, `LockDiscipline`, `ClosedIsQuiet`, `DataOutlivesCloseCb`, `StartLockFollowsWatcher` | `handles_one`, `handles_two` | `HandleInvariance` and those that follow it |
| `ImplementsFullDeque` | `libs` | `LuaListRefinesDeque`; `ListRefinesDeque` for the C list |
| `OwnReferences`, `OnlyRestartsLeak`, `BuffersAreBack` | `requests` | `ReferencesAreOwn`, `NothingElseLeaks`, `BuffersComeBack` |
| `MemoryOutlivesRequest`, `DescriptorsAreOwned`, `NocloseIsKept` | `requests` | `MemoryIsAnchored`, `DescriptorsHaveOneOwner`, `NocloseHolds` |
| `DeferredInOrder`, `FirstPassDrains`, `ErrorsAreRaised` | `loop_nested`, `loop_live` | `CallsRunInOrder`, `FirstPassRunsAll`, `ErrorsReachTheRun` |
| `PopSucceeds` | `loop_nested` | `PassFindsItsCalls`, where deferred calls do not run the loop |
| `WaitingIsExact`, `WakesItsOwn`, `ConnectedIsConnected`, `AcceptQueue` | `sockets` | `NothingIsLeftWaiting`, `AnswersGoToTheirCalls`, `StreamIsConnected`, `ClientsAreInOrder` |
| `WaitingIsExact`, `WakesItsOwn`, `OnlyFromPeer` | `sockets` | `UdpWaitsExactly`, `UdpWakesItsOwn`, `PeersAreFiltered` |
| `SizeIsRight`, `ImplementsStream`, `LinesLoseNothing` | `libs` | `SizeIsKept`, `BufferIsStream`, `LinesAreCut` |
| `OneAnswer`, `NoDescriptorLost`, `NothingIsSkipped`, `TransfersAreExact` | `libs` | `AnswerIsForTheCall`, `DescriptorsAreKept`, `ReadsSkipNothing`, `TransfersExact` |

**Handles** (`LluvHandlesProofs`; `KindsAssumption`, `BoundsAssumption`).  `Spec`
keeps `HandleInv`, and from it follow the type invariant, the nine safety
invariants and the action property `LifeIsOneWay`.  Of these `FramesAreAlive`,
`PlannedCallbackLocks`, `WatchedHasCallback` and `LifeIsOneWay` have no place of
their own in a run: the proofs cover them.  None of the invariants is inductive
alone: that memory is alive while libuv has it follows from the handle being in
`LLUV_HANDLES_SET` while open (`Registered`), that the finalizer does not free an
open handle from `gc = "done" => uv # "open"`, that a closing handle is anchored
from its CLOSE bit (`Anchored`), and that a handle on the stack keeps its table
entry from `FramesPin` and `OneCloseFrame`.  The proof has three layers: lemmas
about the record operators (`Lock`, `Unlock`, `Close`, `Cleanup`, `ReqNew`,
`ReqFree`) preserving `Safe`; two lemmas lifting a change of one record, with or
without a new frame, to the whole state; one lemma per action.

**Lists** (`LuaUtilsProofs`; `NilAssumption`, `IndexAssumption`).  `SlotInv` says
slot by slot that the occupied ones lie between `first` and `last`.  Both lists
are deques: each operation on slots is, by a lemma of its own, the operation on
the sequence of their contents.  For insertion and removal the lemma does not
care which side was shifted, only that the values before and after the position
are where they belong (`HasInserted`, `HasRemoved`); the two branches of
`List:insert` and of `List:remove` are instances of it.

**Strings and chunks** (`LuaStringProofs`).  What all chunks of a list put
together are (`FlattenSeq`: of a list with one chunk more, of two lists, of the
parts of a list that is cut), and what `Find`, the leftmost end of line, is in a
string of any length: where it begins says where it ends, it stays where it is
whatever comes after it (`FindPrefix`), and a newline stays the first one behind
a string that has none (`FindAfter`).  What needs induction over a length is
proved by way of the least length for which it would not hold (`LeastNumber`,
`AllNumbers`), which takes no theorem with an operator as parameter.

**Buffer** (`LuaUtilsProofs`; `BufferAssumption`).  `BufferInv` says that no chunk
is empty and that `_size` is the length of all chunks put together.  Given it, each
operation on chunks is the operation of `ByteStream` on the string that they
make; the proof has one lemma per operation.  Reading a line is the long one: the
chunks before the one at which the loop stops hold no newline, so that for
`\n` the match in that chunk, and for `\r*\n` the match in all of them joined, is
the leftmost one of the whole string.  For `\r\n` one that begins
at the end of a chunk may lie before the one that is found, which is the
exception in `ImplementsStream`.  `LinesLoseNothing` has no exception.

**References** (`LluvRequestsProofs`; `ReqAssumption`).  `OwnReferences`
alone is not inductive, as it does not say that two owners have different
numbers.  `RefInv` names for every number its owner and field, and for every
occupied place of the registry somebody who can reach it, or the read callback
that a restart has left there.  Values carry their owner's name, so one place
cannot have two owners.  The lemmas describe what `luaL_ref`, `luaL_unref`,
`lluv_req_new` and `lluv_req_free` do to the registry, place by place.

**File requests** (`LluvRequestsProofs`; `FsAssumption`).  `FsInv` adds to
the shape of the records what keeps the memory of each request alive
(`Anchors`: the entry at the request's address is its own buffer, whatever an
earlier request has left there), that each open descriptor has exactly one
owner (`OwnedOnce`: the kernel's list of open descriptors, the files and the
requests cannot disagree; said without counting), and that files agree with
their descriptor about `noclose`.

**Loop** (`LluvLoopProofs`; `LoopAssumption`).  `LoopInv` speaks
of the whole C stack: each frame is good by itself (`GoodFrame`: its mark is the
last error of the Lua code that it called, what was queued before a first pass
is counted by it), each is on top of one that may have called it (`Shape`), and
the queue holds the numbers that follow the last one that ran.  That is
inductive with runs nested at any depth.  The mark is that of the innermost
runner on the stack, the last error is recorded with the caller; that the two
are the same frame is what `Shape` gives, and `ErrorsReachTheRun` follows,
without any assumption on the values of errors.  The assertion of `lluv_loop_defer_proceed` needs that the
queue is at least as long as what the pass has still to run (`Counted`), which
a run inside a deferred call breaks: `PassFindsItsCalls` has the hypothesis
`"defer" \notin NestIn`, as in the run `loop_nested`, and the run `loop_pop`
shows that it is needed.

**Sockets** (`LuaTcpSockProofs`, with `TcpAssumption`; `LuaUdpSockProofs`, which
needs none).  The coroutine yields in nine places and is resumed by callbacks, the
timer, errors and other coroutines.  `TcpInv` says of each place what is in
`_wait` and whether the timer is on (`Waits`), which handle is the socket and
which is connected (`Connects`), what is in the queue of clients (`Clients`),
and which callbacks are still to come (`Owed`): one that has not been
terminated belongs to the call that the coroutine is in.  Without the last,
`WakesItsOwn` is not inductive.  `UdpInv` adds to that what makes `OnlyFromPeer`
inductive: while the coroutine waits, its queue is empty and the peer cannot
change; a queue that may hold datagrams of an earlier peer is searched before it
waits (`Drained`).

**Coroutine files** (`LuaCofsProofs`; `CofsAssumption`).  `CofsInv` says that the
coroutine waits for the last request in libuv, that this is of the kind and at
the position its call asks for, that no other request is live, that what a read
has collected ends at the position (`Reading`), and that the descriptors open in
the kernel are counted exactly by the requests that own one and by the File.
Lemmas say how the count changes when a request is added, changed or removed,
and that a read puts bytes into the buffer without changing who waits for what.
`ReadsSkipNothing` follows from a lemma about `Resume`, which covers the
answer, the error and the interruption at once.

`TransfersAreExact` has an invariant of its own, `ExactInv`, on top of `CofsInv`.
A call that found no request in libuv keeps it that way (its own is the only
one), so that nobody else changes the bytes of the file under it.  Of such a call
`ExactInv` says that what it has read so far are the first bytes from where it
began, that its request asks for as many as the loop still needs, that an answer
that has come in but was not delivered is what the file holds there, and that
the chunks of a line read so far do not hold its end.  When `read_line` finds the end
in what it has read, the lemmas of `LuaStringProofs` make that the leftmost one
in the rest of the file, also where `\r\n` lies across two chunks.
`CofsAssumption` says that files and strings are made of members of `Byte`, that
a File has an end of line which `string.find` knows, and that `Nothing` is
neither a string nor an error.

The assumptions on constants say that bounds are numbers, that model values for
"nothing" are none of the values (`Nil` of `LluvLoop`, which may be an error, has
no assumption), and that sets are of the kind the code uses;
none speaks of the behaviour.

Only model-checked: all liveness properties (`CloseCompletes`,
`ForgottenIsClosed`, `ForgottenFileIsClosed`, `RequestsComplete`, `CallReturns`,
`TimeoutWakes`, `ErrorWakes`, and those of `loop_live`), as the prover has no rules
for fairness and `ENABLED`; and what the runs that expect a violation show.

## 5. What is not modelled, and the plan

Not modelled: conversions and getters (`lluv_misc.c`, `lluv_error.c`,
`l52util.c`, address and option parsing, tty modes): they keep no state between
calls.  The inside of libuv, and so what `uv_write2` does with the stream it
sends after it has returned.  `loop:close()` inside a callback of the same loop.
Of `luasocket.lua`: `sleep`, `toip`, `socket(clear)`.  Of `cofs.lua`: `attach`
to another coroutine while one waits, and the functions on paths, which do not
get as far as a request.  `DeferQueue`, a `Queue` that a repeating timer drains.

Next, in this order:

1. `LluvLoop` composed with `LluvHandles`, so that the error of a callback and
   the close of its handle meet; `loop:close()` inside callbacks.
2. `DeferQueue` and `sleep` on timers.

Proofs to add: that the life of a socket is one-way, as it is for handles, and
the part of liveness that is safety (a variant that each callback makes smaller)
for `defer_proceed` and `close_all_handles`.
