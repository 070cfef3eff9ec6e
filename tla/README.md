# PServer in TLA+

PServer is a single-process game server skeleton in C++: a network thread on an
edge-triggered epoll, a message thread that executes what clients send, a timer
thread, a MySQL connection pool, an event hub, and Lua scripting.  This directory
specifies all of these but logging, checks them with TLC, and proves with TLAPS their
safety: of the socket server's two threads and the queue between them, of the two
directions of a connection's byte stream, of the tables and fields a message passes
through, of start and stop, of the connection pool, of the event hub, and of the Lua
bridge with the objects that scripts share with C++.

Paths below are relative to the repository root.

## The system

| Component | State | Operations | Correct when |
|---|---|---|---|
| `CPackageList` (`net_packlist`) | list of (socket, message), a mutex, a semaphore | `AddMsg`, `DelMsg`, `GetMsg` | every message has one owner; none leaks; a permit stands for every message; a purged socket has nothing queued; the quota of a socket holds; it behaves as a FIFO |
| `SocketServer` (`net_server`) | epoll, listener, half-received and half-sent messages per descriptor | `DespatchEvent`, `OnRecv`, `OnSend`, `SendMsg`, `CloseConnect`, `GetPackage` | no epoll edge is lost; nothing of a client survives under a reused descriptor; messages are handled in order; replies reach the client that asked |
| `NetMessage` (`net_message`) | one buffer, 16-bit positions | `Recv`, `Send`, `Append`, `Copy`, field readers and writers | every byte stream is cut into the messages that were sent, whatever the chunks |
| `DespatchCommand`, `PackageDeal` | table from message type to handler | `AddCommandDeal`, `AddCommand`, `Despatch`, `PTL_Test` | a message goes to the first function registered for its type; the handler reads what the client wrote; a reply goes to the sender |
| `PServer`, `main`, `PSignal` | threads, `m_isRunning` | `Init`, `Run`, `Stop`, `Join`, `PackDeal`, `Timer`, `SignalDeal`, `Regist`, `SignalHandler` | a stop request ends every thread before anything they use is destroyed |
| `DB`, `DbPool`, `DbConnection`, `DbManager` | pool of connections, pending result sets | `GetDbConnection`, destructor, `Connect`, `Query`, `GetRow`, `GetRowNum`, `ClearResult` | a connection has one user at a time; the pool stays as small as its users; no result set is lost, freed twice or read by somebody else |
| `EventManager`, `PEvent` | handlers per event, a mutex | `Push`, `Pop`, `Launch` | the loops act as if they were atomic; `Pop` removes no handler of another method; every operation returns |
| `CHashTable` | chains of nodes per bucket | `Insert`, `Find`, `Erase` | it is a map |
| `PLua` | a Lua state and its globals | `Reload`, `GetVal`, `Call`, `PushPointer` | `Call` runs the named function with the arguments of its format; `GetVal` reads the path it is given |
| `LogManager`, `CPLog` | shared line buffer, file | `Log`, `Warn`, `Err` | a line is written whole |
| `TimeManager`, `Config`, `SqlManager`, utilities | plain values | loaders and getters | straight-line code |
| `swig_wrap`, `luatest` | a type table shared by the interpreters, userdata with ownership | initialisation, conversion, wrappers, `__gc` | an object is deleted once, by its owner, and used as what it is |

Interaction.  The network thread (`SocketServer::DespatchEvent`) turns bytes into
`NetMessage`s and hands them to `CPackageList`.  The message thread
(`PServer::PackDeal`) polls `GetPackage` (`try_wait`, and a short sleep when there is no
permit), looks up the handler
(`DespatchCommand::Despatch`), and the handler answers through
`SocketServer::SendMsg` *on the message thread*.  The message thread knows a client
only by its descriptor number, which the kernel reuses.  `CloseConnect` runs on the
network thread and clears, one after the other, the epoll registration, the queue,
the descriptor and the list of unsent replies.  The handlers use the database
pool, the event hub and Lua.  Signals arrive on any thread and clear `m_isRunning`.

What is hard: the two threads between any two locks; a permit count that must agree
with a list it is not updated together with; edge-triggered readiness that is
reported once; descriptor reuse; `errno` read after other calls; 16-bit lengths;
start-up that fails after the threads run.  `PROJECT.json` lists each as a hazard at
its line.

## Modules

| Module | Models | Role |
|---|---|---|
| `Subsequence` | the part of a sequence at a set of positions | operators |
| `MsgQueue` | what `CPackageList` promises: an unbounded FIFO with a quota per socket and an atomic purge | abstract specification |
| `PackageList` | `CPackageList` with its mutex, semaphore, producer and consumer | detailed specification; implements `MsgQueue` |
| `PackageListProofs` | - | theorems about `PackageList`, and that it implements `MsgQueue` |
| `SocketServer` | `SocketServer`, the kernel's sockets and epoll, clients, and the message thread; uses `MsgQueue` for its queue | composition |
| `SocketServerProofs` | - | theorems about `SocketServer` |
| `Framing` | what receiving promises: of the messages a client writes a prefix is handed on, whole and in order | abstract specification |
| `RecvFraming` | `NetMessage::Recv` in the loop of `OnRecv`, over bytes | detailed specification; implements `Framing` |
| `RecvFramingProofs` | - | theorems about `RecvFraming` |
| `SendStream` | `SendMsg`, `OnSend`, `NetMessage::Send`, `Copy`, `Append`, over bytes | specification of one connection's replies |
| `SendStreamProofs` | - | theorems about `SendStream` |
| `ServerLifecycle` | `main`, `PServer::Init/Run/Join/Stop`, the loops of its threads, `PSignal` | specification of start and stop |
| `ServerLifecycleProofs` | - | theorems about `ServerLifecycle` |
| `DbPool` | `DbConnection`, `DbPool`, `DB::Query`, `GetRow`, `ClearResult` of several threads, and libmysql's result sets | specification |
| `DbPoolProofs` | - | theorems about `DbPool` |
| `EventHub` | what the event system does, one step per call: registration, removal and launch | abstract specification |
| `EventManager` | `Push`, `Pop`, `Launch` with the lock and the iterators of their loops | detailed specification; implements `EventHub` |
| `HashTable` | `CHashTable` | operators on tables |
| `MessageFields` | `NetMessage`'s head, `Write`, `Read`, `<<` and `>>` | operators on bytes |
| `MessageRouter` | what the two tables promise together: one partial message per descriptor, one function per type | abstract specification |
| `Dispatch` | the way of a message from its first byte to its handler, on `HashTable` and `MessageFields` | composition; implements `MessageRouter` |
| `DispatchProofs` | - | theorems about the hash table, ownership and fields, and that `Dispatch` implements `MessageRouter` |
| `ScriptObjects` | C++ objects as scripts reach them: the generated wrapper | part of `PLua` |
| `PLua` | the interpreters: `PLua`'s members and what scripts may do meanwhile | composition |
| `ServicesProofs` | - | theorems about `EventManager`, which implements `EventHub`, and about `PLua` |
| `MCPackageList`, `MCSocketServer`, `MCRecvFraming`, `MCSendStream`, `MCServerLifecycle`, `MCDbPool`, `MCEventManager`, `MCDispatch`, `MCPLua` | - | constants for TLC |

Four of the specifications divide a connection between them.  `SocketServer` says *when*
`OnRecv` and `OnSend` run and what happens to a descriptor, with messages as opaque
units; `RecvFraming` and `SendStream` say what they do to the *bytes* of one
connection and let them run at any time; `PackageList` opens up the queue that
`SocketServer` takes as the atomic `MsgQueue`.  `Dispatch` follows the message objects
through the tables on both sides of that queue, with receiving and queueing as one step
each.  `DbPool`, `EventManager` and `PLua` share no state with these or with each other.

### Conventions

Names are the source's wherever TLA+ allows it.  A definition `X_Mistake` placed
before `X` is a plausible wrong version of `X` (a dropped guard, a forgotten
erase, a swapped order).  No specification uses it: substituted for `X`, it makes
TLC report the property that `PROJECT.json` pairs with it, which shows that the
property depends on that piece of code.

`ServicesProofs` extends both `EventManager` and `PLua`, since the proofs of both rest on the
same lemmas about `Keep`; what the two would have in common is called `LuaInit`, `LuaNext`,
`LuaSpec`, `LuaTypeOK` in `PLua`.

### PackageList

State: `m_list` as a sequence of nodes, `m_mutex` by its holder, `m_sem` as a
number, the free store as the set `freed`.  Messages that are in `OnRecv`'s hands,
in the list, in `PackDeal`'s hands or deleted are told apart, so that *one owner* and
*no leak* can be stated.  The producer is the network thread: it adds a message or,
when the socket closes, walks the list erasing its messages (one loop step per
action; the iterator is a position).  The consumer is the message thread.  Each
lock, unlock, post, wait and list operation is a step of its own.

`DelMsg` removes messages and takes no permit back, so permits may exceed the list:
`GetMsg` then returns NULL, which `PackDeal` treats as "nothing".  The specification
shows that this is all that happens: the surplus never makes a message wait.

### SocketServer

* Kernel: for every client `conn` records what it sent, what was read, whether it
  shut down or reset, and the replies in its send buffer (`TxCap` of them).
  `ready` is epoll's ready list.  A descriptor joins it when something happens
  (`Wake`) or at `EPOLL_CTL_ADD`/`MOD` (`Ctl`); `EpollWait` reports what is still
  true and empties it.  The order within a batch is left open.
* Network thread: `net.pc` is the position in `DespatchEvent`.  One `Recv`, one
  `accept` and one `OnSend` entry per step.  `CloseConnect` is three steps
  (unregister + `m_onClose` + `DelMsg`; `close`; erase the send list), the places
  the message thread can come between.  Unregistering and `DelMsg` are one step:
  between them the message thread can only take a message (which `DelMsg` would
  then miss, as when it takes it just before) or try `epoll_ctl` on a descriptor
  that is not registered, which fails.
* Message thread: `GetPackage`, `DespatchTest` or `DespatchUnknown`, `SendArm`.
  `m_sendListMutex` is held by the message thread exactly while `deal.pc = "arm"`:
  between the `EAGAIN` and the `epoll_ctl`.  Elsewhere a critical section is a step.
* A message is two units (head and body), one per `Recv`, so that a message can be
  half received when a client vanishes; a reply is one unit.  Bytes are the matter
  of `RecvFraming` and `SendStream`.
* `accept` and `AddEvent` are one step: the new descriptor is known to no other
  thread yet.  A connection that `AddEvent` refuses is closed at once.
* `OnRecv`'s `sock >= MAX_CONN` never refuses a descriptor.  `Init` asks for
  `RLIMIT_NOFILE = MAX_CONN`; `setrlimit` fails only for a process whose hard limit
  is lower already (the `return` on failure is commented out), so descriptors stay
  below `MAX_CONN` either way.  `MaxFd` is that limit.

### RecvFraming

State: the client's bytes not yet received (`wire`; byte `<<k, o>>` is the o-th of
message k), the message being received (`m_msg`, whose length is `m_recvLen`), the
uint16 at the front of its buffer (`m_field`) and the buffer's size.  `Recv(n)` is one
`recv` that returns n bytes and the loop body of `OnRecv` after it.  `AddMsg` may
refuse at any time.  `EAGAIN` changes nothing and is a stuttering step.  The client may
go away in the middle of a message.

What a length field holds before both its bytes are there is modelled, because
`GetLength` and `RecvDone` read it all the time: a zeroed buffer, then the first byte of
a uint16 (`LowByte`, the low one on the little-endian machines this code is for), then
the field.  When `GetLength` wraps below 2 the string becomes shorter than the field
and its terminating zero overwrites a part (`Resized`).  Where a message does not start
(after a wrapped length) the first bytes may spell any number.

A write beyond the buffer is undefined behaviour: `overrun` records it and the
behaviour ends.

### SendStream

State: the replies made, the stream the socket has taken, and the connection's entry of
`m_sendMsgList` (`m_msg`, `m_sendBegin`), which replies `Append` refused, and of which
`SendMsg` dropped the rest (`cut`, a history variable).  `SendMsg` and `OnSend` are critical
sections of one mutex, so each is a step; the socket takes any part of what it is offered.

`SendMsg` tests `errno` after every `send`, but `send` sets it only when it takes nothing.
After it took a part, `errno` is what an earlier call of the message thread left: often the
`EAGAIN` of `PackDeal`'s last idle `try_wait`, but after a reply to a client that has gone its
`EBADF`, `EPIPE` or `ECONNRESET`, since a `try_wait` that succeeds touches nothing.  So the
model lets the test go either way, and a reply may end in the middle (finding 2).

`NETMSG_MAX_LEN` limits an entry before a reply is appended, not after, so an entry can
outgrow its 16-bit `m_sendBegin`.  From 65536 bytes on `SendDone` can never be true and
`OnSend` repeats the entry without end; the model ends there (`wrapped`, a bound), and its
properties speak of the time before.  Errors of the socket other than `EAGAIN` are not
modelled: no byte sent after them reaches anyone.

### ServerLifecycle

State: where `main` and the three threads are, the server object, `g_pServer`,
`m_isRunning`, and for each signal its action and its handler.  `main` reads the
configuration, creates the server, starts the threads one by one, sets up the sockets,
publishes `g_pServer`, runs, joins, deletes.  The thread `SignalDeal` registers the handlers,
one `sigaction` per step: the condition of its loop (`psignal.cpp:18`) is true of every
signal, so even the five that get a handler are ignored for a moment, and `SA_ONESHOT`
resets an action when its handler starts.  A signal is delivered to any live thread, which
is suspended until the handler returns; while it runs the signal is blocked on that thread
only (`Takes`), so that a second one may reach another thread, where it meets the default
action and ends the process.  `m_isRunning` is a plain `bool`: the loops
call functions the compiler cannot see through, so each test reads it.  After `delete` a
test of it is undefined behaviour and may come out either way.

### DbPool

State: the stack, per thread the place in its `DbConnection` scope and the connection it
holds, per connection `m_pResult`, the result sets allocated and what the server has
still to send.  Each critical section of the pool is a step: `GetDbConnection` is pop,
connect, push and pop again, and other threads come between.  `AddConnection` may fail.

libmysql is external, and modelled from how `db.cpp` uses it: a statement is refused
while results are due, `mysql_store_result` allocates a set for rows, and
`mysql_next_result` moves on to the next result without storing it.  A statement that
returns two results therefore leaves the connection refusing every later statement of
whoever gets it (`Accepted` is false from then on).  That is what the code does, no text
promises otherwise, and `ResultsAreOwn` holds all the same.

`ClearResult` repeats its loop as long as `mysql_next_result` returns a positive number, and
that is an error.  When rows are stored and the next result is an error, or the connection
is lost, it frees the same set twice (*Runs by hand*).  What a process does after that is
undefined, so the behaviour ends (`Undefined`); `ResultsAreOwn` leaves such a connection out
and says so.

### EventManager

State: the map of lists, the holder of the mutex, and per thread the loop it is in with its
iterator as a position.  The two short operations are a step; the loops of `Pop` and
`Launch` take one turn per step.  `Pop` calls `erase` and then increments the iterator
again, so it skips a node, and after the last node it increments `end()`: libstdc++'s list
is circular, and the walk starts over at `begin()` (`Succ`).  A handler may be registered
any number of times and by several objects: `Push` takes whatever it gets, up to `MaxLen`.

So `Pop` does not remove every handler of its method (*Runs by hand*), and `EventHub` says
what it does remove: `Spares` lets it keep some of them, but no handler of another method may
go, and of neighbours with the method neither the first nor two in a row may stay.
`ImplementsHub` maps the lists to what they were when a running `Pop` began (`found`, a
history variable), which is sound because nobody else is inside.  The handlers return and do
not call the hub: the repository has none that does.

### Dispatch

A table is a function from buckets to chains, the node the array points to first.
`OnRecvPart` and `OnRecvDone` are `OnRecv` for the first part and the rest of a message;
the object moves from `m_recvMsgList` to the list and to the message thread, and `heap`
records which objects exist.  A request is what a client writes for `PTL_Test` with the
same operators, perhaps cut short; `PTL_Test` reads it back with `>>`.  Memory past the
end of a message reads as a value that is no byte, so a read too far shows.

Of a whole request `FieldsReadAsWritten` asks for the fields as the client wrote them.  Of one
that was cut, a number is the client's or still zero; the string is only known to be bytes
of that request behind its head and before `m_readPos`, since `ReadString` goes on where a
number did not fit and may take its length from the bytes of that number.  The router of
`MessageRouter` may handle nothing, as `Despatch` does with a type nobody registered, so it
does not show that a known type is handled.

### PLua and ScriptObjects

Interpreters share the static type table of the wrapper and nothing else.  Globals are a
function from the paths of leaves to values; a leaf has only tables before it, and a file
that is loaded replaces whole trees.  `Call` builds the Lua stack from the format
and lets `lua_pcall` take the function from the slot its argument count points to.  While a
function runs, the script may call any wrapper on any userdata, on nil or on a userdata of
another library, call the `__gc` it finds in the metatable of either class, make objects,
and drop userdata; the collector may run.  C++ makes and deletes objects of its own at any
time, but keeps one that it gave to a call until the call is over.

`__gc` deletes the object of a userdata whose `own` is 1 and leaves `own` as it is.  The
collector calls it once for a userdata; a script that calls it as well deletes the object
first, and the collector's call is the second (*Runs by hand*).  `byHand` remembers such objects.
A second delete is undefined behaviour, and a wrapper on an object that was deleted may be.

The wrapper functions are told apart by what matters: which class they belong to, whether
they test the pointer they get (the setters do, the rest do not) and which arguments they
convert.  An object that is pushed gets a userdata of its own, for NULL nil is pushed.

`Call` reads the double of an option `d` with `va_arg(vl, int)`.  A double is passed in other
registers than an int, so that from the first `d` on every option reads what was not passed for
it (`Misread`): a number becomes some number (`"junk"`), and a pointer is undefined
behaviour.  An option that puts nothing on the stack counts as an argument all the same.
With one of them too few, `lua_pcall` takes the slot just below the stack, which holds no
function, and the call is refused; with two it reads outside of the stack.  Both kinds of
undefined calls are `Astray`.

A dereference of NULL, a Lua error outside every `pcall` and undefined behaviour end the
behaviour of the model (`aborted`): nothing is claimed of what follows.  An interpreter is used
by one thread at a time: `Call` does not take the mutex, so anything else is undefined
behaviour in Lua.  Scripts do not change a metatable or the registry, nor use the `debug`
library to that end.

## Runs

Run | Bounds | Shows
---|---|---
`package_list` | 2 sockets, 4 messages, quota 1, 2 closes | permits, quota, ownership of every message, liveness, and that the list implements `MsgQueue`
`server` | 2 clients, 2 descriptors, 2 messages each, quota 1, send buffer of 1 | no lost edge, no leftovers, order
`server_live` | 2 clients, 1 descriptor | messages are taken, waiting replies leave
`reply_to_reused_fd` | 2 clients, 1 descriptor, 1 message | finding 1
`recv_framing` | 3 messages, a uint16 of 4 bits, bodies of 0, 3 and 11 bytes, any chunks | the buffer holds, nobody is closed without a cause, every message arrives, and `Framing` is implemented
`send_stream` | 4 replies of 4 or 9 bytes, a uint16 of 4 bits | the stream is the replies in order, each whole unless `SendMsg` cut it; what was kept arrives
`reply_cut` | 2 replies | finding 2
`lifecycle` | 3 signals of 2 kinds | the server is deleted after its threads; a handler that finds it ends the process
`db_pool` | 3 threads, 4 addresses, replies with rows, an error, and three with two results, one of them rows and then an error | one user per connection, the bound of the pool, results stay with who asked
`events` | 2 threads, 2 types, handlers of 2 methods, lists of 4 | `EventHub` is implemented, every operation returns
`dispatch` | 2 buckets, 3 descriptors, 3 commands of 2 types, 5 requests, quota 0 | the tables are maps, messages are owned once, fields are read as written
`lua` | 2 interpreters, 2 objects, 2 userdata, 2 files, 4 formats, 5 paths | the type table; objects are deleted once and used as what they are; calls reach their function; `GetVal` follows its path

The bounds are the smallest at which the cases occur: two sockets so that a purge
must skip another socket's messages; four messages so that one socket can exceed a
quota of one (the code's test is `> MaxPerSock`, so two fit) while the other waits;
two closes so that surplus permits add up; one descriptor forces its reuse, two
allow both clients at once; a quota of one lets a client have two messages queued, whose
order matters, and the quota of 0 in `server_live` is met by the second; a send buffer of one reply makes `EAGAIN` common.  A
uint16 of four bits keeps the ratios of the real one - a head of 4 bytes, a maximum one
below the modulus, lengths up to it - so every wrap and every length boundary occurs with
messages of at most 15 bytes; three messages let one end, one pass and one start in any
chunking; a reply of more than half of the maximum makes two exceed it.  Three signals are
one that is lost, one that stops the server and one that comes while it stops.  Three
threads at the pool are two that race for what a third gives back, and one address more
than threads would show a pool that grows too far.  Lists of four handlers have a first,
a middle and a last node to erase, with a neighbour that must stay; of `OnB` and three `OnA`
behind it, `Pop` of `OnA` comes around the end twice.  Two buckets and
descriptors 5, 6 and 7 give a collision and a bystander, and the quota of 0 is passed by
the second message of a descriptor.  Two interpreters initialise the type table twice, and two
objects with two userdata give one of each class, or two views of one of them; the formats
have an object before and behind a `d`, an option that puts nothing, and a result, and the
paths one to four keys, one of them through what is not a table.

Clients, threads, addresses, objects, userdata and interpreters are interchangeable where
a cfg says so; none of these runs checks liveness, so symmetry is sound.

Fairness: the two threads are loops that the operating system schedules (weak
fairness of each thread's next step), mutexes are handed over when free, and in
`SocketServer` a client that stays connected reads what it is sent.  No client is
required to send, shut down or connect.  In `RecvFraming` bytes that were written are
received eventually (weak fairness of `RecvSome`): TCP delivers them, and `NoLostReadEdge`
of `SocketServer` is why `OnRecv` is called.

In `ServerLifecycle` main, the threads and the handlers are scheduled, and
`epoll_wait` and `sleep` return (weak fairness of each); nobody has to send a signal.  The
handler logs (`src/psignal.cpp:41`), with functions that are not safe in a signal handler:
if it interrupts its own thread inside of `malloc` or `localtime` it can wait for itself.
Fairness of `HandlerTest` assumes that it does not, so `HandlerEndsProcess` is about the stop
protocol and not about that.

In `EventManager` a thread inside goes on (weak fairness of `Continue`): it is scheduled
and the handlers return.  No thread has to enter.

`CHECK_DEADLOCK FALSE` stands where the system may stop for good: `RecvFraming` when the
connection is over, `SendStream` when all replies of the bound are sent, `ServerLifecycle`
when the process has ended, `DbPool` and `PLua` when a step has crashed it.  The other specifications
are checked for deadlock.

### Findings

1. `reply_to_reused_fd`: a reply can reach another client (`src/server.cpp:55`).
2. `reply_cut`: after a partial send `SendMsg` trusts an `errno` that `send` did not set, and
   may leave the beginning of a reply on the stream (`src/net_server.cpp:229`).

### Runs by hand

These cfgs are kept beside the listed runs: `tlc -config <cfg> <module>`, where the module is
the one whose name the cfg begins with.  Each but the last two checks one property that a text
of the program states and the code does not keep, and TLC shows how.

cfg | property | what it shows
---|---|---
`MCRecvFramingLong` | `LongMessageRefused` | a length field above 65531 makes the `uint16` of `GetLength` wrap, so neither test against `NETMSG_MAX_LEN` can fire and a fragment of a head is handed on (`src/net_message.cpp:16`); `const_define.h:35` calls it the longest message
`MCDbPoolFreed` | `ResultsFreedOnce` | rows that are followed by an error are freed twice by the next `Query` (`src/db.cpp:85`); `db.h:36` says that `ClearResult` empties and frees the result set
`MCEventManagerRemoves` | `PopRemovesMethod` | of two neighbours with one method `Pop` leaves the second, which is still launched afterwards (`src/event_manager.h:74`); the comment before it says that the handlers of several objects are removed together
`MCPLuaGc` | `OwnedMustBeDestroyed` | `__gc` deletes and leaves `own` set, so a script's own call, `getmetatable(h).__gc(h)`, is followed by the collector's (`src/swig_wrap.cpp:1143`); `swig_wrap.cpp:802` says of `own` that the object must be destroyed
`MCPLuaDouble` | `NumbersArrive` | the double of an option `d` is read as an int (`src/plua.cpp:78`), against the comment before it
`MCPLuaResults` | `ResultsReturned` | the case of `>` runs into the default case and is counted as an argument, so no call that asks for results is made (`src/plua.cpp:101`); `plua.cpp:98` calls it the separator
`MCPLuaDeep` | `GetValFollowsAnyPath` | with five keys or more `GetValList` looks up the empty key instead of the next one (`src/plua.cpp:263`); `plua.h:20` and `readme.txt:195` promise tables of several levels
`MCSocketServerClose` | `ClosesAnOpenSocket` | `CloseConnect` runs twice for one connection (`src/net_server.cpp:421`); `net_packdeal.h:16` calls `OnSockClose` the closing of a connection
`MCServerLifecycleInit` | `ServerOutlivesThreads` | when the sockets cannot be set up, the server is deleted under its threads (`src/server.cpp:15`)
`MCServerLifecycleSignal` | `SignalEndsServer` | a signal that is handled before `g_pServer` is set is forgotten (`src/main.cpp:22`)
`MCSocketServerQuota` | the safety properties of `server` | they hold with three messages for each of two clients and one descriptor: a client has two messages queued, the third is refused at the quota of one, and the number is reused
`MCPLuaCall` | `CallReachesFunction`, `GetValFollowsPath` | both hold for eleven formats, nine paths and three files, one of which does not compile, with one interpreter

Two more things the models show and no run claims, since no text of the program says
otherwise: an accept loop that ended with `EMFILE` leaves the edge-triggered listener
silent (`AcceptEnd`), and an entry of `m_sendMsgList` can outgrow `m_sendBegin` (`AppendMsg`).

## Proofs

### The queue

`PackageListProofs` proves, for every set of sockets and messages and every quota,
that `Spec` of `PackageList` implies `[]TypeOK`, `[]PermitCoversQueue`, `[]OneOwner`,
`[]NoLeak`, their conjunction `[]OwnedOnce`, `[]QuotaPerSock`, and the action properties `PurgeIsComplete` and
`NullMeansEmpty`.  The only assumption is `PackageList`'s on its constants.

The inductive invariant is

    IInv == TypeOK /\ LockHeld /\ EmptyHanded /\ LoopPassed
            /\ PermitCoversQueue /\ OneOwner /\ NoLeak

`PermitCoversQueue` alone is not inductive: a push comes before its post, so the
invariant counts the post that is due, and a pop follows the wait that took the
permit.  `LockHeld` (whoever is inside holds the mutex) excludes the interleavings
that would break it.  `LoopPassed` (the positions before the iterator hold nothing
of the socket) carries the purge from start to end.  `EmptyHanded` says that a
thread not holding a message has none recorded.  `QuotaPerSock` follows with one
more lemma about the cardinality of the set of a socket's positions
(`FewerNodes`, from `FS_Subset` and `FS_CardinalityType`).

`ListImplementsQueue` proves that every step of `PackageList` is one of `MsgQueue` or
leaves what `MsgQueue` sees.  What it sees is `SeenQueue`: a push counts from its post
on, when the quota has been tested and the permit is there (`PostFits` remembers the
test), and a purge counts as a whole when `DelMsg` has the lock.  From then on each
`erase` removes a node that is no longer seen (`KeptErased`), and at the end of the loop
nothing is left of the socket (`LoopPassed`, `KeptAll`).  `GetMsg` without a permit must
find the seen queue empty, which is `PermitCoversQueue` (`NoPermitSeesNothing`), and with
one it takes the first node, which is the first that is seen because nobody is inside
the list.  The seen queue is a subsequence, stated with `Keep` of `Subsequence`: the n-th
element kept is the one at the n-th of the positions kept, so that what a push or an
erase does to it follows from the order of positions (`RankOrder`, `NthPosition`,
`SameRanks`).

### The socket server

`SocketServerProofs` proves `[]TypeOK`, `[]BytesBelongToFd`, `[]NoLostEdge`,
`[]NoLeftoverReply` and the action property `HandledInOrder` for any clients,
descriptors, messages, quota and send buffer, from the module's assumption on its
constants alone.  The inductive invariant names what the two threads rely on:

- `NetPhase`: where the network thread is in a batch, and which flags of the entry are
  left.
- `Descriptors`: a registered descriptor is open, and an open one belongs to one client,
  which is open.
- `Working`: the batch has entries of registered descriptors only.  So an entry never
  speaks of a descriptor that was closed and accepted again within the batch: the thread
  that works on the entries is the only one that closes.
- `Cleared`: nothing received is left under a number when `close` is about to give it back.
  With `Descriptors` it carries `BytesBelongToFd` over the reuse.
- `Armed`: `EPOLLOUT` is armed for a descriptor with unsent replies, or the message
  thread has the lock and is about to arm it.  `NoLostWriteEdge` needs it: without the
  flag the kernel would not report that the buffer has room.
- `Hand` and `Unheard`: what the message thread holds, and that it can hold nothing of a
  client that was not accepted yet.
- `InOrder`: a client's messages in the queue are a run of its stream that starts after
  the last one taken (`RunInQueue`) and ends with the last one read (`RunIsRead`), except
  while its connection is being closed.  `HandledInOrder` speaks of a single
  step, and follows from the first of the run being the next one to take.

`NoLostReadEdge` and `NoLostWriteEdge` are inductive with these.  The cases that count are
the `EAGAIN` that ends `OnRecv`, after which the next byte is a new edge, and `epoll_ctl`
with `EPOLL_CTL_MOD` by the message thread while the network thread has the entry
already: the kernel then looks at the socket again, and reports what is true.

### Receiving

`RecvFramingProofs` proves `TypeOK`, `NoOverrun`, `ClosedForCause` and that
`Spec` implements `Framing!Spec`, for a uint16 of any size and any number and length of
messages, under `FieldsFit`: no client writes a message longer than `NETMSG_MAX_LEN`.
Without the hypothesis they are false (`MCRecvFramingLong`).  The invariant says that the stream
not yet received is in order (`Contiguous`, `Written`), ends where the client's last
message ends unless the client has gone (`LastWritten`), that its first byte is the next
one of the message being received (`Expected`), and that the partial message is a proper
prefix of message `Len(delivered) + 1` with the field and the buffer size that its
head announces (`Partial`).  Order is stated in a closed form over pairs of positions,
which needs no induction over the stream.

### Sending

`SendStreamProofs` proves `[]TypeOK`, `[]RepliesInOrder` and `[]KeptArrives` for a uint16 of any
size and any number and length of replies, whatever `errno` the test after a partial send
meets.  `WholeReplies`, which says more, is false (finding 2).  The
argument is about `Out`, what was sent followed by what waits: `OnSend` moves a byte range
within it (`OnSendKeeps`), and `SendMsg` leaves it, adds one whole reply, or adds the beginning
of one that it records in `cut` (`SendMsgKeeps`, from `AddReply`, `RefuseReply` and `MoreCut`,
which are facts about sequences only).

### Start and stop

`ServerLifecycleProofs` proves `[]TypeOK` and `[]RunEndsAlone` for any number of signals.
The invariant carries `Join` through its loop (the threads before `i` have ended, and a
thread that has ended takes no step) and says that a server that failed to start was never
published.

### The pool

`DbPoolProofs` proves `[]TypeOK`, `[]OneUser`, `[]PoolBounded` and `[]ResultsAreOwn` for
any threads, addresses, capacity and replies, from `DbPool`'s assumption on its constants
alone.  `StepCases` reduces the actions to five moves of the stack and the program
counters, so that a proof about the pool need not look at each action.

`OneUser` and `PoolBounded` are inductive together with the types.  For the bound the step
that counts is the one that finds the stack empty: then every connection is held
(`AllHeld`), by a thread that is not the one that looks and not one that is adding, so there
is still room for the new one.  `ResultsAreOwn` needs `OneUser`, since otherwise another thread's
`Query` could come between, and `RowFresh`: after a `Query` that succeeded the stored
result is the thread's own or none.  It says nothing of a connection on which an error
followed a stored result: `ClearResult` then frees it twice (`MCDbPoolFreed`).

### The event hub

`ServicesProofs` proves `[]TypeOK` of `EventManager` for any threads, types and
handlers.  It is more than types: only the thread that has the lock is in a loop, the list
it walks stays in the map while it does, and its iterator is on the list or at its end.
That holds for the iterator `Pop` moves twice because `++` of `end()` is `begin()`
(`SuccStays`), and for the list because nobody else is inside (`OneInside`).

`HubImplemented` proves that `EventManager` implements `EventHub`, whatever is registered and
however often.  `Pop` counts as a whole when it returns; until then the hub shows what it
found.  The invariant adds `PopInv`: the list in the middle of `Pop` is what is left of the one
found at some set of positions, from which no other method is missing, and of which, on the
first way along the list, everything from the iterator on is left and what is before it is
spared.  A turn that erases a node moves the iterator over the next one, which then has a
removed neighbour before it (`TurnLeaves`), and once around the end a turn can only remove more,
which leaves the rest spared.  So at the end of the walk the positions left are a choice that
`EventHub` allows (`AllSpared`, `HubPop`).  `Launch`, which needs the lock, sees no other
list.

### The tables

`DispatchProofs` proves of the operators of `HashTable`, for any number of buckets, that
`Insert` and `Erase` do to a table what adding and removing a key do to the map it stands
for (`InsertIsMapInsert`, `EraseIsMapRemove`), for tables that are `WellFormed`: a key lies
in the bucket of its hash and has one node there.  So the first node with the key, at
which the loops of the code stop, is the only one (`OnlyNode`).  `TablesStayTables` proves
that both tables of `Dispatch` are `WellFormed` in every reachable state.

On these rest `[]TypeOK`, `[]MessageOwnedOnce`, `[]FieldsReadAsWritten` and
`ImplementsRouter` of `Dispatch`.  Ownership is said of the map the table stands for
(`Apart`), and each handler is a move between its three places: the table of partial
messages, the list, and the hand of the message thread.  A message object that is erased from
the table without `delete`, or deleted and left in it, would break it.  `FieldsReadAsWritten`
is inductive with `ReadIs`: what `PTL_Test` has read is what its operators make of the bytes of
some request.  `TestReads` compares that with the fields: `>>` at the position after the
fields before it gives the number or the string that `<<` wrote there (`NumberRead`,
`WholeStringRead`), or nothing when the request was cut off before, and the string that is read
of any request stands in it before the new position (`StringRead`).  `DispatchImplementsRouter` is a simulation step by
step, with the two tables read as the maps they stand for.

`RequestAssumption` says what the proofs need of the requests: a type is a uint16, a field
has the bytes of its C++ type, the message is short enough for its length field, and a
request is cut somewhere within what was written.

### The Lua bridge

`ServicesProofs` proves `[]LuaTypeOK`, `[]ObjectsAreSafe`, `[]CallReachesFunction` and
`[]GetValFollowsPath` of `PLua` for any interpreters, objects, userdata, files, calls and
paths, with formats and paths of any length.  The inductive invariant is

    Invariant == LuaTypeOK /\ Owned /\ Trees /\ SeenRight

- `LuaTypeOK` is more than types: once filled, the type table holds one cast for each type,
  whichever interpreter came first and however many follow, and every opened interpreter has
  the metatables of all classes.
- `Owned` relates the userdata to the objects.  A userdata is of the class of its object and
  owns it just if a script made it (`UserdataFit`); an object a script made has one owner
  until `__gc` has deleted it, and afterwards only if a script called `__gc` itself
  (`OwnedOnce`); the scripts delete nothing that C++ made, and
  C++ nothing that they made (`CppKeepsItsOwn`).  `ScriptsOwnOnlyTheirs`, which counts, is a
  consequence (`OwnedByScripts`), and so is what a wrapper may touch: a value converts to a
  pointer of a class only through the casts of that class (`Converted`).
- `Trees`: no leaf of the globals is under another.  A file replaces the trees of the names it
  assigns (`LoadedTree`), so that neither of two files leaves a leaf under one of the other.
  `GetValIs` goes through the first two rounds of `GetValList` with one to four keys.  Where a
  round stops because there is no table, there is no leaf at the end of the path either
  (`TablesBefore`).
- `SeenRight` is what the three properties say of the last step.

`ObjectsAreSafe` names the exception that the code needs: of an object whose `__gc` a script
has called it says only that it was one of the script's own.  `CallReachesFunction` speaks of
calls that are not `Astray`, and of arguments before the first `d`.

`CallRuns` is about the stack.  Each option puts at most one value, so the stack is shorter than
the argument count asks for unless every option has put one (`StackIs`); then the slot that
`lua_pcall` takes is the first, which holds the global, and the arguments are the values in
the order of the options (`Prefixed`).  `PutPlain` says which options put one: the name of
the type of `t` is in the module and that of `u` is not, with spaces left out (`KnownTypes`).

The assumptions on the constants are what a format, a call and a loaded file are
(`FormatAssumption`, `CallAssumption`, `FilesAssumption`: a leaf of a file is a string, a
number or a function and has only tables before it), and that NULL and nil are nothing else.

### Only model-checked

- Liveness (`QueuedIsServed`, `MessageTaken`, `ReplyLeaves`, `WholeMessageDelivered`,
  `HandlerEndsProcess`, `OperationsReturn`), which is out of TLAPS's reach.
- The properties that *Findings* and *Runs by hand* list as broken, which are false.

The lemmas about `Keep` stand in each proof module that needs them, in the form it
needs.

## Not modelled

- `SocketServer`: `Init` and `Bind` (one-time, exit on failure), `lastConnectTime` (written,
  never read), the `clearOld` argument of `SendMsg` (no caller sets it), `Connect` (a stub).
- Signals: `SignalHandlerWithCore`, which stops the server and aborts at once; what the
  write through a dangling `g_pServer` hits when a signal comes after `delete` (the model
  lets it come, and treats it as a write that nobody reads).
- Hash table: `ForEach` and `DelAll`, which have no caller.
- Messages: nesting, `ReWrite`, `ReRead` and `SetData`, which have no caller.
- Database: `GetRowNum` and the deletion of the pool (no caller), `GetInsertId` and
  `GetError` (they only read), the address and credentials of `SetConfigure`.
- Lua: `StackDump` (no caller), the contents of the objects scripts use,
  `swig_type` and `swig_equals` (they only read), and the parts of the generated runtime
  for module variables, constants, base classes, casts and packed data, which this
  module does not have.
- The unsynchronised first use of the singletons: the models start with each one built.
- Logging, time, definitions and utilities: formatting, file output, and one-line
  functions with no state a later call depends on.

## Plan

Done: `PackageList`, `SocketServer`, `RecvFraming`, `SendStream`, `ServerLifecycle`,
`DbPool`, `EventManager`, `Dispatch` with `HashTable` and `MessageFields`, and `PLua` with
`ScriptObjects`, each with its runs; the proofs above, which cover every safety property and
refinement the passing runs check.

Left, in this order:

1. Theorems that carry a property across two specifications: that `SocketServer`'s use of
   `MsgQueue` may be read as `PackageList`.
2. A model of the logger's shared buffers, if a part of the program comes to depend on
   what is logged.
