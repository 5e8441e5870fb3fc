# Verification of linux-network-programming

The repository is a collection of small C programs about network programming
on Linux. Three of them keep state that several actors share: the thread pool
(`threadpool.c`), the epoll reactor (`epoll-reactor.c`) and the web server
(`myhttp.c`). Twelve more are echo servers, each written around another way to
wait for clients. This directory holds TLA+ modules of these programs, TLC
configurations that check them on small instances, and TLAPS proofs of their
safety for instances of every size: every invariant that a run checks, and both
refinements, are theorems.

To repeat the checks, in this directory:

    tlc -workers 2 -config PoolDynamic.cfg MCThreadPool     (a run; see the table)
    tlapm ThreadPoolProofs.tla     (proofs; also TaskPoolProofs, EpollReactorProofs,
                                    MyHttpProofs, HttpTextProofs, EchoServiceProofs,
                                    EchoServersProofs, NaturalFacts)

`PROJECT.json` lists the runs, the source lines behind each definition, the
mutants that show each property can fail, the hazards and the findings.

## 1. Inventory

| component | source | state | operations | interacts through | what is hard |
|---|---|---|---|---|---|
| thread pool | `threadpool.c/.h` | `struct threadpool_t`: ring of tasks, three thread counters, `shutdown`, two mutexes, two condition variables, `worker_tids` | `threadpool_create`, `worker_callback`, `manager_callback`, `threadpool_addtask`, `threadpool_destroy` | shared memory, `self_lock`, `busy_thr_num_lock`, condition variables, join | lost wakeups, stale samples, requests to die that outlive their reason, joining by slot |
| epoll reactor | `epoll-reactor.c` | `g_events` (entry per connection), `chekpos`, epoll's interest list | timeout loop, `epoll_wait`, `accept_connection`, `recv_data`, `send_data`, `event_set/add/del` | epoll, sockets, callbacks in the table | handles in a batch after an entry was closed or reused, rotation of the timeout test, full table |
| web server | `myhttp.c` | epoll, one connection at a time: `line`, `buf`, `target` | `epoll_run`, `do_accept`, `do_read`, `get_line`, `http_request`, `send_*`, `disconnect` | edge-triggered epoll, non-blocking sockets, files | requests in pieces, `EAGAIN`, clients that close early, buffer limits |
| URL encoding | `myhttp.c` 298-340 | two arrays | `encode_str`, `decode_str`, `hexit` | called by `send_dir`, `http_request` | decoding in place, cutting at the array's end |
| event servers | `server-epoll.c`, `server-poll.c`, `server-select.c`, `server-select-primary.c` | client table, `maxi`, `maxfd`, `N`, event array | accept, read, upper-case, write, close | epoll, poll, select | stale `revents`, a reused loop variable, tables that must agree |
| thread and process servers | `server-multithread*.c`, `server-multiprocess.c` | `addr_fd[128]`; child processes, `errno` | accept, start, serve, reap | shared ring; fork, `SIGCHLD` | the ring wraps onto live workers; children that end before the handler is set; an interrupted `accept` |
| edge-triggered examples | `server-epollET*.c`, `epoll-ETLT-demo.c`, `client-epollET.c` | one connection or pipe | wait, read half a message | epoll | data that is left unread |
| UDP echo | `UDPClient.c`, `UDPServer.c` | one socket each | send, receive | datagrams | loss, duplication, order |
| wrappers | `wrap.c/.h` | none | `Accept` (retry), `Readn`, `Writen`, `perr_exit`, ... | called by the servers | short transfers, interrupted calls |
| local socket echo | `local-socket-IPC-*.c` | one connection | accept, read, write | local sockets | one client keeps the others waiting |
| simple programs | `server-simple*.c`, `client-simple*.c`, `getline.c`, `threadpool-test.c` | one connection | read, write | sockets | little; `getline.c` repeats `get_line` of `myhttp.c` |
| libevent examples | `event-*.c` | libevent's | callbacks | libevent | life of a bufferevent in `event-client.c` |
| pages, binaries | `http/`, `server`, `client`, `threadpool` | - | - | - | no source |

What makes the programs correct:

- thread pool: no task is lost, doubled or reordered; an accepted task runs;
  callers return; counters are exact; `threadpool_destroy` returns, and frees
  the memory after the last worker; growth and shrink keep to the limits.
- reactor: table and epoll agree; an event is handled on the connection it was
  reported for; one reply per request; a silent connection is closed in time;
  every connection is accepted; the server ends only for a known reason.
- web server: lines are what the client sent; a request is answered when it is
  complete, once and wholly; no edge is lost; every connection is closed, once;
  `do_read` comes to its end.
- echo servers: each client gets back what it sent, in order, once and complete
  before its connection is closed; tables and kernel agree; a server neither
  ends nor waits on one client while others could be served.

## 2. Modules

| module | models | extends / instantiates |
|---|---|---|
| `TaskPool` | what a user of `threadpool.h` is promised: a bounded FIFO queue, each task run at most once | - |
| `ThreadPool` | `threadpool.c` | - |
| `ThreadPoolProperties` | its properties and the refinement mapping | `ThreadPool`; `TaskPool` by INSTANCE |
| `ThreadPoolProofs` | proofs about counters, slots, wakeups | `ThreadPoolProperties`, TLAPS |
| `TaskPoolProofs` | proofs about tasks: one place each, and the refinement of `TaskPool` | `ThreadPoolProofs` |
| `EpollReactor`, `EpollReactorProperties` | `epoll-reactor.c` | the second extends the first |
| `EpollReactorProofs` | proofs | `EpollReactorProperties`, `NaturalFacts` |
| `MyHttp`, `MyHttpProperties` | connections, lines and responses of `myhttp.c` | the second extends the first |
| `MyHttpProofs` | proofs | `MyHttpProperties`, TLAPS |
| `HttpText` | `encode_str`, `decode_str` with their properties | - |
| `HttpTextProofs` | proofs | `HttpText`, `NaturalFacts` |
| `EchoService` | what a client of an echo server is promised | - |
| `EchoServiceProofs` | proofs | `EchoService`, TLAPS |
| `EchoKernel` | sockets as the system calls show them, clients, and the read-reply steps all single-threaded servers share | - |
| `EpollServer`, `PollServer`, `SelectServers`, `SequentialServers`, `EdgeServers`, `ThreadServer`, `ProcessServer`, `UdpEcho` | the twelve programs, see below | `EchoKernel` |
| `EchoServers` | any one of them, with its clients | the eight |
| `EchoServersProperties` | properties and the refinement mapping | `EchoServers`; `EchoService` by INSTANCE |
| `EchoServersProofs` | proofs about all the echo servers, a section for each, and the refinement | `EchoServersProperties`, `NaturalFacts`; `EchoServiceProofs` by INSTANCE |
| `NaturalFacts` | lemmas about natural numbers that several proofs need | TLAPS |
| `MCThreadPool`, `MCEpollReactor`, `MCMyHttp`, `MCHttpText`, `MCEchoServers` | inputs, bounds and symmetry for TLC | the properties |

Operators that precede a definition and are marked "Mutant" are wrong variants
of it. No action uses them; each shows that a property can fail.

### ThreadPool

A step is a stretch of code in which no other thread can see or disturb the
thread. Code under `self_lock` is one step, or two where code outside the lock
can come between: a worker tests `taskq_size == 0 && !shutdown`
(`WorkerFindsNothing`) and calls `pthread_cond_wait` (`WorkerWait`) in two
steps, because `threadpool_destroy` writes `shutdown` and broadcasts without the
lock. The manager samples under two locks, decides, and acts in separate steps.

- The mutex is `self_lock` (its holder). `busy_thr_num_lock` covers single
  assignments, which are atomic steps, and needs no variable.
- The waiters of `taskq_not_empty` are the workers at "blocked", those of
  `taskq_not_full` the producers at "blocked". A signal wakes any one of them,
  a broadcast all; a woken thread (at "awake") goes on when it gets the lock.
  Spurious wakeups are allowed, `MaxSpurious` of them.
- A thread is named by its slot in `worker_tids`: no code writes 0 back, so a
  slot is used once. `wpc[w] = "none"` is `worker_tids[w] == 0`.
- The read of `shutdown` without a lock is a data race in C. It is modelled as
  an atomic read; the function calls around each read keep a compiler from
  caching it.
- After `DestroyFree` nothing is modelled: any further step of a worker would
  use freed memory, which `FreedAfterWorkers` excludes.
- `sleep` is no step: a thread may be late anyway.

### EpollReactor

One callback is one step, one iteration of the timeout loop another; clients
act between, as long as the server keeps their connection. This is exact because the process is one thread: within a callback
only the kernel's state can change, and each callback makes one socket call
that depends on it. `age` replaces `time(NULL) - last_active`: it grows by the
seconds that pass in `epoll_wait`. One round is taken to last at most one
second (the wait's limit); a round that lasts longer delays timeouts by as
much. `event_del` resets nothing but `status`; the model also sets `age` to 0,
since an unused entry's `last_active` is never read, and empties the socket
buffers of a connection that is closed, which the kernel does. `file`, `interest` and
`backlog` are the kernel's. Descriptors are reused, lowest first, as Linux does.
The reply is one unit, the entry's whole array; `buf` is the set of connections
whose data the array may hold. Since `event_set` clears it between `recv` and
`send`, the reply is 4096 zeros, although the comments of lines 104 and 131 read
as if the received data were sent back. `NoForeignData` says what the clearing
does achieve.
`g_port` is used in `main` but defined in no file the program includes
(`SERVER_PORT` is defined and not used); the port plays no part in the model.

### MyHttp

Each `recv`, each group of `send`s and each `disconnect` is a step, with clients
between. `disconnect` closes the descriptor (`Close`) and `do_read` goes on:
after the first `disconnect` (`ClientClosed`, line 166) the connection is served
at "close" with its descriptor closed already, and line 183 finds it so
(`DisconnectAgain`, where `epoll_ctl` fails and the server ends) or open
(`Disconnect`). Text is a sequence of words treated as `get_line` treats
characters, so a segment ends between words and never within one; a path is the
kind of thing `stat` finds behind it. Words fit the arrays into which
`http_request` scans them (see section 5). Of the history variables, `sent`,
`refused` and `cut` say what each connection was sent, whether a send to it
failed, and whether its request line ended before its second word, so that
`path` is not the client's or was never set; `heard` is what `get_line` stored. A response consists of pieces: "head", "404",
"page" and the chunks `send_file` reads. A piece is accepted whole or refused;
`send`'s partial success loses data in the same way and adds no new case. A
path that names neither a file nor a directory gets no answer at all and is
left out. `send_dir`'s loop runs for `num` = 0 entries, since the line with
`scandir` is commented out. `get_file_type` tests for "htm" and "jpeg" where
`strrchr` returns a name with its dot, so these never match; types play no part
in the model. `send_respond` is never called.

### HttpText

Characters are byte values and arrays end with 0, so that decoding in place is
what the C code does: one array, two indices.

### Echo servers

`program` says which program runs:

| `program` | source | module |
|---|---|---|
| "epoll" | `server-epoll.c` | `EpollServer` |
| "poll" | `server-poll.c` | `PollServer` |
| "select", "select-primary" | `server-select.c`, `server-select-primary.c` | `SelectServers` |
| "local", "simple" | `local-socket-IPC-server.c`; `server-simple.c` and `server-simple-wrap.c` | `SequentialServers` |
| "epollET", "epollET-nonblock", "epoll-ETLT" | `server-epollET.c`, `server-epollET-nonblock.c`, `epoll-ETLT-demo.c` | `EdgeServers` |
| "multithread" | `server-multithread.c`, `server-multithread-reuseaddr.c` | `ThreadServer` |
| "multiprocess" | `server-multiprocess.c` | `ProcessServer` |
| "UDP" | `UDPServer.c`, `UDPClient.c` | `UdpEcho` |

The variables of the running program are the fields of `mem`, named as in the
code; `pc` is where its main thread is. A step reaches from one system call
that depends on clients to the next: clients act between a wait and the read it
reported, and between a read and the reply. The bytes of client `c` are
`<<c, 1>>`, `<<c, 2>>`, ..., so that order, loss, doubling and mixing show;
`toupper` changes nothing a property distinguishes and is left out.

- A client is "open", then "finished" (a normal close: it still takes replies)
  or "reset"; a reset fails one read or write and makes the connection "gone",
  where a read finds the end and a write raises `SIGPIPE`, which no program
  handles.
- `accept` gives the least free descriptor; with none left it fails at once
  (`AcceptFails`), and every program ends on that.
- "epoll": the loop over the bytes read is run with the event loop's own `i`
  (line 60), so that after a reply the next event handled is the one at the
  number of bytes plus one. Events are lost from the batch, which level
  triggering reports again, or handled twice: then a read may block on a silent
  client, or find its descriptor closed and end the program.
- "poll": `client` is on the stack and `revents` is never initialised;
  `PollInit` takes every content. It turns out harmless: only entries above the
  `maxi` that `poll` was given are stale, and `--N` ends the scan before one of
  them is reached (`StallExplained` checks it).
- "simple": one server calls `accept` with an address length it never set; a
  negative one makes `accept` fail.
- "multithread": a worker loads its descriptor from its entry of `addr_fd` for
  each call, and the entry may have been given to a later connection. `Patient`
  says that clients do not connect while the entry they would get is in use;
  nothing in the program enforces it (see the variations below).
- "multiprocess": connection `c` stays open while the parent's `clientfd` or the
  child has it. `catch_child` may run at any step; whether it interrupts `accept`
  depends on where main is. `errno` is modelled, because `Accept` tests it.
  When the parent has ended, its children go on and the clients stop.
- "UDP": a line is one byte; datagrams may be lost and overtake each other, and
  are doubled if `MayDuplicate`. A client sends its next line only after an
  answer, which is all that relates answers to lines.

## 3. Runs

| run | cfg | shows |
|---|---|---|
| `pool_dynamic` | PoolDynamic | types, exact counters, joinable slots, one place per task, refinement of `TaskPool`, for a pool of 1 to 3 threads |
| `pool_fixed` | PoolFixed | no stranded task, memory freed last, tasks run, callers return, workers stop, for a pool of constant size |
| `reactor_safe` | ReactorSafe | table and epoll, batch, replies, timeouts, no foreign data, reasons of exit |
| `reactor_live` | ReactorLive | clients get an entry while there is one, silent ones are closed |
| `http_serve` | HttpServe | lines, whole requests, every request served, when requests arrive whole |
| `http_hasty` | HttpHasty | open descriptors, no lost edge, complete responses in order, reasons of exit, for requests in pieces, clients that leave and sends that fail |
| `http_text` | HttpText | round trip, decoding in place, bounds |
| `echo_safe` | EchoSafe | all twelve echo servers: types, tables, refinement of `EchoService`, why they end or stall, zombies, drained edges |
| `echo_live` | EchoLive | every byte is answered and every finished connection closed, whatever the other client does |

Runs that show where code and comments part (each a finding in `PROJECT.json`):

| run | the code |
|---|---|
| `pool_destroy_hangs` | destroy misses a worker that is about to wait |
| `pool_task_stranded` | an old request to die swallows the signal of a new task |
| `process_accept_errno` | a second `SIGCHLD` replaces the `errno` of an interrupted `accept`, and the server ends |

More of the code's behaviour explains why passing runs have the constants they
have. It can be seen by changing one constant:

- `PoolFixed` with `OwnerWaits` = FALSE: a caller that waits for room when the
  pool is destroyed waits for ever (`CallersReturn` fails), since
  `threadpool_destroy` broadcasts `taskq_not_empty` only.
- `HttpServe` with `Segmented` = TRUE: a request in pieces is taken to end where
  its first piece does (`AnswersWholeRequest` fails), and a "\r" that arrives
  without its "\n" makes two line ends of one (`LinesAreRead` fails).
- `HttpServe` with `MayFinish` = FALSE never comes to `HeaderLoop`, the exception
  `EveryRequestServed` makes: with it, `get_line` returns 0 for ever to a
  `do_read` whose client ended its side within the headers, and nobody else is
  served.
- `HttpServe` with `Requests <- LongRequest`: a header of just the buffer's
  length leaves its line end to be read as the empty line
  (`AnswersWholeRequest` fails).
- `PoolFixed` with `min_thr_num` = 1: after a shrink the live threads are not in
  the first slots, `threadpool_destroy` joins the wrong ones and frees the pool
  under a worker (`FreedAfterWorkers` fails).
- `ReactorSafe` with `MAX_EVENTS` = 2, fewer than clients: with the table full
  `accept_connection` keeps the descriptor it accepted, in no entry and not in
  epoll (`TableMatchesEpoll` fails), although line 58 says that a client that
  does not communicate for 60 s is closed. `EveryClientAccepted`, checked with a
  full table, says that this is the only way to be forgotten.
- `HttpHasty` without the exception for `refused` in `ResponseComplete`: after
  `EAGAIN` `send_file` reads the next part, and the part that did not fit is
  lost. Without the one in `HandledWhileOpen`: a client that closes before it
  sends anything is disconnected twice, and the second `disconnect` ends the
  server; `ExitExplained` therefore counts "finished" among its reasons.
- `EchoSafe` with `Patient` = FALSE and `RING` = 1: a connection that outlives
  `RING` later ones gets their replies sent from, and their close done by, a
  foreign worker (`ImplementsEchoService` fails). The code's ring has 128
  entries.
- `EchoSafe` with `MayDuplicate` = TRUE: a doubled answer is taken for that to
  the next line (`ImplementsEchoService` fails).
- `EchoLive` with "local" among its `Programs`: a client that stays keeps the
  others waiting; with "epollET": the half of a message left by the one read
  per edge waits for the next arrival. `EveryClientServed` fails for both, as
  it must for server designs that do not promise it.
- `EchoLive` with `MaxFd` = 2 for "multithread": main's `accept` fails as soon as
  both clients are connected and ends the server, so that nothing is shown of a
  client that stays silent.
- In a pool that grew and shrank, no slot is free although few threads live,
  because slots are never given back; a round of growth may then add nothing.

Two comments of `threadpool.c` differ from the code without a run: line 129
says the manager runs every 10 s where `MANAGE_INTERVAL` is 3, and line 142
says growth needs fewer live threads than the maximum where line 143 has `<=`
(the loop's own condition keeps the limit; `TypeOK` includes it).

Bounds, and why they are enough:

- `PoolDynamic`: three slots let a pool grow by two at once, shrink, and have
  holes among its live slots; two places and three tasks make both indices of
  the ring wrap; two callers compete for the last place. Callers and tasks are
  symmetric, workers are not (they are numbered).
- `PoolFixed`: two workers and one place, with `min_thr_num = max_thr_num`. This
  is where the liveness properties hold; the runs on findings show that a pool
  that shrinks loses tasks.
- `ReactorSafe`: `CHECKS` = 2 over three entries, so that a round ends inside
  the table and the position wraps, as 100 does in 1024. `MAX_EVENTS` is the
  number of clients, so the table is never full (see the variations for that
  case). Sums of ages are capped at `MaxAge`, beyond every comparison.
  `MaxRequests` = 2 counts the requests of all clients together: two of one
  connection, so that the second comes before, while or after the first is
  answered, or one each of two. An entry may go to another client in between.
- `ReactorLive`: one entry, two descriptors, three clients, so that the table is
  full, descriptors run out and clients wait; two requests and room for one
  reply, so that a client that stops reading keeps a reply from being sent.
- `Http*`: `LINE` = 4 holds a request line with its protocol and one end; lines
  longer than the buffer, as long, and shorter occur. Requests are given in
  `MCMyHttp`. `HttpHasty` has one descriptor and room for one piece, so that
  errors and refused pieces happen everywhere; files of two chunks are longer
  than that room. In `HttpServe` requests arrive whole, one of them without the
  empty line that ends its headers, and clients may end their side.
- `HttpText`: names up to four bytes and an array of 10, which cuts names of
  escapes after the second; all six kinds of byte the code distinguishes.

- `EchoSafe`: `OPEN_MAX` = 3, `FD_SETSIZE` = 2, `RING` = 2 and `MaxProcs` = 2 are
  below the number of clients (`MaxClients`, three), so that tables fill,
  positions are reused and the ring wraps; `MaxFd` is three for "epoll", "poll"
  and "select" and two for the others, so that descriptors run out as well.
  "epoll" has four clients, because its loop comes back to a closed descriptor
  only in batches of four events, and two `MaxMoves` (bytes and resets in all)
  where the others have three. Programs that serve one connection have one
  client and six moves. `MAXLINE` = 4 lets a read take all bytes that are under
  way; the edge-triggered readers take half of it, so that a message is left in
  part.
- `EchoLive`: two clients, one of which may be silent for ever, and a descriptor
  more than clients (`MCLiveMaxFd`), so that main of "multithread" waits in
  `accept` while both are served and does not end for want of a descriptor. "epoll" is left
  out: with three clients its loop may wait for a silent one. `MaxProcs` = 3 is
  never reached.

`CHECK_DEADLOCK FALSE` everywhere: the programs end (the pool freed, a server
that exits), or wait for clients that do nothing.

Fairness. Threads of the pool are strongly fair in what they do on their own:
callbacks return, and a thread that keeps asking for `self_lock` gets it, which
is reasonable because the manager, the only thread that takes it for ever,
sleeps for seconds without it in each round. Calling `threadpool_addtask` or
`threadpool_destroy` is never fair. The servers are weakly fair as processes
(the scheduler runs them); clients are under no fairness: they may stop at any
moment. For the echo servers (`FairSpec`) each thread and process is weakly
fair, and so is the delivery of `SIGCHLD`. Weak fairness is enough: a thread
that can go on stays able to until it does.

## 4. Proofs

`ThreadPoolProofs` proves, for every pool size, queue capacity, step width, set
of callers and set of tasks allowed by `PoolAssumption` and `NameAssumption`:

| theorem | statement |
|---|---|
| `TypeCorrect` | `Spec => []TypeOK` |
| `CountersAreExact` | `Spec => []CountersExact` |
| `SlotsAreJoinable` | `Spec => []JoinableSlots` |
| `NoTaskIsStranded` | `Spec => []NoStrandedTask`, for pools of constant size with at least one thread |
| `FreedAfterAllWorkers` | `Spec => []FreedAfterWorkers`, for the same pools |

`TypeOK` alone is not inductive. Its bound on `live_thr_num` and on
`taskq_size` depends on who holds the lock, and `CountersExact` on which slots
are in use. The inductive invariant adds `LockHolder` (the holder of
`self_lock` is exactly who is inside a locked region), `SlotsInOrder` (slots
are used in order, and the growing manager passed no unused one) and
`WaitsOnEmpty` (between finding the queue empty and waiting, the queue stays
empty: the core of the argument against lost wakeups). `JoinableSlots` then
follows: the slots in use form an initial segment that is at least as long as
the number of live threads.

The last two theorems need the pool to be of constant size; otherwise both
statements are false (see `pool_task_stranded` and the variations above). There, no
worker ever retires, so a signal always reaches a worker that goes back to the
queue, and `threadpool_destroy`'s two loops visit every slot. The strengthened
invariant `FixedInv` says that a slot is never "retired" and that the owner has
joined the slots below `di`.

`TaskPoolProofs` proves, under the same two assumptions:

| theorem | statement |
|---|---|
| `EachTaskInOnePlace` | `Spec => []OnePlace` |
| `PoolImplementsTaskPool` | `Spec => ImplementsTaskPool`, that is `Abstract!Spec` |

Most steps of the threads have nothing to do with tasks. `TaskSteps` sorts them
once into six kinds: quiet ones, and those by which a task is submitted, stored,
refused, taken and run; all else speaks of these. `TaskInv` adds to the types
`Held` (a caller has a task exactly while it is in `threadpool_addtask`, a worker
from taking to running it), `Ring` (the occupied indices run from `taskq_front`
to just before `taskq_rear`; without it a store could hit an occupied index) and
`Placed`, which is `OnePlace` taken apart by kind of place. For the refinement,
quiet steps and submissions are stutters (or `Close`), and the others are
`Accept`, `Refuse`, `Take` and `Finish`; that storing appends to `Pending` and
taking removes its head is the arithmetic of the ring (`StoreAppends`,
`TakeRemovesOldest`).

`EpollReactorProofs` proves every safety property that `reactor_safe` checks, for
any table, round, timeout, limits and clients that `ReactorAssumption` allows:

| theorem | statement |
|---|---|
| `ReactorTypes` | `Spec => []TypeOK` |
| `ReactorHandles` | `Spec => []HandledWhereReported` |
| `ReactorTableMatches` | `Spec => []TableMatchesEpoll`, if `MaxFd <= MAX_EVENTS` |
| `ReactorReplies` | `Spec => []RepliesFollowRequests` |
| `ReactorExits` | `Spec => []ExitExplained` |
| `ReactorKeepsDataApart` | `Spec => []NoForeignData` |
| `ReactorIdleBounded` | `Spec => []IdleBounded` |

`Core` says that watched entries and epoll's list describe each other and that a
batch has one event of an entry. That last fact is what makes closing and reuse
of an entry harmless: a call_back closes only its own entry, whose event is used
up, and a new connection's entry has no event in the batch. The third theorem
needs that with a descriptor left an entry is left too (`EntryLeft`, a counting
argument over the entries' distinct descriptors). The assumption `MaxFd <=
MAX_EVENTS` is true of the program under the usual limit of 1024 descriptors,
for its table has 1024 entries; the variation with `MAX_EVENTS` = 2 shows it is
needed. `ReactorReplies` adds that no two descriptors are of one connection and that a
client not yet accepted was not served (`Served`); `ReactorExits` that an entry
set for reading has `recv_data` as its call_back, and that what is reported for
reading stays readable (`CallBacks`, `Pending`). `ReactorIdleBounded` rests on `Rotation`: the
number of tests until the rotation reaches an entry is smaller than the
tests left before its age reaches the bound (`Budget`).

`MyHttpProofs` proves, for any clients, requests, lines, files and limits that
`HttpAssumption` allows:

| theorem | statement |
|---|---|
| `HttpTypes` | `Spec => []TypeOK` |
| `HttpHandlesOpen` | `Spec => []HandledWhileOpen` |
| `HttpLosesNoEdge` | `Spec => []NoLostEdge` |
| `HttpExits` | `Spec => []ExitExplained` |
| `HttpResponseInOrder` | `Spec => []ResponseInOrder`, if requests begin with a word, and "get" is followed by a path |
| `HttpResponseComplete` | `Spec => []ResponseComplete`, under the same hypothesis |
| `HttpReadsLines` | `Spec => []LinesAreRead`, if requests arrive whole |
| `HttpAnswersWholeRequest` | `Spec => []AnswersWholeRequest`, if besides each request has one empty line, its last, and each of its lines fits `line` with its end |

The first four are inductive only together, with `InPlace` (a connection served
has left the batch), `Watched` (epoll keeps edges of open connections only),
`EndSeen` (`recv` returns 0 only after the client ended and all was received)
and `Collected` (what `get_line` has stored since `do_read` began). The last two
are what `HandledWhileOpen` needs: a first line of length 0 means that the client
ended and sent nothing, the one case in which a closed descriptor is used.

`HttpResponseInOrder` and `HttpResponseComplete` have no hypothesis about
clients, segments or room: their hypothesis `WellAsked` only says what a request
is. A first invariant (`OrderInv`) says how far the response in hand has come
(`Progress`) and that a connection not yet served has been sent nothing
(`Unanswered`). `PathInv` relates the response to the request: what was not
received of a request is the rest of it, on its way or not yet sent (`Rest`), and
that is all of it until the connection is served (`Fresh`); so `get_line` stores
its first two words as they are (`Begins`), the request line has them unless it
was cut (`Taken`), and the target is the one asked for (`Answered`). A segment
moves words within `Rest` and changes nothing of this. `AnswerInv` then says
that what was sent is an initial segment of `Full(target)` unless a send failed
(`SoFar`, `Excused`), and all of it when the connection is closed. The
exceptions are needed: a chunk refused with `EAGAIN` is not sent again, and
a line cut before its path leaves `path` with what the stack held.

`HttpReadsLines` compares what `get_line` has stored with `Normal`, a definition
of what it should store that names no `recv`: the words of the text but each
"lf" that follows a "cr", with "cr" replaced by "lf". `Stored` says they agree
for what was received so far, and that `get_line` took the "\n" behind a "\r"
as soon as it was there, which is always so when requests arrive whole
(`Arrival`). `Enumerated` and its lemmas reason about counting positions, which
is how `Normal` is defined.

`HttpAnswersWholeRequest` adds that lines end where `get_line` ends them
(`Gathered`) and that a `recv` without data means nothing is left
(`Exhausted`). Its hypothesis `WellFormed` excludes requests with a line that is
read in two pieces, such as the one with which `Requests <- LongRequest`
violates the property. `RequestsAssumption` in `MCMyHttp` has TLC test that the
requests of `http_serve` meet the hypotheses and that `LongHeader` does not.

`HttpTextProofs` proves, for every alphabet of bytes, length of names and size
of `encode_str`'s array (`TextAssumption`):

| theorem | statement |
|---|---|
| `EncodingFits` | `Spec => []EncodedFits` |
| `WriterNeverOvertakes` | `Spec => []NeverOvertakes` |
| `DecodingInPlace` | `Spec => []DecodesInPlace` |
| `LinksLeadBack` | `Spec => []RoundTrip` |

The first rests on the count of characters: a step is taken with four places
left and writes three at most. The second needs the positions as they were
before decoding starts (`DecodeInv`): the writer moves by one, the reader by
one or three, so the cell that is written lies behind all that is to be read.

`Decoded` is a recursive function over the positions of a text. That the function
exists and satisfies its equation is proved first (`StepOf` and the lemmas after
it), by induction over positions as a set (`NatSetInduction`). `PlaceInv` then
says that what is written followed by the decoding of what is left is the
decoding of the whole. `LinkInv` follows `encode_str`'s pieces: the reader stands
at the start of the piece of the character that is written next (`Starts`), so
that every character comes back.

`EchoServiceProofs` proves for any set of clients and any number of bytes

| theorem | statement |
|---|---|
| `ServiceKeepsOrder` | `Spec => [](InOrder /\ Complete)` of `EchoService` |

What a client got is a beginning of what it sent, and a connection closed after
a normal finish was answered in full. `Complete` alone is not inductive, since a
byte could arrive after the close: `Quiet` (closed connections' clients send no
more) closes the gap. `AppendedInOrder` is the lemma about sequences.

`EchoServersProofs` proves, for any finite set of connections and any
`MaxFd`, `MAXLINE`, `OPEN_MAX`, `FD_SETSIZE`, `RING`, `MaxProcs` and bounds on
what clients do:

| theorem | statement |
|---|---|
| `ServersTyped` | `Spec => []TypeOK` |
| `ServersTables` | `Spec => []TablesAgree` |
| `ServersExit` | `Spec => []ExitExplained` |
| `ServersStall` | `Spec => []StallExplained` |
| `ServersReap` | `Spec => []ZombiesNoticed` |
| `ReaderDrains` | `Spec => []DrainedWhenQuiet` |
| `ServersEcho` | `Spec => ImplementsEchoService`, if `Patient` and not `MayDuplicate` |
| `ClientsGetTheirOwn` | `Spec => []EachGetsItsOwn`, under the same hypotheses |

The two hypotheses are those of the runs, and the variations in section 3 show
both are needed. The last theorem applies `ServiceKeepsOrder` through the
refinement: it says of the servers' own variables what a client gets.

`ServersInv` is the conjunction of `KernelInv` and, for the program that runs,
an invariant of its own. `KernelInv` says that no connection is in two of
backlog, descriptors and `closed`, that no two descriptors are of one connection
and that no read takes more than was sent. `MovesInv` (the bound on what
clients send) is needed for the range of `sent` in `TypeOK` only. The refinement
rests on `Owes(c, buf)`: what the server has read of `c` and not yet written is
`buf`, and these are the very next bytes the client is to get. A read, with
nothing owed, makes its bytes owed; the write hands them over (`Answer`); a
close needs that nothing is owed (`Hangup`). Beyond that:

- `EpollInv`: the first two events of a batch are handled as reported
  (`EpollFresh`), since a reply sets `i` to at least two; a descriptor of the
  batch can be missing only after a close (`EpollKnows`).
- `PollInv`: while it scans, `N` is the number of entries in a set `D` that
  `poll` reported, whose entries come before every other entry the scan could
  take for a hit (`PollCounted`). An entry accepted in this round has
  `revents` of the stack, but an index above all of `D`: when the scan would
  reach it, `N` is 0. Before `accept` the count is one more, for the listening
  socket (`PollAccepts`).
- `SelectInv`: everything left of `rset` is open and ready (`SelectScans`), and
  `N` never exceeds what `rset` holds (`SelectCounts`); a new descriptor was
  free, so it is not in `rset`. The program without a table gets by with the
  descriptors themselves.
- `EdgeInv`: what is unread has an edge or is being read (`EdgesLeft`).
- `ThreadInv`: a worker's entry is at least as many places ahead of the one main
  fills next as there are connections on their way (`Ahead`, `Pending`), so
  that main fills none in use. Only with patient clients; types and exits need
  no such thing.
- `ProcessInv`: with the handler installed and no signal under way there is no
  zombie, or only one that was there before anything was reaped
  (`ProcessSignals`); a child that runs keeps its connection from being closed
  (`ChildInv`).
- `UdpInv`: without duplicates each client has one datagram under way at most,
  its last line or the answer to it (`UdpOne`).

`ExitExplained` for a full table, or for no descriptor, is a counting argument:
the entries stand for different descriptors, these for different connections,
all of them alive (`AliveBound`, `FullTable`, `DescriptorsInUse`).

`NaturalFacts` holds what several of these need of numbers: `LeastExists` and
`NatSetInduction`. The library's induction theorem takes a predicate as its
parameter, which the provers cannot supply; stated for a set it can be used.

The assumptions on constants are `PoolAssumption`, `NameAssumption`,
`ReactorAssumption`, `HttpAssumption`, `TextAssumption` and, for the echo
servers, `KernelAssumption`, `PollAssumption`, `SelectAssumption`,
`ThreadAssumption`, `ProcessAssumption`, `UdpAssumption` and
`ProgramsAssumption`. They say that sizes are positive numbers and that names
differ; TLC evaluates each of them in the runs. `KernelAssumption` asks for
finitely many connections, because the model counts them.

Only model-checked: liveness (out of the prover's reach, `EveryTaskRuns`,
`CallersReturn`, `WorkersStop`, `EveryClientAccepted`, `SilentClientsClosed`,
`EveryRequestServed`, `EveryClientServed`). Every other property of a passing
run is a theorem.

## 5. Not modelled

- `threadpool_create`'s failures (`malloc`, `pthread_create`), including
  `threadpool_free` of fields that were never set (`threadpool.c:59`), and a
  capacity of 0, which makes `% taskq_capacity` undefined.
- Words of a request line too long for the arrays of `http_request`: `sscanf`
  copies into `method[12]`, `path[1024]` and `protocol[12]` without a width
  (`myhttp.c:403-404`), and a method or protocol of twelve characters or more is
  written past its array. What follows is undefined, so that no step is faithful
  to it; `TypeOK` and `HttpTypes` speak of the arrays of `get_line` only.
- A segment that ends within a word of a request: `MyHttp` cuts between words.
- Partial `send`s (see above), signals other than `SIGPIPE`, `epoll_wait`
  interrupted by a signal (both servers would exit).
- The texts of responses, logs and types.
- `pthread_create` failing in `server-multithread*.c`: `pthread_detach` of an
  undefined `tid` follows.
- A server that blocks in `write` because a client does not read: replies are as
  short as requests, and the echo servers' clients are taken to read them.
- `FD_SET` of a descriptor of `FD_SETSIZE` or more: undefined behaviour.
- `Readn` and `Writen` (`wrap.c`), which move their pointer backwards after a
  short transfer: no program calls them. The other wrappers add an exit on
  failures of start-up calls.
- The libevent examples (`event-*.c`): which callback runs when is libevent's
  logic, which the repository does not hold. What is the example's own,
  `event-client.c` freeing its bufferevent on every event and using it
  afterwards, is undefined behaviour.
- `server-simple*.c`: `write` of the -1 that `read` returned fails, and is no step.
- `http/`, the compiled programs, and `src/README.md`: no source.

## 6. Plan

Done, in this order: thread pool, reactor, web server, encoding, echo service
and its servers; proofs of every invariant of the passing runs, and that the
pool and the echo servers implement their abstract specifications.

Next, in order of worth:

1. An abstract specification of the reactor's table, with descriptors that are
   reused, as a refinement.
2. Action properties of the pool: counters change only under the lock.
3. Failing `pthread_create` in `ThreadPool`.
