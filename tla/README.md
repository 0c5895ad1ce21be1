# HZRobot: TLA+ models, model checks and proofs

HZRobot (`src/main.cpp`) is the controller program of an inspection robot. The robot posts a tip to
`/robot/tips`; the program makes a task of it, queues it, and a single poll thread runs the tasks one after
the other: it asks the photo service (EA) for photos, retries until all succeeded, and then tells the robot
to continue. Configuration files can be uploaded to `/robot/configs` while all this runs. This directory
holds TLA+ modules of the program's core, TLC configurations that check them on small instances, and TLAPS
proofs for every value of the constants.

## 1. Inventory

| Component | Source (below `src/Include`) | State | Operations | What makes it correct |
|---|---|---|---|---|
| Request queue | `queue/queue.hpp` | `m_list`, `m_instance`, `m_mutex`, `m_condGet` | `create_instance`, `Put`, `Get`, `Erase`, `QueueClean`, `QueueLength`, `GetQueueHead` | one instance; no lost wakeup; every item once and in order |
| Task manager | `task/Header/taskManger.h`, `main.cpp` | `task_instance`, `job`, `t_mutex`, `task_mutex` | `get_instance`, `start_del`, `start_product`, `taskpush`, `taskPoll` | each task has one holder, runs once, one at a time; no thread waits for ever |
| Task | `task/Source/photoTask.cpp`, `taskImp.cpp` | `finish`, the two retry loops | `execute`, `getisvaild`, `setisvaild`, `execute_after` | bounded retries; continue only after a confirmed round; the run log never claims more than happened; the robot is told |
| Configuration | `robot_config/Header/config.h` | `ser_config`, `photo_config`, `sql_config`, the XML files | `loadserver_config`, `loadphoto_config`, `loadmysql_config` | fields of one file belong together; a restart comes up |
| Web server | `http/Source/HttpServer.cpp` | sessions on a strand each, the io threads | `/robot/tips`, `/robot/configs`, `/robot/files`..., listener, session | every request is answered once, in order per connection, or its session ends for one of the reasons known |
| Run log, MySQL client | `mysql/Header/mysql_logs.h`, `mysql/mysql.hpp` | the one connection, the pool | `recordlog`, `execute`, `request`, reconnect | rows in the order of the calls; none twice unless an answer was lost; what a failed reconnect does |
| HTTP client | `http/hpp/http_client.hpp`, `http_parser.hpp` | socket, decode step, buffer | `call`, `recv_callback`, `reset_socket` | the body is whole however the network cuts it; no wait for what has come |
| Reactor, timers | `net/epoll.hpp`, `util/timer.hpp` | connections with their buffers, monitored events and timer ids; the timer map | `run`, `do_recv`, `do_send`, `close`, `async_connect`, `on_accept`, `do_timer` | no use after `delete this`; no lost edge; one timer per purpose; a connector dials again |
| Serial port | `com/Source/linux_serial.cpp`, `linux_serialport_imp.cpp` | the table of descriptors, termios per port, the port number of each object | open, close, set speed, parameters and flow control, read | the settings asked for are in force; each closes its own port; a read ends and has one run of bytes |
| JSON codec | `util/json.hpp` | the tree of nodes | decode, encode, encoding of C++ values | a configuration arrives as it was; an answer handed on says the same |
| MySQL rows and transactions, object serialisation, object pool, utilities | `mysql/mysql_helper.hpp`, `shine_serial`, `util` | none, or a free list | | not modelled (section 6) |

How they interact. `main` loads the configuration, makes the log and the task manager, starts the poll
thread and then the io threads. An io thread that handles a tip calls `TaskManger::get_instance`, may call
`loadphoto_config`, and calls `start_product`, which starts a thread whose one job is `taskpush`: take
`t_mutex`, `Put`. The poll thread holds `task_mutex` for ever and blocks in `Get`. A task it runs reads the
shared `Config` and calls EA with the synchronous HTTP client, and every step writes to the run log. The
bodies of the requests to EA and to the robot are written by the JSON codec, and an answer of the robot is
decoded and encoded again on its way to the client (`comm_response`). The reactor with its timers, the serial
port and the serialisation library are in the tree, but `main` does not use them: nobody says what their callers
do. `Reactor` and `SerialPort` let them do much of what the interface allows; what they may not do there is a bound,
and section 3 names it.

What is hard here: the wait and notify of the queue; a raw pointer that crosses four threads; two mutexes
whose roles must not be mixed up; retry loops whose limit can change under them, against a peer whose
answers can be lost after it has acted; an unlocked configuration with several writers and a reader;
files that are truncated before they are rewritten; callbacks that delete the object whose method called them,
under edge-triggered events; and objects that share a tty by its number. PROJECT.json lists each hazard at its line, with the
properties that would catch it going wrong.

## 2. Modules

| Module | Models | Notes |
|---|---|---|
| `FifoQueue` | what the queue promises | abstract; each operation is one step; history of accepted, delivered and dropped items |
| `RequestQueue` | `queue.hpp` step by step | mutex, wait, notify, spurious wakeups, the unlocked `GetQueueHead`; INSTANCEs `FifoQueue` and implements it |
| `RequestQueueProofs` | | theorems of `RequestQueue` |
| `TaskService` | what the robot is promised | abstract; a task is accepted, run, judged, continued, done or lost |
| `TaskManger` | `taskManger.h`, `main`, the tips handler | composes the threads with `FifoQueue`; INSTANCEs `TaskService` and implements it |
| `TaskMangerProofs` | | theorems of `TaskManger` |
| `PhotoTask` | one run of `execute` and `execute_after` | EA, the robot, faults, reloads, and what the HTTP client dials |
| `ConfigStore` | `config.h`, the upload handler | io threads load and rewrite, the poll thread reads, the process dies and starts again |
| `MysqlLog` | `mysql_logs.h`, `mysql.hpp`: `recordlog`, `request` and its reconnect | threads share one connection; the server may act late, unseen or not at all |
| `HttpClient` | `http_client.hpp`, `http_parser.hpp`: `call`, `recv_callback`, `decode_header` | the network cuts each answer anywhere; one client makes several calls |
| `HttpServer` | `HttpServer.h`, `HttpServer.cpp`: listener and session | clients connect, pipeline and leave; callbacks compete for the io threads |
| `PhotoTaskProofs`, `ConfigStoreProofs`, `MysqlLogProofs`, `SerialPortProofs`, `ReactorProofs` | | theorems of the module each is named for |
| `HttpProofs` | | theorems of `HttpServer` and of `HttpClient` |
| `TimerManager` | `timer.hpp`: `timer_manager` | operators on the ordered map of timers |
| `Reactor` | `epoll.hpp`: `run`, acceptor, connection, connector | uses `TimerManager`; the kernel's side of epoll and the peer are actions too |
| `SerialPort` | `linux_serial.cpp`, `linux_serialport_imp.cpp` | objects and direct calls on one table of ttys; `read` turn by turn |
| `JsonCodec` | `json.hpp`, with `comm_response` and the body of a photo request | recursive operators: only TLC uses it |
| `MC...` | | instances for TLC |

Operators whose name has a suffix after an underscore and whose comment begins with "Altered"
(`PutNotify_Silent`) are not part of a specification. Each is one action changed the way a plausible bug
would change it; with it in the action's place the run named in PROJECT.json fails on the property named
there, which shows that the property depends on that piece of code.

### State and actions against the code

* **RequestQueue.** `pc[t]` is the place of thread t in the call `op[t]`. `Lock` is the constructor of
  `scoped_lock`, `Return` its destructor. `GetWait` is `m_condGet.wait` (unlock and sleep in one step, as a
  condition variable guarantees); a woken thread is at `"lock"` and then tests the `while` again. `GetFront`
  and `GetPop` are the two statements, so that what the mutex buys is visible. `GetQueueHead` has three
  steps, because it has no lock. `Put` is given an item that was not put before: the program puts
  `new PhotoTask(...)`.
* **TaskManger.** `io[h]` is the place of io thread h in the tips handler, `push[k]` that of the push thread
  made for task k, `poll[p]` that of poll thread p in `taskPoll`. The queue's calls are steps of `FifoQueue`:
  `RequestQueue` implements it, so what it adds (waiting) is the enabling condition of `Dequeue`.
  `create_instance` in `taskpush` and `taskPoll` changes nothing once `get_instance` has made the queue.
  `SpawnThrows` is the exception of `boost::thread` caught by the handler's `catch (...)`. `execute` and
  `execute_after` are only their effect on `finish` and on whether the robot was to be told; `Crash` is any
  end of the process (a null pointer in an answer, an exception in a thread, a power cut), followed by a new
  `main`.
* **PhotoTask.** `pc` names the places in both loops; `n_cur`, `finish` and `res_flag` are the code's
  variables. An answer is `complete`, `partial` or not seen. A fault may be that the request does not arrive,
  that the answer does not, that something in the round throws, or that the answer lacks a key. `Record` is a call
  of `recordlog`, whose result nobody looks at: it makes no row, one, or two when a lost answer has the statement
  executed again, as `MysqlLog` has it; `log` counts the rows. A `call` of `execute_after` that throws may have reached
  the robot before. A host is a
  sequence of pieces of text; `Dialled` is what `reset_socket` and `parse_addr` make of it. The requests EA
  got are history.
* **ConfigStore.** A file is a whole record, `Unreadable` (what TinyXML rejects, in particular the empty
  file a truncation leaves) or `Lacking` (an element is missing); a whole server file may still have an address that
  is none (`Numeric` are the files that have one), at which `make_address` throws in `main`. `PhotoReset`, `PhotoCount` and `PhotoStore`
  are the statements that write `photo_config`; `tablenum++` may lose an increment to another thread.
  `ServerIp` and `ServerPort` stand for the field-by-field assignments. `MysqlLoad` ends the three loads; what
  it reads is used once, by `main` for the log, so that only whether the file is `Whole` is kept. A torn `std::string` or
  `std::vector` (undefined behaviour) is covered by `Crash`. `Junk` is the value of a member that nobody
  has set.
* **MysqlLog.** `pc[t]` is the place of thread t in `recordlog` and, under `m_mutex`, in `request`: `"request"`
  is its first try, `"open"` the reconnect, `"again"` the second try. `conn` is `"null"` where `get_conn()` is
  `NULL`. A statement whose answer is lost has made its row, makes it later (`late`) or never. What is left out:
  the text of the statement, and the other requests of `mysql.hpp`, which the program never makes.
* **HttpClient.** An answer is a sequence of tokens (header, data, size lines, line ends) that arrives in pieces.
  `buf`, `pos`, `decoded`, `length`, `is_chunk` and `body` are the members of the client and its response; `Sent`
  is the reset at the start of `call`, which leaves `is_chunk` and `body` as they were. Each branch of
  `recv_callback` is an action; `MoreNeeded` is its `return true` without a result. `htoi` of text that is no size
  line may be any of `JunkSizes`.
* **HttpServer.** `ops[c]` are the operations and callbacks that hold a `shared_ptr` to the session of connection
  c; with none left it is destroyed. The end of an operation of Boost and the callback it starts are one step that
  needs a free io thread; `on_read` keeps its thread until the handler answers. `slow` in `Answer` says that the
  30 seconds `do_read` set are over when the write begins, which may then fail. A read fails because the client is gone
  (`OnReadGone`) or because what it sent is no request Beast takes (`OnReadBad`: malformed, a header or a body over the
  limits); both end the session, the second while the client waits.
* **TimerManager, Reactor.** One thread runs `proactor_engine::run`: `pc` is its place (`do_timer`, `epoll_wait`,
  the events of the batch), and `m` is its memory with the sockets in the kernel. A method is an operator from a
  memory to the memories it may leave, so that nested calls (a callback that sends, a send that closes) are
  written as the code nests them. `bind`, `mon`, `tid` and `sbuf` are `bind_epoll`, the monitored events, `id`
  and the send buffer; `reg` and `ev` are what epoll knows, `ready` its ready list: `Wake` puts a socket there
  when something happens to it, and a second time only when something happens again, as `EPOLLET` has it. A
  callback of the application may send (`Sends`, the send callback too: `DoSendAgain`), close its own connection
  (`CloseOwn`), and return true or false; a receive callback may also close the acceptor, and a timeout callback ask for
  data again. The peer may reset the connection just before a callback sends (`Meanwhile`). A deleted
  object that is used ends the behaviour with the place in `touched`; `met` says what led there. A timer keeps
  the time left instead of its due time. Bounds of the model: one object of each kind is alive at a time, and a new one
  takes the name of the last; the send callback of a send from within a send callback sends no more; a callback leaves
  all other connections alone; a method the application calls on an object that is gone is not modelled; every send
  flushes, and close callbacks do nothing.
* **SerialPort.** `tio[p]` is `newtio`, its flags in `c_cflag` as a set; `obj[o]` is a `CSerialPortImp`, whose
  `read` has a step per system call. `asked` and `history` are history: the settings asked for last with what of the calls
  before still tells on the port (`AskParam`, `AskSpeed`, `AskFlow`), who opened
  a port, which objects were opened twice or lost their port to another, whose read somebody disturbed. `-1` among the timeouts stands for every value whose product with 1000
  is negative, which the comparison with an unsigned number makes huge.
* **JsonCodec.** A text is a sequence of characters of the kinds the decoder tells apart. Each parser returns
  success, position and node, as `decode` passes them on. A node's `kv` is its map and `arr` its deque. `"tab"` stands
  for the five control characters that `encode_string` escapes, `"bell"` for those it leaves as they are.

## 3. Runs

| Run | Instance | Checks |
|---|---|---|
| `queue_calls` | 1 producer, 1 consumer that keeps calling `Get`, 1 thread with all calls, 3 items, fair | `NoLostWakeup`, `InOrderLessDropped`, `ImplementsFifo`, `EveryItemLeaves` |
| `task_robot` | 2 io threads, 2 poll threads, 2 tasks, 1 restart, fair | `OneHolder`, `RunsOnce`, `RunsInPutOrder`, `ImplementsService`, `EveryTaskEnds`, `EveryRequestAnswered` |
| `photo_inone` | limits 0 to 2, 2 bodies, all faults, 1 reload, 0 to 2 rows per line, fair | `AttemptsWithinLimit`, `RunLogNeverOverstates`, `ContinueOnlyConfirmed`, `RunEnds` |
| `photo_continue` | the shipped addresses, no fault | `ContinueReachesRobot` is violated (section 5) |
| `config_two` | 2 io threads, 3 server files (one without an address), 2 uploads of any of the three files, 1 crash | `TableMatchesUnlessMet`, `TaskReadsWholeConfig`, `StartFailsOnlyWhenSpoiled` |
| `config_race` | 2 io threads, files of 1 and 3 elements, no upload | `TableMatchesParam` is violated (section 5) |
| `log_shared` | 2 threads, 3 lines, with or without a connection at the start, fair | `RowsInCallOrder`, `TwiceOnlyIfLost`, `EveryCallReturns` |
| `client_cuts` | 2 calls, 4 kinds of answer, 3 data tokens in 2 chunks | `BodyIsWhole`, `NoWaitForMore` |
| `server_sessions` | 2 connections, 1 io thread, 2 and 1 requests, good or bad, fair | `AnsweredInOrder`, `CloseIsObeyed`, `UnansweredOnlyIfCut`, `EveryRequestAnswered`, `EveryClientAccepted` |
| `reactor_peers` | an acceptor and its client, or a connector with or without reconnect; delays of 1 tick, 3 units | `UsedAfterDeleteOnlyWhere`, `StreamInOrder`, `OneTimerEach`, `EndIsNoticed`, `RoomIsAwaited`, `DialsAgain` |
| `serial_shared` | 2 ports, 3 objects, 2 of which read or set the one port, direct calls, 5 parameter sets, up to 4 bytes, fair | `SettingsAsAsked`, `ClosesItsOwn`, `ReadIsOneRun`, `CopiesWhatWasRead`, `ReadEnds` |
| `json_texts` | every object or array of up to 4 pieces, any other root and up to 2 characters; configurations of up to 3 rows of up to 2 cameras, empty ones too | `BodyIsRead`, `RelayKeepsAnswer` |

The modules of the program's components have a type invariant each, but for `JsonCodec`, whose state is one text and what became of it; those of
the modules with theorems are proved, and no run spends itself on one.

Why the bounds are enough. The thread with all calls of `queue_calls` puts, gets and sleeps beside the other two,
so that there are two producers and two consumers, the least with which a notification can go to the wrong waiter
and an item be taken by a third party between wakeup and relock; three items are the least with which order among
the rest can go wrong after a removal in the middle. Two io threads, two push threads in flight and a second poll
thread are the least that compete for each mutex. One restart makes every state the crash can leave. In `PhotoTask` a limit of 2 has a
first, a middle and a last test of the loop, and the reload can lower it below the rounds begun or raise it. Two io threads suffice for each race in
`ConfigStore`, which are all between two writers or a writer and the reader. Two threads and three lines let a
line that is retried meet one before it and one after it. Two chunks and a line end inside the data are the
least with which the chunk decoder can lose its place; the second call sees what the first left behind. One io
thread for two connections lets a handler of one keep the other from every callback, and two requests are the
least that can be pipelined. `HeadLimit` is 2 tokens where the code has 1024 bytes, so that both sides of it are
reached. In `Reactor` a delay of one tick lets a timeout run out before,
between and after any two events; three units are the least of which a socket takes a part, the send callback appends
another within it, and a later send a third; two timers are a
receive timeout with a reconnect, or the two reconnects of a connector closed twice; `MaxLag` of 1 makes a timer
late, so that it is due again at once; `MaxReasons` of 2 lets any two of the things that still matter later have gone
wrong at once. In `SerialPort` a `Chunk` of 2 for the code's 1024 and four bytes reach both
sides of the test of the total; the five parameter sets have every parity, two sizes and both numbers of stop
bits, in every order of calls. In `JsonCodec` four pieces after an opening bracket have every member kind, an
empty and a repeated key, an escape, raw control characters, a comma too many and a bracket that does not fit; three rows are the least
with which one that is left out moves others. `MaxCrashes`, `MaxReloads`, `MaxUploads`, `MaxCalls`,
`MaxRequests`, `MaxUnits`, `MaxTimers`, `MaxLag`, `MaxReasons` and `MaxBytes` are bounds of the models, not of the code; in
`SerialPort` an instance is used in one of three ways (`mode`: reading, all kinds of settings, several ports), two objects
(`Few`) read or set the one port, and a timeout varies only where something is read, which keeps the run small. Several
ports have a third object, the least with which one that was opened twice closes a port that a third then opens. The
proofs need none of these numbers; those of `SerialPort` hold for any `Few`, `Timeouts` and `Chunk`.

Deadlock is checked for the queue and the task manager: no state of theirs is without a next step.
The others may stop: `PhotoTask` when the run of a task is over, `ConfigStore` when a start has failed,
`MysqlLog` and `HttpClient` when all lines are recorded and all calls made, `HttpServer` and `SerialPort` when the
process died; `Reactor` waits for ever without a timer and a peer, and `JsonCodec` makes one call.

Fairness. `RequestQueue`: a thread inside a call moves on (weak fairness of `Inside`), a thread at the mutex
gets it in the end (strong fairness of `Lock`: the system's mutex does not starve one waiter for ever), and a
thread whose only job is `Get` calls it again, as the loop of `taskPoll` does. Spurious wakeups are never
required. `TaskManger`: the same for the handler, push and poll threads; `execute` ends. `PhotoTask`: each step
of the run happens; a call ends because `set_recv_timeout` sets socket timeouts (when the configured `timeout`
is positive; it is 9000 in `server_config.xml`), and the operator presses the key that `getchar` waits for.
`MysqlLog`: the server answers or the connection breaks (nothing in the client sees to that, since `rw_timeout`
is 0) and `m_mutex` starves nobody. `HttpServer`: a handler ends, and a callback that is ready gets a thread in
the end (the `io_context` serves them in order). `SerialPort`: a thread inside `read` goes on; a device need not send. Clients, reloads and crashes are never
required to act. `Reactor` states no liveness: what must come is stated of each state, as an event or a timer that
is on its way.

## 4. Proofs

For every set of threads, items and tasks, and every bound:

* `RequestQueueProofs`: `TypeCorrect`, `MutualExclusionHolds`, `OneInstanceHolds`, `NoLostWakeupHolds`,
  `InOrderHolds`, `InOrderLessDroppedHolds`, `HeadIsSafe`, `RequestQueueImplementsFifo`.
* `TaskMangerProofs`: `TypeCorrect`, `OneHolderHolds`, `OneRunnerHolds`, `RunsOnceHolds`, `RunsInPutOrderHolds`,
  `TaskMangerImplementsService`.
* `PhotoTaskProofs`: `TypeCorrect`, `AttemptsWithinLimitHolds`, `OneBodyPerRunHolds`,
  `ContinueOnlyConfirmedHolds`, `RunLogNeverOverstatesHolds`.
* `HttpProofs`: of the server `TypeCorrect`, `OneOperationHolds`, `AnsweredInOrderHolds`, `CloseIsObeyedHolds`,
  `UnansweredOnlyIfCutHolds`; of the client `ClientTypeCorrect`, `BodyIsWholeHolds`, `NoWaitForMoreHolds`.
* `ConfigStoreProofs`: `TypeCorrect`, `StartFailsOnlyWhenSpoiledHolds`, `TableMatchesUnlessMetHolds`,
  `TaskReadsWholeConfigHolds`.
* `MysqlLogProofs`: `TypeCorrect`, `TwiceOnlyIfLostHolds`, `RowsInCallOrderHolds`, `ReturnIsRightHolds`.
* `SerialPortProofs`: `TypeCorrect`, `SettingsAsAskedHolds`, `ClosesItsOwnHolds`, `ReadIsOneRunHolds`,
  `CopiesWhatWasReadHolds`.
* `ReactorProofs`: `TypeCorrect`, `UsedAfterDeleteOnlyWhereHolds`, `StreamInOrderHolds`, `OneTimerEachHolds`,
  `EndIsNoticedHolds`, `RoomIsAwaitedHolds`, `DialsAgainHolds`.

`MutualExclusion`, `OneInstance`, `InOrder`, `HeadIsSafeForSoleRemover`, `OneRunner`, `OneBodyPerRun`, `OneOperation` and
`ReturnIsRight` (what `recordlog` returns is right about the table) are
proved and in no run's list: the proofs say more than a run could, and the runs are kept for what is not proved.

Assumptions are the named ASSUMEs of the modules: the set of threads is finite (for the counting in
`NoLostWakeup`), the limits, the sizes of photo files and the numbers of bytes are naturals, the first files of the
configuration are among the files there are and the first server file has an address, the parameters and speeds asked of a port are ones its functions accept,
and the model values that mean "nobody" and "nothing" are not threads, objects or items. An answer to the HTTP client
is any sequence of parts, a part any sequence of tokens, and no part of a chunked answer is empty, as a chunk of
size 0 is the last. `Timeouts`
is any nonempty set of integers, `Chunk` any positive number, and the two delays of the reactor are any naturals.

The argument for the queue. Mutual exclusion ties `owner` to the places inside the critical section.
`NoLostWakeup` is not inductive alone: `Coming` must lose at most one member for each item taken, which needs
that a thread at `"pop"` holds the mutex and that the list is not empty there; `InOrder` needs in addition
that the item in `reg` of that thread is still the head of the list. The refinement uses the same fact: the
item `GetPop` reports is `Head(m_list)`, so the step is `Dequeue`; every other step of `Get` leaves the
list alone. `HeadIsSafe` is about the one call without a lock: for a thread that alone removes, a list it saw not
empty stays so and keeps its head, since others only append and the list is constructed before anybody looks.
`InOrderLessDropped` is a property of the history of `FifoQueue`, so it is enough that each of the abstract queue's steps
keeps it: a Put appends an item that was never put, a Get moves the head from the queue to what was delivered, and
Erase and QueueClean take out the first of the items they name, the only one, as no item is put twice (`PutOnceInv`).
What remains is then what was there less one item, in the same order (`Less`).

The argument for the task manager. The control invariant ties `task_mutex` to the places of the poll threads
(whoever is past `"lock"` holds it, so there is one) and `t_mutex` to the handler at `"spawn"` and the push
thread at `"put"`. The holder invariant says, per place, whether a task is live and that it is nowhere else: a
task in a handler has no push thread yet, one with a push thread is not queued, a queued one is in no poll
thread's hand, and the queue has no duplicates. `RunsOnce` adds that a task in `runs` is held by a poll thread
past `"execute"` or is dead: a deleted or lost task is never made again. `RunsInPutOrder` needs that the queue
is the tail of `accepted`, and that of the tasks before it all have run but possibly the last, which the one poll
thread at `"execute"` then has in hand; a task in a push thread or in the queue has not run (by the holder
invariant). The refinement maps each task's
status from `obj` and from the place of the poll thread that holds it; the steps that only move a pointer are
stutters.

The argument for the task. One invariant relates, for each place of the run, the rounds begun to the requests
posted, and says where `finish`, `told` and the rows of a success may be. `Len(posted) <= n_cur` holds only between rounds, one less inside one, and
`n_cur <= peak` because a round begins below the limit in force, which `peak` bounds even when the limit is
lowered afterwards. That the robot is told only after a confirmed request needs that `finish` is unset at every
place where another request may be posted. The run log never overstates because a success has no row before the one
call that records it, and no such call comes after: the loops end with `finish` and with `res_flag`.

The argument for the web server. Of each session exactly one of five things holds (`PlaceInv`): it reads, and every
request it got is answered; it handles or writes, and one request is ahead of the answers; it is over with all answered;
or it is over with one unanswered, and then the write was cut. That `ops` is a set with at most one member, which
`OneOperation` says, is thus part of the same induction: `on_read` starts the write only after it has taken itself out. A
connection's steps leave the others alone (`OthersStay`), so that the induction is over one session. `CloseIsObeyed` needs
that a request that asked for close and was answered is the last one got and leaves nothing in `ops` (`OrderInv`).

The argument for the HTTP client. What is in the buffer and what is still in the network are together the answer, and
how far the client is in it is known from `pos` and `decoded`: at the header, behind it, or behind the k-th chunk, and the
body is the data up to there. A header is taken only when its three
tokens are there. Chunks that came in one piece are read when at most their last token is missing, and so none of them
is ever found incomplete, which is `NoWaitForMore`. An answer with a length is whole when as many tokens of data have come as the
length says, which is when nothing is left. `Confused` excepts the calls in which a later piece finds the decoder behind
a size line already read, and those whose `is_chunk` is left over from the answer before; `ClientTypeCorrect` is about them too. Where the k-th chunk
begins, and that the parts before it are a prefix of the whole, are lemmas about `FlattenSeq`. They are inductions over
the answer, and the library's induction theorems cannot be used here; they are proved by the least counterexample
(`FirstOf`, from the well-foundedness of the naturals).

The argument for the configuration. Who writes or loads what is kept per thread (`WriteInv`, `DocInv`). That a start fails
only after an upload that spoiled a file (by what is in it, an address that is none included) needs the upload under way: while a thread is between truncating the server
file and writing it, the file is unreadable and nobody is to blame yet, and `Dies` is the step that makes it so
(`SpoiledInv`). The table matches because one load alone counts `left` down as it counts `tablenum` up, so that their
sum is the size of the file it opened (`TableInv`); `met` is set by the second load to begin, which makes two counting
threads without it impossible. For `TaskReadsWholeConfig`, while the poll thread reads with no load since it began, what
it has read so far is what stands there, and that was left by a load that ran alone (`ReadInv`, `ServerInv`).

The argument for the log. A line belongs to one thread, gets the mutex once, and the holder's line is the last of `calls`
(`CallsInv`); so a row that is made with an answer is the latest, and those made late are of lines in `lost`
(`OrderInv`). The copies of a line are counted together with the tries the server still works on: none before the
first try, at most one in a reconnect, and each of the two tries makes one (`CopyInv`, with the cardinality lemmas
`CopiesWithRow` and `CopiesKept`). `ReturnIsRight` follows the same count to the end of the call.

The argument for the serial port. Per port, the settings are those asked for, or exactly those that the three sequences
of `SettingsAsAsked` leave (`PortInv`), for which each
function that sets parameters has a lemma, and that a table has a least speed above any that is asked for is a use of
well-foundedness. Per object, `ReadOf` says that what a read has comes right before what waits in the queue, by the
numbers of the bytes; the next read then takes the bytes that follow. `Len(buf) < Chunk` at every place but the test
gives `Len(buf) < 2 * Chunk` after it. A first attempt at `ClosesItsOwn` failed on objects that were not opened twice
themselves: an object that was told to open a port somebody else has keeps that number, its `close` takes the port from
its owner, and a third object may open it. The property had held on two objects only because there was no third; it now
names the owner that lost its port (`robbed`), and says that nobody is robbed before some object was opened twice.

The argument for the reactor. Its methods are operators that call each other, so the induction has two layers: a lemma
per method says that a memory in which the invariant holds (`Sound`) is taken to ones in which it does, and what of the
memory it leaves alone (`Goes`: what was met and touched stays met and touched, no object goes but its own, or the
acceptor when a callback closed it, and the streams stay in order); what a callback that sends or closes leaves is said
once for all of them (`Spared`), and its connection is there afterwards unless a reason for its end was met (`Present`); a method that calls others follows from their
lemmas in the order of the calls, and each action of `run` from the method it starts. `Sound` has four parts. A deleted
object that is used is on the list with its reason (`Explained`), by the place of the use: what deletes an object there
has recorded why. The sockets epoll watches are bound, open and of objects that are there (`Kernel`); so an event that
comes out of `epoll_wait` has its object, and loses it before its turn only to a callback that closed the acceptor.
Reading is asked for on connections only (`Heard`). Timers have ids of their own and a timeout the id its connection
knows, and who waits for data has one (`Clocked`). The last is untrue inside a method that is about to start the timer,
and while the timer that fires is out of the map, so it is stated but for a set of objects that is empty between the
steps. The timers are in order only until a timeout callback asks for data again (`"rearmed"`): the timer that fired is
then put back beside the new one, and after that nothing is known of who has which; `OneTimerEach` and
`EndIsNoticed` speak of the time before it. `EndIsNoticed` and the second part of `OneTimerEach` are about reactors with a receive
timeout: without one the end behind a short read is not noticed, and both say so.

`RoomIsAwaited` and `DialsAgain` are about edges, of which `Sound` says nothing, and have a second invariant, `Served`:
while nothing lasting has been done to the objects, the one stream there is is in one of three states (`Fit`). It is
closed, and then a connector that is to reconnect has exactly one timer that dials; or calling, watched for `EPOLLOUT`
alone and with an empty buffer; or served, watched for what it asked for, and then it asks for room exactly when bytes are
left, and the edge is not lost: the socket is full, or the edge is in epoll's ready list, or `epoll_wait` has returned
it and its turn is to come. In every state a socket that broke is reported, or its event is in the batch (`Linked`).
A callback may find the connection before room is asked for, and a send within a send then appends behind what is left;
what the rest of `do_send` relies on is that the buffer is empty or the socket full (`Filled`, `Bears`).
Between `epoll_wait` and its turn the event is in the batch alone, so the states take the batch's events as
parameters (`outs`, `errs`), and a method that is called in its turn is given the state without them. The layers are those of
`Sound`: a lemma per method says in which state it leaves its stream (`...Fit`), and one per action that `Served` is kept
(`...Serves`). Each state holds before and after a method and not inside it: `close` unbinds first and sets the timer
later, and `do_send` writes, and only then asks for room. `DialsAgain` asks for a `ReconnectDelay` other than 0: `set_timer`
sets nothing for a delay of 0 (`timer.hpp:85`), so a connector with that delay does not dial again; the code's default is 5000
(`epoll.hpp:369`).

Only model-checked: all liveness (the prover does not do fairness), and `JsonCodec`, whose codec is recursive.

## 5. Disagreements between the code and what it says

* **The continue never reaches the robot** (`photo_continue`). `taskImp.cpp:71` joins `ea_ip` and `ea_port`
  with no colon (`photoTask.cpp:41` has it). `reset_socket` then adds `:80`, and the client dials a host named
  `192.168.65.549989`. The comment (`taskImp.cpp:65`) and the log line (`action.hpp:21`) say that the robot is
  told to continue. The run finds this with no fault injected; `photo_inone` uses an `ea_ip` that already ends
  in a port to check the rest of `execute_after`.
* **Two loads at once damage the configuration** (`config_race`). `loadphoto_config` resets and counts
  `tablenum` in the shared object (`config.h:129`, `config.h:143`) on whichever io thread serves the request;
  `HttpServer.cpp:438` calls the server thread-safe by default. The strand it speaks of serialises one
  connection, not the handlers of two. `TableMatchesUnlessMet` shows the extent: the damage lasts until one
  load runs alone.

The models also show behaviour that contradicts no statement of the repository, so no run counts it as a
violation: a process that dies while `server_config.xml` is open for writing, or that was sent a server or
mysql file lacking an element, cannot start again (`StartFailsOnlyWhenSpoiled`); a task of ACTION 2 or 3 before any photo file was
loaded posts an unset `tablenum`; when no push thread can be made, the task is leaked and the request still gets
200; accepted tasks do not survive a crash; an answer whose handler took longer than what was left of the
session's 30 seconds may be cut after the task was accepted (`UnansweredOnlyIfCut`); when the port is taken the
listener fails, accepts and fails again for ever; a reconnect of the log that fails ends it until the next start
(action `NoConnection`), and a line may be in `run_logs` twice (`TwiceOnlyIfLost`); a chunked answer is put
together only when its chunks come in one piece, because a later piece clears the body and resumes behind a size
line already read, and `response::clear` leaves `is_chunk` set, so that the next answer with a `Content-Length`
is decoded as chunks (`Confused` names both cases).

Of the parts `main` does not use:

* `Reactor`: `close()` deletes the object, and the places of `Causes` use it afterwards, each for the reason given
  there: `do_send`, `do_recv` and the connect callback's caller after a callback closed its own connection, or sent to a
  peer that had reset, or sent and had its send refused; `do_recv` after a failed read; `start_timer` after a callback
  refused; the `EPOLLOUT` half of an event after the `EPOLLIN` half closed, `connector::close`
  without reconnect, `on_accept` after an acceptor refused, the rest of a batch after a callback closed another
  object, and a timer that its own callback armed anew. A short read leaves the end of the stream unread and the
  edge does not come again: only the receive timeout closes. A connector closed twice has two reconnect timers, and the second
  dial drops a socket that was connected and leaves the new one unmonitored; after a `connect` that succeeds at once,
  what an earlier connection left in the buffer waits for the next send. When room is awaited and all that waited goes
  out, what the send callback then appends is left in the buffer with `EPOLLOUT` monitored and its edge over, until the
  next send or edge (`epoll.hpp:107`, `epoll.hpp:188`; `"overlooked"`, which `RoomIsAwaited` exempts).
* `SerialPort`: `&= !CRTSCTS` clears all of `c_cflag`, the speed and the size included; `CMSPAR` is never cleared, so
  that odd and even parity asked for after a stick parity are stick parities; hardware and software flow control never
  clear each other, so that both are in force when one was asked for after the other (`SettingsAsAsked` says what each of
  the three leaves); a failed open changes the port of an
  object that is open, whose `close` then closes the port of another object under its reads, and leaks its own. Seen beside the model: a speed below 50 gives `B50` where the comment at
  `linux_serial.cpp:468` says `B0`; `clear_read_buff` sends a break and clears nothing; `write` always succeeds.
* `JsonCodec`: a symbol at the end of an array is rejected (`[true]`); a string that ends in a backslash has its end missed; an
  escape is escaped again on its way
  through, and a control character becomes an escape; a root number or symbol is accepted only with a character behind it,
  and what is handed on of it is not accepted again; of two members with one key the first stays; an empty string, row or map is left out, so that the rows
  behind it move up; `comm_response` does not look at what `decode` returns.

## 6. Not modelled, and the plan

Left out for good: the Windows and BSD reactors; TinyXML and the headers of the MySQL client (third-party,
three fifths of the implementation, so that the mapped share of its lines stays small); the older HTTP servers that
`main` does not start; hashes, encryption and string helpers (pure functions on bytes); select, exists and
transactions of the MySQL wrapper, of which the program calls nothing; the object pool, which nothing uses, and the
binary codec `shine_serial`, which `HttpServer.cpp` includes and does not use.

Left out of modules that are `partly` done: `async_client` and partial sends of the HTTP client; the listening
socket, `stop` and several engines of the reactor; `write`, the blocking reads, break, the modem lines and custom
speeds of the serial port (one system call each); decoding into C++ values and floating-point numbers of the JSON
codec; the handlers of the web server that only answer.

Next: an abstract log that `MysqlLog` implements, with `PhotoTask` writing its lines to it.
