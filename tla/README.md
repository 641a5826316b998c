# A verification development for nameless

The repository is a collection of C and C++ programs. Its largest original part
is a C++20 coroutine library (`src/coroutine_frame`): a thread-pool executor,
combinators that wait for several tasks, task groups, time-outs, an epoll reactor,
and two servers written with them. Beside it stand a set of containers (`src/ctl`,
`src/hashmap`), a web crawler (`src/scraping`), a small Qt web server and a number
of exercises. The TLA+ modules here model the coroutine library, its chat server,
the containers, the crawler, a ring buffer and two games. TLC checks them on small
instances; TLAPS proves the safety of the executor, the coroutine frames, the combinators,
the reactor, the chat room, its frames, the crawl, the robots.txt rules and the ring for
instances of any size.

Contents: 1 inventory; 2 what is modelled, module by module; 3 runs and bounds;
4 fairness; 5 what is proved and how; 6 what is only model-checked; 7 where code
and text disagree; 8 what is not modelled; 9 plan; 10 how to run it.

## 1 Inventory

**Executor** (`core/executor.h`, `core/executor.cpp`). State: `task_queue_`,
`mutex_`, `cv_`, `stopped_`, the worker threads. Operations: `schedule` from any
thread, `worker_thread`, `shutdown` (explicit, and again from the destructor).
Everything else hands it coroutine handles. Hard: the notification after the
release of the mutex, a coroutine that puts itself into the queue while its worker
is still inside `resume()`, shutdown against bodies that schedule others. Correct
when a handle is resumed once, in order, and before `shutdown` returns.

**task, promise, final awaiter** (`core/task.h`), **sync_wait, async_run,
async_spawn** (`core/executor_impl.inl`, `core/executor.h`). State: the coroutine
frame, its continuation, who owns it (a task object, an awaiting coroutine, itself
after `detach`). Hard: a helper thread polls `done()` and destroys a frame while
a worker is still in its final awaiter; `async_run` destroys a frame that is
queued. Correct when a frame is destroyed once and touched by nobody afterwards.

**when_all, when_all_void** (`core/when_all.h`). State: counter, kept exception,
mutex, condition variable. They start their children detached and block a worker
of the pool. Hard: the counter is read with and without the mutex, the wait can
starve the children. Correct when the call returns, after all children, with the
first failure.

**when_any** (`core/when_any.h`). State: flag, result, mutex and condition variable
in the caller's frame, captured by reference. Hard: the flag precedes the result;
children outlive the frame. Correct when a success ends the call with one result.

**task_group, scoped_task_group** (`core/task_group.h`). State: the list of tracked
tasks with a flag and an exception each, a cancellation token. Operations: `spawn`
(also by tasks of the group), `cancel_all`, `wait`, two destructors. Hard: tasks
are started before they are tracked; `wait` polls. Correct when `wait` and the end
of a scope cover every task and no exception is swallowed.

**with_timeout** (`core/timeout.h`). State: two flags, an exception and a token in
the caller's frame. Hard: a timer racing a late answer. Correct when the caller
gets the task's own outcome, or `timeout_error` once the time is over.

**epoll reactor** (`core/io_epoll.h`, `core/io_epoll.cpp`). State: `waiters_` (two
handles and a mask for each descriptor), `timer_waiters_`, the kernel's interest
list, `stop_`. Operations: `wait_read`, `wait_write`, `wait_timer`, the event loop,
`shutdown`. Hard: a batch of events becomes stale while it is handled; two
coroutines on one direction; the loop blocks without time-out. Correct when
nobody is forgotten or resumed twice and table and kernel agree.

**WebSocket chat server** (`examples/websocket_server.cpp`). State: `chat_users` under
a mutex, a coroutine for each connection, and the kernel's descriptors. Operations:
accept, handshake, the message loop, broadcasts over a snapshot of descriptors with an
await per receiver, departure. Hard: descriptors are closed and given out again
while broadcasts hold them; several broadcasts wait for one slow client; frames
are sent and come in pieces, and no lock keeps a socket for one frame. Correct when a
member hears each other member in order and to the end, and frames are read as they were sent. **HTTP server** (`examples/http_server.cpp`): one
request and one answer for each connection, the reactor's plain user.

**Hash map** (`src/hashmap`), **ctl containers** (`src/ctl`). Sequential data
structures: a red-black tree with parent pointers, a bucket table that resizes, a
tree set, a hash set, a heap, a paged deque, a linked list, a vector. Correct when
each agrees with the set, bag or sequence it stands for and keeps its balance.

**Crawler** (`src/scraping`). State: `seen` and the posted URLs (`Scheduler`), sessions in
flight on a pool of threads (`Fetcher`), `rules_` (`Robots`), the output file (`Storage`).
Hard: callbacks of many pages discover the same links at once; a fetch can fail at each
stage; two threads fetch one robots.txt. Correct when a page is fetched at most once,
followed as far as the bound, and only if allowed.

**Ring buffer** (`src/cur/producer_consumer.c`). State: the ring, two semaphores, two
mutexes, two totals. Hard: the semaphores run ahead of the indices. Correct when items
leave in order, once, and every join returns.

**Game of Life** (`src/life-cpp`). State: a grid that grows, what the mouse is doing, a
timer. Operations: steps, drawing, pattern files, a sequence in `main()` without a window.
Hard: a row or column is added on each side that has live cells while all indices shift;
three members are never initialised. Correct when the grid shows what the game makes of its
pattern on a plane without borders.

**Maze** (`src/maze1`). State: a maze for each of two windows, player and portals, which
window takes keys. Hard: the second window is built, used and deleted in callbacks of the
first; positions of one maze are stored in the other. Correct when a maze is a tree and
the player can always get to the goal.

**Other exercises** (`src/cur/lock.cpp`), **Qt server** (`src/qt_httpserver`), **ls,
reflection, template exercises**: see section 8.

`PROJECT.json` lists every component with its status, and every hazard found in
the code at the line where it bites.

## 2 Modules

| module | code | about |
|---|---|---|
| `HandleQueue` | what the executor promises | a first-in first-out hand-over of handles |
| `Executor` | `executor.h`, `executor.cpp` | threads, mutex, condition variable, queue |
| `WhenAll` | `when_all.h` | several calls of both kinds on one pool |
| `WhenAny` | `when_any.h` | one call and its children |
| `TaskGroup` | `task_group.h` | one group, scoped or not, nested spawning |
| `EpollReactor` | `io_epoll.h`, `io_epoll.cpp` | table, kernel, batch, timers, shutdown |
| `WithTimeout` | `timeout.h` | one call: task, timer, polling caller |
| `Frames` | `task.h`, `executor.h`, `executor_impl.inl` | frames and their owners, on `HandleQueue` |
| `ChatServer` | `examples/websocket_server.cpp` | connections, room, broadcasts, descriptors |
| `WebSocketFrame` | the same | frames in a byte stream, read in pieces |
| `Crawler` | `Scheduler.cpp`, `Fetcher.cpp`, `Storage.cpp` | a crawl of one site, on `Robots` |
| `Robots` | `Robots.cpp` | parsing, cache, answers of robots.txt |
| `BoundedBuffer` | `cur/producer_consumer.c` | ring, semaphores, shares |
| `Life` | `life-cpp/GameOfLifeWidget.cpp`, `main.cpp` | growing grid, mouse, pattern files |
| `Labyrinth` | `maze1/*.cpp` | random mazes, two windows, portals |
| `RBTree`, `HashMap` | `hashmap/RBTree.h`, `HashMap.h` | buckets of red-black trees, doubling |
| `OrderedSet` | `ctl/set.h` | red-black tree with set operations |
| `HashSet` | `ctl/ust.h` | chains in a prime number of buckets |
| `Deque`, `Quicksort` | `ctl/deq.h`, `que.h`, `stk.h` | pages in an array of pointers |
| `List` | `ctl/lst.h` | doubly linked nodes, merge sort |
| `Vec`, `Vector`, `Str` | `ctl/vec.h`, `str.h` | array, capacity, C strings |
| `PriorityQueue` | `ctl/pqu.h` | binary heap in a vector |
| `Combinators` | | `WhenAll`, `WhenAny`, `TaskGroup`, `WithTimeout`, `EpollReactor`, one at a time |
| `Programs` | | `ChatServer`, `Crawler`, `BoundedBuffer`, `WebSocketFrame`, `Robots`, one at a time |
| `...Proofs` | | theorems about the module, or the composition, of that name |
| `MCCombinators` | | `Combinators` with fairness and liveness |
| `MCPrograms` | | `Programs`, or the containers (`MCContainers`), a game |
| other `MC...` | | constants of the other instances |

`Combinators`, `Programs` and `MCPrograms` have the variables of all their modules and one
more, `kind`, which says which of them moves; the others keep their first (or no) value.
Their state spaces are therefore added, not multiplied. What composes is composed: `Frames`
runs on `HandleQueue`, the abstract executor, whose variables are its own, and which
`Executor` is shown to implement; `Crawler` asks `Robots`; `HashMap` is made of `RBTree`s.

Conventions. In `Executor` a `lock_guard` block is acquire, block with release,
and what follows the release, each a step: the mutex itself is in question
there. In the other modules a short locked block is one step (two such blocks of
one mutex cannot overlap), except where a caller keeps the mutex up to a wait
(`holding` in `WhenAll` and `WhenAny`) or where an unlocked reader can look into
the block (`locked`, `won`, `stored` in `WhenAny`). Values are left out, but who
produced a value is kept. A coroutine is suspended for a reason the module does
not look into: a timer, I/O, or the executor. A definition whose comment
begins with "Mutant" is a plausible error, not used by `Next`: replacing the
definition after it by that one must break the property `PROJECT.json` names.

**Executor.** `queue`, `stopped`, `mutex` are `task_queue_`, `stopped_`, `mutex_`;
`waitset` is the condition variable. `pc[t]` is the place of each thread, `cur[w]`
the coroutine inside `resume()` on worker w, `arg[t]` the argument of a
`schedule()` call, `co[h]` where the coroutine is. `WorkerLock`, `WorkerWait`,
`WorkerExit`, `WorkerPop`, `BodyReturns` are `worker_thread`; `ScheduleLock`,
`SchedulePush`, `ScheduleDrop`, `ScheduleNotify` are `schedule`; the `Shutdown...`
actions are `shutdown`. A body may suspend, end, schedule itself
(`schedule_awaiter`) or schedule another coroutine; once it has scheduled itself,
its handle belongs to the queue even though its worker is still in `resume()`.
`HandleQueue` sees the queue, what each worker resumes, whether it is open,
and whether a `shutdown` has returned; the refinement mapping is `HQ` in `Executor`.

**WhenAll.** `completed[c]` and `exception[c]` are the shared state of call c,
`child` and `parent` the places of its coroutines. Workers are counted (`Busy`): a
call occupies one from its first step to its return, blocked or not; a child one
whenever it runs after a suspension. `SetLocked` is `when_all_state`, `StoreException`
and `Count` the lambda of `when_all_void`; `LoopDone`, `LoopLock`, `Recheck`, `Sleep`,
`WakeUp` are the waiting loop both share.

**WhenAny.** `Lock`, `Exchange`, `Store`, `Unlock` are the winner's block; `Loop`,
`LoopLock`, `Recheck`, `WakeUp`, `ReadResult` the parent's loop. `CapturedIndex` is
the read of the lambda's captured index after the lambda object has died, a
choice over the values its stack slot can hold. Once the parent has finished, its
locals are gone and children that would use them are not followed.

**TaskGroup.** `tracked` is `tasks_`, `task[t]` the place of a wrapper, `spawner[t]`
who is inside `spawn()` with t, `failed` the tasks with an exception. `Launch` and
`Track` are `spawn()` in the code's order: start, then track. `CallWait`, `ScanDone`,
`ScanAgain`, `Delayed` are `wait()`; `Destroy`, `DestroyScoped`, `CloseScoped` the
destructors.

**EpollReactor.** `rd`, `wr`, `mask` are an entry of `waiters_`, `timer` the place of
a timer's entry, `interest` what the kernel was told. `Events` is what the
kernel would report, `batch` what `epoll_wait` returned and the loop has not handled;
`taken` are the waiters taken out under the mutex and not yet scheduled. The
constant `OneWaiter` says whether callers keep to one waiter for each direction.

**WithTimeout.** `task_exception`, `task_done`, `timed_out`, `cancelled` are the locals of
that name. `task` and `timer` are the places of the two detached wrappers and of
`timeout_task`. The clock is one event, `DeadlinePasses`. Writes of a wrapper to
the frame of a caller that has ended change nothing, or, for the shared token, may.

**Frames.** `owner[f]` is whose task object holds frame f as `coro_`: another frame (a
local or a temporary of its coroutine), the main thread, the helper thread, or nobody
after `detach()`. `continuation`, `detached` and `result` are the promise's fields. `stack[t]`
are the frames thread t is inside of, since `detach()` and `resume()` nest. A body is any
sequence of `Create`, `Await`, `DetachChild`, `Suspend`, and `BodyEnds`; `FinalSuspend` is the final
awaiter with its three outcomes, `TakeResult` is `await_resume` with the destruction of
the temporary. `Destroyed` destroys a frame with all task objects in it.
`Launch`, `PollDone`, `HelperReturns` are the helper threads; `HandOver` and `Join` the
callers of `sync_wait`, `async_run` and `async_spawn`. The use of a destroyed frame is not
an error of the model but an outcome (`misuse`), so that a property can speak of it;
the thread is then not followed further. `void` tells `task<void>` from `task<T>`.

**ChatServer.** `handler[c]` is the place of `handle_websocket_client` for connection c,
`job[c]` the frame it is sending, to which descriptors still, and where it goes on.
`Read...` are the branches of the message loop, `Tell...` the broadcasts, `Send...` are
`async_write`, `Remove` and `Close` the departure. `Accept` gets the lowest free descriptor, as
from the kernel. Nicknames, lists and replies are frames of no order (rank 0); the response
to the handshake and the frame that asks for a nickname are one of them.
A socket that is written to takes the rest of the frame (`SendTakes`) or, if it fills up, only
some of it (`SendTakesPart`), which puts the handler into `begun`: its `total` is not 0.
A full socket parks the handler (`SendWaits`), and until it is resumed others may write
to the descriptor, or find it reused. For the properties, `heard[c][s]` is what c has received
whole of what s broadcast, `amid[c]` whose frame c is in the middle of, and `torn[c]` the place
where one frame came into the middle of another: whose was cut, and by whose. What comes
after that is not recorded, for the client cannot tell it from the rest of what was cut.

**WebSocketFrame.** A stream is a sequence of lengths and mask bits, the state of the
reader its place in the stream and the `async_read` it is at. A read returns all it asked
for or, up to `MaxCuts` times, less. `Widened` and `Joined` are the arithmetic on signed
characters of the two-byte length, `Length8` that of the eight-byte one.

**Crawler.** `sessions` are the fetches with their stages, which are the handlers of an
HTTP or HTTPS session; `todo` and `scheduled` are the loop of the callback over the links.
`Connects` says which sessions can: HTTP without a port asks for port 0.

**Robots.** `rules` is the cache, a function on the hosts that have an entry, and `call` the
calls of `ensure_rules_for`. `Parse` is the parser, line by line: it keeps the agents and the
rules of the group it is in, as sets, for nobody looks at their order. `Matching` and `Verdict` are
the loops over the rules. `AllowedBy` says without a parser which groups of a file name us and
what their longest rule decides; the property compares answers with it. Paths are sequences
of characters because prefixes decide.

**BoundedBuffer.** A producer or consumer is `WaitFor...`, `Lock`, `Put` or `TakeOut`, `Count`, `Unlock`,
`Post`; `todo` is what is left of its share. `put` and `taken` are the history the
property compares the ring with.

**Life.** `grid` maps the cells of a `rows` by `cols` rectangle to their values. `Step` is
`expandIfNeeded` (`Touched`, `Expanded`) and the computation of the next grid; `Timeout`,
`StepByHand` and `AutoStep` are its callers. `LoadPattern` reads a file of cells or of
runs (`Parse`), centres and clips it. `auto` is where `main()` is in its sequence of
load, shift and steps, `"events"` when the window's loop runs instead. `drawing`,
`drawValue` and `panning` start with any value; 2 stands for all that are neither 0 nor 1.
The property compares `Step` with `Generation`, the game on a set of cells without borders.

**Labyrinth.** `carving` is `generate()` at work for one of the windows, a step for each
move of its random walk; `Generated` places the portals on the path and fills the window.
`KeyInMain` and `KeyInPortalWorld` are `keyPressEvent` of either window with the slots of
`main()` that it calls, `ClosePortalWorld` the user's closing of the second. `back` is
the return position that the second window was given.

**Containers.** Every module has two variables: the memory of the container, a
record of its fields and of its nodes', and the set, map, bag or sequence it stands
for, which each action updates by its mathematical definition. The property
relates the two, with what the layout needs: colours, balance and parent pointers
(`OrderedSet`, `HashMap`), each element in the chain of its hash (`HashSet`), full pages
between the marks (`Deque`), both directions of the links and no node lost (`List`),
zeroed slots and a terminator behind the last one (`Vector`, `Str`). An operation is
one action, since no two threads share a ctl container and `HashMap` holds its lock from
first to last access. Nodes of trees are named by their keys; code that is
written out twice, for left and right, is one definition with the side as a
parameter; loops are recursive operators or folds. Reading through a null pointer
is an application outside a function's domain, an error of TLC's, so that a
passing run also says that none happens, with two exceptions that are outcomes:
`fate` in `RBTree` (a removal follows a null pointer) and `overrun` in `HashSet` (`reserve`
writes past its new array). After either the container does nothing any more, and
`LookupsFind` says nothing of it.
Memory that is never read (slots without an element) is kept at 0. `LookupsFind` in
`MCContainers` joins the properties of the set, the map and the hash set, `SequencesKeep`
those of deque, list, vector, string and priority queue.

## 3 Runs

Four runs pass, with 40 properties between them; eight find what section 7 tells of.

| run | instance | states | shows |
|---|---|---|---|
| `executor` | 2 workers, 1 client, 2 handles, 2 `schedule` calls each, 2 shutdowns | 18,089 | one place for each handle, no lost wake-up, drained shutdown, refinement of `HandleQueue`, liveness of both |
| `combinators` | `WhenAll`: a `when_all` of 2, a `when_all_void` of 1, 3 workers; `WhenAny`: 3 children; `TaskGroup`: 3 tasks, scoped or not; `WithTimeout`: 2 suspensions; `EpollReactor`: 1 descriptor, 2 coroutines, timers | 89,150 | no early return, no missed wake-up; one result; nested spawns covered and failures reported; the outcome is the task's; every waiter resumed once, table and kernel agree |
| `frames` | 3 frames, 2 workers, 2 suspensions, every way to start and every shutdown | 227,270 | no destroyed frame is used, none is left, `sync_wait` comes back with the task's outcome |
| `programs` | the containers; 3 clients on 2 descriptors; streams of 2 frames; 3 callers and 5 robots.txt; a site of 6 pages; 3 producers, 2 consumers, 5 items, 2 slots; a grid of 2 by 3 that grows to 5 by 6; mazes of 5 and 7 cells a side | 993,872 | containers hold what was put in; the room is of open descriptors, senders are heard in order and to the end, up to a torn frame; frames as sent; answers follow the files; pages once and all; the ring is a queue; the grid follows the plane; the player is never trapped |
| `when_all_void_lost` | one `when_all_void`, 2 children | violation | a wake-up is lost |
| `when_all_starved` | two `when_all`, 1 child each, 2 workers | violation | blocked workers starve the children |
| `when_any_unexpected` | 1 child | violation | the flag is seen before the result |
| `with_timeout_never` | a task that never ends | violation | `timeout_error` never reaches the caller |
| `async_run` | 1 frame | violation | the frame dies before its body runs |
| `broadcast_stuck` | 2 clients and 2 descriptors, one socket full | violation | a second handler's wait replaces the first's |
| `frame_length` | 1 frame of 125 to 255 bytes | violation | a length is read wrong |
| `crawler_robots` | the site, with a disallowed page | violation | the page is fetched |

Why the bounds are enough for what the properties tell apart:

- `executor`: `NoLostWakeup` needs a worker asleep, another awake, and a push whose
  notification is outstanding; two workers, one client and two handles give every
  combination, and worker bodies are callers too. `MaxSchedules = 2` lets a handle
  come back once, which is when two workers could hold it. `MaxShutdowns = 2` is
  the explicit call and the destructor's. The safety properties are proved for
  all values.
- `combinators`, `WhenAll`: a first and a later child need two children; the two calls
  have one worker more than they block, so their children compete for it. A child
  suspends at most once: what matters is whether it ends on its parent's worker
  or on another. `WhenAny`: two successes and a failure; the loser that finds the flag set,
  the child that ends in `detach()` and the one that ends later. `TaskGroup`: three tasks
  give a task spawned by a task spawned by the owner, and a sibling to fail.
  `EpollReactor`: descriptors share nothing but the batch, and two coroutines fill both
  directions of one; a timer and a socket event in one batch occur. `WithTimeout`: a
  suspension before and one after the deadline.
- `frames`: three frames give a task awaited by a task awaited by the root, a sibling
  detached by either, and a task that is dropped unstarted; two suspensions let two of them
  wait at once, or one come back on another worker; a third worker could only hold
  what a second holds.
- `programs`, containers: ten keys are the fewest with which the case of `erase` that goes on at
  the parent occurs (`erase_3` in `set.h`). Seven keys, six of one hash, put trees of
  six into one bucket and let the map of capacity 2 (16 in the code) double; these all have
  one value, and a second map of four keys (`Pairs`) has values that are replaced. Five
  keys whose hashes collide take the hash set through five sizes. Pages of two elements
  (512 in the code) and six elements give four pages and both kinds of growth; five
  nodes give `sort` an empty list between two full ones in its array. A string with an
  initial capacity of 3 (15 in the code) outgrows it. A heap of six elements
  has a node with a left child only at both depths; its order is checked only until
  something is pushed after a pop (section 7 says what happens then).
- `programs`, chat server: three clients are a sender, a receiver and one that
  leaves; the third on two descriptors gets the number of one that left while a
  broadcast may still hold it. One client talks. The socket of the second (`Slow`) fills up
  once, before, after or in the middle of any frame: its handler and those of both others
  write to it, so that a frame is continued, cut, or left over on a number that the
  third gets. That two handlers waiting for one socket lose one of them
  is the subject of `broadcast_stuck`.
- `programs`, frames: `Lengths` are those around the changes of the encoding. It has no
  length of which the two-byte form has a byte of 128 or more: those are read wrong
  (`frame_length`), and nothing after them means anything; `FrameAssumption` says which
  lengths are left. Two cuts fall into two parts of
  one frame, or into two frames.
- `programs`, crawl: lists of four links with each reason to skip one, a duplicate by
  fragment, a cycle, and more links than `MaxPerPage` (2, 50 in the code). Robots: a
  file for each way to group lines, and three callers: one that is told from the cache,
  two that fetch. Ring: five items share out unevenly over three and over two
  threads, and do not divide by the slots.
- `programs`, Game of Life: the smallest grids are those of which every cell is at a
  border, so that every step from 2 by 3 grows some side and all 64 patterns on it are
  tried; growth ends at 5 by 6 (`MaxRows`, `MaxCols`), and grids of more than `MaxEdited`
  cells are not drawn on. `randomize` acts on a blank grid, which comes to the same, as it
  overwrites all cells. The files: a glider both ways, one that reaches beyond the origin,
  and none at all.
- `programs`, mazes: 5 cells a side (31 or 63 in the code) is the least that has portals: one
  way round four rooms, every pair of cells on it a pair of portals. Mazes of 7 are carved
  in every order the walk can take, and not played in (`MaxPlayed`): no game has two mazes
  of different sizes.

`CHECK_DEADLOCK` is on in `executor`, `combinators` and their violations: where such a system may
stop, `Terminating` says in which states. It is off in the others, whose systems come
to an end: `NothingLeaks`, `SyncWaitReturns`, `LeaveIsTold`, `CrawlIsComplete` and `JoinsReturn` say what must hold there.

## 4 Fairness

Threads run (weak fairness of a thread's steps). A thread that keeps asking for a
mutex gets it (strong fairness: others may hold it in between). A
coroutine body comes to its next suspension, and a child of `when_all`, `when_any` or
a group to its end: a task that never ends is nobody's fault in these modules.
`WithTimeout` assumes neither: its task may take for ever, which is what a time-out is
for. In `WhenAll` a queued coroutine is resumed when a worker stays free;
that is what `AcceptedIsResumed` says of the executor. Not assumed anywhere:
spurious wake-ups, that clients schedule, that the owner shuts down or
cancels, that peers send, that timers expire (except the deadline of
`WithTimeout`). In `Frames` no step can repeat for ever, so that one weak condition on
everything but the main thread's own choices says that all threads go on and that a
suspended coroutine's handle is scheduled some day. In `TaskGroup`, too, whoever can go on
finds a worker: `WaitEnds` assumes that one stays free while the scoped destructor's `sync_wait`
blocks its own. If every worker is blocked so, nothing ends, as in `when_all_starved`. In `ChatServer` handlers go on, the
reactor reports and peers read; peers need not send or leave.

`MCCombinators` states the fairness of all its modules at once. As `kind` never changes,
weak (strong) fairness of a disjunction with one disjunct for each kind is weak (strong)
fairness of the disjunct of the kind at hand; `mine` are that kind's variables. The other
modules' own `FairSpec` are used by the violation runs.

## 5 What is proved

Every theorem is about the specification that the runs check, or about a component of
it, and holds for all values of the constants that satisfy the assumption named in that
module (`WorkersAssumption` and its like for the executor, `FramesAssumption`,
`CombinatorsAssumption`, `ProgramsAssumption`: numbers are natural numbers, there is at least one worker, one
child, one producer, one consumer, one slot; the sets of calls are finite; a descriptor is
no coroutine; links lead to pages; frames have lengths that are read as they are written; paths begin with a
slash, and the rules of a robots.txt stand behind an agent). TLC evaluates these assumptions in the runs. In each case the run had
checked the inductive invariant, or the property, before it was proved.

| module | theorem | property of the runs |
|---|---|---|
| `ExecutorProofs` | `TypeCorrect`, `MutualExclusion`, `OnePlacePerCoroutine`, `DrainedShutdown`, `NoWakeupIsLost`, `Refinement` | `TypeOK`, `SinglePlace`, `DrainBeforeExit`, `NoLostWakeup`, `ImplementsHandleQueue` |
| `FramesProofs` | `UsedWhileAlive`, `EveryFrameIsDestroyed` | `UsedAlive`, `NothingLeaks` |
| | `SyncWaitTellsTheTruth`, `TypeCorrect` | |
| `CombinatorsProofs` | `WhenAllWaits`, `WhenAllIsWoken` | `ReturnsAfterAll`, `WakeupPending` |
| | `WhenAnyIsWoken`, `FirstWins` | `NoSleepOnWinner`, `ResultWrittenOnce` (an action property) |
| | `GroupIsCovered`, `GroupReports`, `ScopeIsLeftLast` | `WaitCoversNestedSpawns`, `WaitReportsFailure`, `ScopeWaits` |
| | `TimeoutTellsTheTruth` | `OutcomeIsTasks` |
| | `ReactorResumesOnce`, `ReactorForgetsNobody`, `ReactorAgrees` | `ResumedOnce`, `NobodyForgotten`, `KernelAgrees` |
| `ProgramsProofs` | `RoomStaysConnected`, `OrderPerSender`, `LeaveReachesAll` | `RoomIsConnected`, `PerSenderOrder`, `LeaveIsTold` |
| | `FetchesOnce`, `CrawlCompletes` | `FetchedOnce`, `CrawlIsComplete` |
| | `RingIsFifo`, `NoThreadIsLeft` | `BufferIsFifo`, `JoinsReturn` |
| | `FramesArriveAsSent` | `FramesAsSent` |
| | `CallersAreToldTheFile` | `AnswersFollowFiles` (an action property) |

### The combinators

`WhenAllProofs`, `WhenAnyProofs`, `TaskGroupProofs` and `EpollReactorProofs` prove each
component alone; what there is to prove of `WithTimeout` is in `CombinatorsProofs`. `Combinators` is the composition
that the run checks; `Projections` and `ImplementsEach` in `CombinatorsProofs` show that
its behaviours, seen through one component's variables, are that component's, and the
component's theorems, instantiated, give those of the composition.

- `WhenAll`: `Counted` (the counter is the number of children that have stored their
  outcome) makes "the counter is at the total" mean "all outcomes are there". `Guarded` says
  what the mutex is for: in `when_all`, unlike `when_all_void`, nobody counts between the
  caller's second look and its wait. Without `Guarded` the wake-up theorem is false, and
  for `when_all_void` it is (`when_all_void_lost`).
- `WhenAny`: `OneWinner`. The exchange lets one child through before anything is stored.
- `TaskGroup`: `Accounted` (a started task is tracked, or its `spawn()` has not returned)
  and `SpawnTree` (who is inside `spawn()` is the owner, or an earlier task inside its body).
  That a scan which found everything completed has covered the group (`ScanCoversAll`) is
  then an argument by the least uncovered task: its spawner would be an earlier
  uncovered one.
- `WithTimeout`: `FlagOrder`. Exception, `task_done`, cancellation and `timed_out` go up in
  this order, so whichever flag the caller sees first, the outcome is there.
- `EpollReactor`: `OnePlace` and `Kept` say of slots, timers and the batch what
  `ResumedOnce` and `NobodyForgotten` say of a cardinality. `Forgotten` has the hypothesis
  `OneWaiter`, which `Combinators` grants: without it the statement is false
  (`broadcast_stuck`). `Once` and `TableAgrees` do without it.

### The programs

The inductive invariants are at the end of the five modules, so that TLC can check
them; `ProgramsProofs` proves them one after the other.

- `BoundedBuffer`: `SlotsKept` and `ItemsKept`. Each slot is counted by the semaphore `empty`, kept by a
  producer between its wait and its put, filled, or kept by a consumer between its take
  and its post; likewise each item. Hence a put finds room and a take an item, whatever order the
  threads come in. That the slot at `in` is the free one is arithmetic modulo
  the size: the lemmas `OneDivision`, `NextIndex`, `OtherIndex`.
  That the joins return (`NoThreadIsLeft`) needs the sums of the shares. `AllShared` says of
  either role that what it has moved, and the turns its threads have left, are `TotalItems`
  together. At the start the turns are as many as the items because item e is the turn
  e / n of thread e % n, a bijection (`ShareOut`, `TurnsAreItems`). If every thread
  that has not ended waited, nobody would hold the mutex (`Holder`: its holder does not wait),
  so all would be in `sem_wait`. Producers there find no slot, consumers no item; by `SlotsKept`
  and `ItemsKept` not both can be, so one role has ended and has moved all its items, and the
  other has turns left for items there are not. With all ended, `Totals` gives the numbers.
- `Crawler`: `EachSeenOnce` (what `add_url` has seen is posted or fetched, once),
  `CalledBack`, and `LinksFollowed`: of a page whose callback is at link n, the links to follow up to
  n are seen, and their number is the loop's counter. At the end the loop is at the last
  link or the counter at the bound.
- `ChatServer`: `Connections`, `Jobs` and `Room` say which handlers own descriptors,
  jobs and places on the list. `Streams` says of the frames taken in part that whoever's frame a
  connected client is amid of has begun it, and has that client's descriptor first in its
  job: what the same handler sends next to this client is therefore the rest of that frame,
  and only another's can cut it (`CutByOthers`, `StreamsStep`). `Ranks` orders what a member says: everything heard
  from it is at most `Said`, what it has begun to say last, and whoever has heard
  the frame being told is no longer among those still to be told it. `Said` never falls (`SaidGrows`),
  so what arrives whole is newer than what has arrived, and that is `PerSenderOrder` (`InOrder`). `Told` follows the leave
  through its broadcast: the snapshot has every member (`BroadcastSends`), who enters
  later has heard nothing of one who is leaving (`Unheard`).
- `WebSocketFrame`: `InHand`. Behind the first header the reader has the next frame of the
  stream in hand and `Place` says at which byte of it each stage is; a read gets what it asks for, or the
  frame is given up (`ReadsOrCuts`), but for the payload, of which the rest is asked for again. Where
  a frame starts is a recursive sum over those before it. `StartsAreSums` shows that the sum exists
  by the least length for which it would not, `StartsGrow` that the starts are distinct, by the
  least frame that would start no later than one before: so the header met at a start is its frame's.
  `LengthsAreRead` puts lengths together from their bytes. It needs `FrameAssumption`: the lengths
  that the code reads as they were written. TLC finds of all up to 70,000 that these, and
  no others, are so read; the others are the subject of `frame_length`.
- `Robots`: an answer is given from the entry of the host, so the invariant says what that
  is: the rules of some file the host has answered with, or none if it has answered
  with none (`EntriesAreFiles`), and an entry stays (`EntriesStay`), since the second of two
  fetches that fails must not empty what the first has stored. The rest is the parser. `ParsedTo`
  says of the parser behind line n which lines it has in hand, those not parted from n by a new
  group, and which groups it has put aside for us; `LineStep` takes it over one line, `FlushedTo`
  over the end of the file, and `FilesAreParsed` to all lines by the least one at which it
  would fail. It needs `RobotsAssumption` (section 7 says what happens to rules without an agent).
  `VerdictsFollowFiles` then compares the choice of the longest rule: a rule `/` matches
  every path, and it is a prefix of each as each begins with a slash.

### The executor

`ExecutorProofs` proves, for any non-empty finite set of workers, any finite set of
clients, any set of handles and any bounds:

| theorem | statement |
|---|---|
| `TypeCorrect` | `Spec => []TypeOK` |
| `MutualExclusion` | `Spec => []MutexInv` |
| `OnePlacePerCoroutine` | `Spec => [](SinglePlace /\ NothingLost)` |
| `DrainedShutdown` | `Spec => [](DrainBeforeExit /\ QuietAfterShutdown)` |
| `NoWakeupIsLost` | `Spec => []NoLostWakeup` |
| `Refinement` | `Spec => ImplementsHandleQueue` |

Assumptions, all named in `Executor.tla` and evaluated by the run: `WorkersAssumption`
(the constructor starts at least one thread), `ThreadsDistinct`, `NoHandleAssumption`
(the null handle is no coroutine), `FinitelyManyThreads`, `BoundsAssumption`.

The inductive invariant `IInv` is

    TypeOK /\ MutexInv /\ LocalsInv /\ SinglePlace /\ NothingLost
      /\ DrainBeforeExit /\ QuietAfterShutdown /\ StopReachesSleepers

None of the properties is inductive alone. `SinglePlace` needs `LocalsInv`: that a
worker about to pop holds nothing is known only from its program counter.
`DrainBeforeExit` needs `MutexInv`: a push after the exit of a worker is excluded
because the pusher looked at `stopped` under the mutex it still holds.
`QuietAfterShutdown` needs `DrainBeforeExit`. There is one lemma for each conjunct
(`TypeStep`, `MutexStep`, `LocalsStep`, ...), with a step for each action; `InitIInv`,
`NextIInv` and `Invariance` combine them.

`NoLostWakeup` counts: the queue is never longer than the number of threads on
their way to notify plus the number of workers on their way to look, as long as a
worker sleeps. `NoFewerWakeups` disposes of all steps that leave the queue alone and
take no wake-up away; what remains are the push (one more notifier), the
notification (a notifier becomes a looker), the pop (one handle and one looker
less) and the wait (which needs an empty queue). The cardinalities come from the
library's theorems on finite sets.

`Refinement` maps initial states and every step: pop is `Deliver`, push is `Accept`,
a body that suspends, ends or schedules itself is `LetGo`, the stop is `Close`, the end
of the join is `Return`, the rest stutters. It uses `SinglePlace` (an accepted
handle is held by nobody) and `QuietAfterShutdown`.

### The frames

`FramesProofs` proves, for any number of tasks, workers, pieces of work and suspensions:

- `UsedWhileAlive`: no operation (destroy, resume, the reads of the final awaiter) touches a
  destroyed frame, but for the two cases that `UsedAlive` excepts;
- `EveryFrameIsDestroyed`: when nothing runs or waits any more and no handle was lost to a
  stopped executor, no frame is left;
- `SyncWaitTellsTheTruth`: what `sync_wait`'s helper carries out of the root is what the
  root ended with.

`UsedAlive` alone is not inductive, for whether the next `resume` meets a living frame is
a matter of who else may have destroyed it. The invariant `IInv` says

- where a frame is (`Unique`, `Apart`): in one stack, armed, queued, taken by a worker, or
  lost, once and in one of these only; and what its state has to do with that place
  (`InPlace`: entered frames run, waiting ones are suspended);
- that no frame in such a place is destroyed (`NoneDead`), with the exceptions;
- who owns it (`Owners`): an older frame that has not ended, a thread for the root, or
  nobody once it is detached or destroyed;
- what its promise holds (`Promises`) and who awaits it (`Awaiters`: the owner and nobody
  else, and a frame that awaits is awaited back by one child);
- what the main thread and the helper know of the root (`RootTask`).

There is a lemma for each action of `Next`. The one about destruction rests on
`OwnedBy(f)`, the frames that go with f, which `Frames` defines by a recursive function:
`OwnedByGrows` shows that the function exists, `OwnedByLeast` that its value is the
least set that has f and what its members own, both by the least number at which
it would fail. As an owner is older and has not ended, whoever ends owns nothing, and
its frame is destroyed alone (`DestroyedAlone`). `NothingLeft` then goes from the
invariant to the end: where nothing runs or waits, the frames left would all be awaiting, but
the newest of them would have to be awaiting a newer one.

## 6 What is only model-checked

- Liveness under fairness, everywhere (`AcceptedIsResumed`, `WhenAllReturns`,
  `SuccessEndsCall`, `WaitEnds`, `EndsWithTask`, `DueIsResumed`, `ShutdownReturns`, `SyncWaitReturns`).
  ENABLED is out of the prover's reach, too: `JoinsReturn` says with the guards (`Waits`) that
  some thread can go on. On small instances of the ring TLC finds that a step is enabled exactly
  when a thread has not ended and does not wait.
- The containers (`LookupsFind`, `SequencesKeep`) and the search in the mazes (`NeverTrapped`): what they compute is
  recursive, over trees, sequences and plans, and the modules use recursive operators and
  the folds of the library, which the provers cannot instantiate. (A recursive function
  over numbers is within reach, by the least number at which a claim fails: `OwnedBy` of
  the frames, `StartOf` of the WebSocket frames and `parsed` of the robots.txt above.)
- `FollowsPlane` of the Game of Life reads pattern files with a fold over their characters.

The mutants and the violations are TLC's alone.

## 7 Where code and text disagree

Eight runs are expected to find a violation of what a comment or a README says.
`PROJECT.json` quotes the lines.

- `when_all_void_lost`: `when_all_void` counts and notifies outside the mutex
  (`when_all.h:129-130`). Both can fall between the parent's second look at the
  counter and its wait, and then the parent sleeps for ever.
- `when_all_starved`: the wait of `when_all` blocks a worker of the pool its children
  need. As many calls as workers, and none returns.
- `when_any_unexpected`: the winner sets the flag before the result
  (`when_any.h:34-35`), the parent reads both without the mutex and throws
  "unexpected state".
- `with_timeout_never`: the wrapper around `timeout_task` catches `task_cancelled` only
  (`timeout.h:107`); `timeout_error` is lost and the caller waits for the task.
- `async_run`: the helper's parameter destroys the frame when the handle has been
  queued (`executor.h:123`).
- `broadcast_stuck`: a second `wait_write` on a descriptor replaces the first waiter
  (`io_epoll.cpp:74`); two broadcasts to one slow client do that, and one handler is lost.
- `frame_length`: two-byte lengths are put together from signed characters
  (`websocket_server.cpp:283`).
- `crawler_robots`: the robots cache allows what it does not know
  (`Robots.cpp:163-176`), and only a refusal would make the scheduler fetch the file
  (`Scheduler.cpp:77-88`).

Other behaviour a caller may not expect:

- `sync_wait` and `async_spawn` may destroy a frame while its worker is still in the final
  awaiter, which then reads the promise (`UsedAlive` names this exception).
- Two handlers that write to one client can mix their frames: the socket takes a part of the first
  one's, drains while its handler is still parked (`websocket_server.cpp:134-149`), and takes the
  other's. No lock spans the loop, and the client cannot read on. So can the rest of a frame whose
  descriptor has been closed and given to a new connection. TLC reaches both. `PerSenderOrder` and
  `LeaveIsTold` hold for a client's stream up to there and not beyond: a member whose
  stream is torn may never hear that another left, although that one's handler has ended.
- A handle given to a stopped executor is dropped; its frame is never destroyed.
- A chat client whose frame header or mask arrives in two pieces is disconnected
  (`websocket_server.cpp:268`, `300`).
- In the Game of Life an extra mouse button as the first one pressed leaves `drawValue`
  unset, and `drawing` may be on: the next movement then writes the unset value
  (`GameOfLifeWidget.cpp:173`). A left click sets a cell; the game's
  README says that it toggles it (`life-cpp/README.md:18`).
- Whoever closes the second maze window has lost: the first stays disabled
  (`maze1/main.cpp:35`).
- HTTP URLs without a port are connected to at port 0 (`Fetcher.cpp:69`).
- Rules in front of the first agent of a robots.txt are kept and taken for those of its first
  group (`Robots.cpp:100-105`).
- `RBTree::remove` follows a null pointer whenever a black node without children leaves
  the tree (`RBTree.h:119-120`), the root excepted. It never gets to rebalance
  anything (`HashMapIsMap` says so of the whole loop).
- The priority queue's `down` ignores a left child without a sibling (`pqu.h:81`). Filled
  and then emptied it is in order; push 1, 1, 2, 1, 2, pop, push 2, pop, and the
  top is 2 while a 1 is in the queue.
- `reserve` of an emptied hash set with fewer buckets than before writes past the new
  array (`ust.h:248`), and the first insertion into an empty set brings the count to 13
  whatever was reserved (`ust.h:293`).
- `equal` of two hash sets compares the size of their intersection with itself
  (`ust.h:126-136`) and is always true; `unique` of a list keeps the last of equal
  elements; a string with a zero in it is copied up to the zero (`str.h:52`).
- A deque that is only pushed behind and popped in front doubles its array of pages
  again and again (`deq.h:245`): the marks only return when it gets empty.

## 8 What is not modelled

Whole parts: the HTTP server's handler (it adds no state to the reactor's callers); HTML
parsing, handshake hashing, the JSON of the chat and the records of the output (string
processing without state to reason about); the crawler's plug-in loader (handles that are
opened at the start and closed, twice, at the end, by one thread); `lock.cpp` (lock
types one after the other); the Qt server (routing of strings in Qt's event loop); `ls` (formatting), `reflect` and the template exercises
(compile-time computation); `error_handling.h` and `async_helpers.h`, sequential wrappers
around one await; the demonstration programs.

In the modelled parts: allocation failures, exceptions of `std::mutex`, a failing
`epoll_create1` or `timerfd_create`, `EINTR`, more than 64 events in one batch; the
value form of `with_timeout`, which ends with an exception whatever happens
(`timeout.h:67`, `76`); the variadic `when_all`, which awaits one task after the other; in
`Frames`, values (an outcome is a value or an error); in `ChatServer`, the race on `next_user_id`,
whole frames that reach a new connection under the number of a member that left, and what
follows a torn frame; in the crawler,
other sites, redirects (the code follows none), `crawl-delay` (parsed and not used), and
the reference that the scheduler's unreached callback keeps to a local (`Scheduler.cpp:82`);
in the games, painting, scrolling and scaling; in the containers, `free` and `copy` of elements, the
searches of `str.h`, and `equal`, which change nothing. Where the code's behaviour
becomes undefined (a destroyed frame, a dead lambda, a write past an array) a module
records it and follows it no further.

## 9 Plan

Written, in this order: `HandleQueue` and `Executor` (everything rests on them),
`ExecutorProofs`, `WhenAll`, `WhenAny`, `TaskGroup`, `EpollReactor`, `WithTimeout`, the containers,
`Frames`, `ChatServer`, `WebSocketFrame`, `Robots`, `Crawler`, `BoundedBuffer`, `Life`,
`Labyrinth`; then the proofs about the combinators, the reactor, the five programs and the
coroutine frames.

Every safety property of the runs that does not compute over trees, sequences or plans has its
theorem now; section 6 says what stays with TLC and why.

A possible extension of the model: descriptor reuse in `EpollReactor` itself.

## 10 How to run it

`tlc -config MCExecutor.cfg MCExecutor` and likewise for the other `.cfg` files, each
named after its MC module with the run's variant appended (`MCChatServerStuck.cfg` and
`MCWebSocketFrameLength.cfg` are for `ChatServer` and `WebSocketFrame` themselves);
`tlapm ProgramsProofs.tla` and likewise for the other proof modules (ten minutes for
that one, up to six for the others). The passing runs take up to three minutes each, the others seconds.
