# Verification of LPEL in TLA+

LPEL (Light-weight Parallel Execution Layer) runs user-level *tasks* on a
fixed set of worker threads.  Tasks talk over *streams*, single-producer
single-consumer queues; a task that reads an empty stream or writes a full one
blocks, and the other end of the stream wakes it.  This directory holds TLA+
models of the library, the TLC configurations that check them on small
instances, and proofs checked by TLAPS.

## 1. The system

### Parts and state

The library has two exchangeable back-ends over a common base.

| Part | Source | State | Operations |
|---|---|---|---|
| Mailbox | `mailbox.c` | inbox list, free list, two mutexes, a condition | create, send, receive, look, destroy |
| HRC master and workers | `sched/hierarchy/hrc_worker_op.c`, `hrc_worker_init.c` | ready queue, `waitworkers`, `terminate`; per worker the current task | handlers of ASSIGN, RETURN, WAKEUP, REQUEST, TERMINATE; broadcast; join and clean-up |
| HRC wrappers | `hrc_worker_op.c` | a thread per wrapper task, list of free contexts | loop, get and put a context |
| HRC tasks | `hrc_task.c` | `state`, `wakenup`, priority, record limit, lists of open streams | create, start, block, unblock, yield, exit, priority |
| HRC task queue | `hrc_taskqueue.c` | binary heap | push, peek, pop, update |
| Priority functions | `taskpriority.c` | none | fourteen functions of the fill levels |
| HRC streams, buffer | `hrc_stream.c`, `hrc_buffer.c` | list of items, `n_sem`, `e_sem`, `is_poll`, `prod_lock`, counters | create, open, read, write, try-write, poll, close, replace |
| Stream sets | `streamset.c` | circular list, iterators | put, remove, iterate, append, remove at iterator |
| DECEN workers, tasks | `sched/decentralised/decen_worker.c`, `decen_task.c`, `task_migration.c` | a ready queue and a mailbox per worker | dispatcher, messages, wake-up, migration, termination |
| DECEN streams, buffer, queue | `decen_stream.c`, `decen_buffer.c`, `decen_taskqueue.c`, `decen_scheduler.c` | circular buffer, queues per priority | as above |
| SPMD extension | `spmdext.c`, `sema.c` | request slots, barriers | request, handle, enter |
| Monitoring | `modimpl/monitoring.c` | lists of changed streams, time stamps | callbacks |
| Timing | `timing.c` | none | difference, sum |
| Start-up, core assignment | `lpel_main.c`, `lpel_hwloc.c` | table of places, `rot_others` | init, check of the configuration, assign a thread |
| SCC port | `sched/hierarchy/scc/` | mailbox lists, lock registers | send, receive |
| Context switch | `ctx/` | | |

### How the parts interact

In the hierarchical back-end (HRC) one *master* thread owns the ready queue.
A worker asks it for a task (REQUEST), gets one (ASSIGN), runs it until it
blocks, yields or exits, and then sends first the next REQUEST and then the
task itself (RETURN).  The end of a stream operation that ends a wait sends
WAKEUP to the master.  `LpelStop()` sends TERMINATE; the master leaves its
loop and tells the workers; `LpelCleanup()` joins all threads and empties the
master's mailbox.  In the decentralised back-end (DECEN) every worker has its
own queue, and messages go between workers; a task may migrate when it stops
or is woken, and all workers together can run an SPMD function.  In both, the
monitoring module is called back at every start and stop of a task and at
every stream operation.

### Hard behaviours

* A wake-up overtakes the return of its task (`t->wakenup`).
* A request is answered now or noted, and a task becomes ready in between.
* The state of a task is read by the master while others act on it.
* Threads end while messages to them are on the way.
* A mailbox is signalled only when its first message comes in.
* Semaphores that may be -1; two producers and the polling consumer itself
  compete for one token; a buffer without a lock whose reader frees nodes.
* Streams are closed, and their structure reused, by one end, while the
  master follows pointers to them to compute priorities.
* A task is woken, and may migrate, before it has left its stack.
* Threads that end while work is still sent to them, and threads that nobody
  waits for.
* Requests put into a ring without a lock, in two steps; barriers that share
  their semaphores.
* A limit that keeps tasks from running, and must release them again.

### Correctness properties

A task is in one place; every wait is woken exactly once; no wake-up is lost
or outlives its wait; no worker is idle beside work; the assertions in the
code hold; shutdown ends and leaves nothing unexpected; mailboxes, streams,
queues and sets are the sequences they stand for; nobody sleeps beside data or
space; polling returns a stream with data and starves none; nothing freed is
used; a stack belongs to one thread; statistics are exact; threads stay on
their cores; priorities follow demand.

`PROJECT.json` lists all components and, at the line where they bite, the
hazards, with the properties that cover them.

## 2. Modules

| Module | Models |
|---|---|
| `HrcSched` | master, workers and tasks of the HRC back-end, from start-up to clean-up |
| `HrcSchedPlaces`, `HrcSchedSteps`, `HrcSchedProofs` | proofs about `HrcSched` |
| `MsgQueue` | what a mailbox promises: a FIFO queue |
| `Mailbox`, `MailboxProofs` | the node lists of `mailbox.c`, and the proof that they implement `MsgQueue` |
| `HrcStream` | streams of the HRC back-end: write, read, poll, close |
| `HrcStreamProofs` | proofs about `HrcStream` |
| `HrcLife` | creation, open, close, replace, destruction of streams and the free lists; the master's walk over them |
| `HrcTaskqueue` | the heap of the master, with the set it stands for |
| `TaskPriority`, `HrcPriority` | the priority functions as fractions; one task whose streams change |
| `HrcRecLimit` | the record limit of a task |
| `HrcWrapper`, `HrcWrapperProofs` | wrapper threads and their contexts, and the proof about them |
| `HrcDemand` | `HrcSched` composed with a pipeline of streams and with `TaskPriority` |
| `DecenWorker` | workers, wrappers, tasks, queues and migration of the DECEN back-end |
| `StreamFifo`, `DecenStream` | what a bounded stream promises; streams and ring buffer of the DECEN back-end |
| `TaskDeque`, `DecenTaskqueue` | what ready queues promise; the linked lists |
| `SpmdExt` | requests, barriers and virtual ids |
| `BiSema`, `BiSemaProofs` | the spinning semaphore, and its proof |
| `StreamSeq`, `StreamSet` | what sets and iterators promise; the ring |
| `Timing` | arithmetic on times |
| `MonWorker`, `MonTask` | monitoring of workers and wrappers; of a task and its streams |
| `HwLoc` | start-up, check of the configuration, assignment to cores |
| `SccMailbox`, `SccMailboxProofs` | the mailboxes of the SCC port, and their proofs |
| `MCHrcSched`, `MCHrcStream`, `MCHrcDemand`, `MCDecenWorker` | instances of one module |
| `MCHrcLive`, `MCLive` | liveness, with the fairness it needs |
| `MCHrcObjects`, `MCDecen`, `MCCommon` | several components side by side |

Components that do not share state are checked in one run: the MC module
instantiates them over disjoint variables, and a variable `part`, chosen in
the initial state and never changed, says which of them moves.  No component
can disturb another, so a run explores the sum of their state spaces and not
the product.  Where a component has several configurations they are values
of a variable that Init chooses and no step changes: `use` (how streams are
used), `program` (tasks, migration mechanism and priorities of
`DecenWorker`), `build` and `_lpel_global_config` (`HwLoc`), `is_wrapper` and
the flags (`MonWorker`), `rec_limit_factor` (`HrcRecLimit`), `func` and `type`
(`HrcPriority`).

Definitions named `...Keep`, `...Late`, `...Missing` and the like, with a
comment that begins with "fault:", are faulty variants of the definition that
follows them.  Nothing uses them in the models; substituting one shows that
a property notices this fault.

### HrcSched

Mailboxes are sequences.  A handler of `MasterLoop()` is one action
(`MasterAssign`, `MasterReturnBlocked`, `MasterReturnReady`,
`MasterReturnZombie`, `MasterWakeup`, `MasterWakeupEarly`,
`MasterRequestServe`, `MasterRequestWait`, `MasterTerminate`), followed by the
test of the loop.  Handling a message in one step loses nothing: the master
works on its own data and on tasks that nobody runs, and reads one field that
may change meanwhile, `t->state` of a task being woken, once.  A worker stops a
task in the steps of the code: set the state, send REQUEST, send RETURN.

Streams appear as `waiter`: a task that finds its semaphore at 0 waits from
then on, also while it still runs and is not marked blocked, and the other
end unblocks it once.  `HrcStream` shows that streams keep this obligation
(`WakeupMatchesWait`).

`LpelStop()` is enabled when no task waits on a stream: programs call it when
their last record has come out (the outputter of `tests/check_hrc`), and the
tasks that still exist then only run to their exit.

The priority of a task is computed from counters that other threads change
(`LpelTaskCalPriority`), so any value of its range may come out, and
`updatePriorityNeigh` may change the priority of any queued tasks (which are
neighbours depends on the streams opened at run time).  The queue is the set
of its tasks; its head is any task of highest priority.

### Mailbox

One receiver, since only the owner of a mailbox receives.  `GetFree`, the
insertion, the removal and `PutFree` are critical sections and one step each;
copying a message into or out of a node happens outside the locks and is a
step of its own.  `Walk` follows the `next` pointers from a first node, and
`Chain` is the list of the nodes it meets; the refinement mapping takes the
messages along the circular inbox list (`Contents`).  While the receiver holds
an unlinked node, the message it delivers is what this node contains.

### HrcStream

One consumer with several streams and a producer for each.  A step is one
access to shared data: the semaphore operation, each of the two stores of
`LpelBufferPut`, the exchange of the poll token, the counting.  The list of
the buffer is described by positions counted from `buf->head`: `linked` nodes
follow it and `buf->tail` points to position `tail`.  `Pop` frees position 0
and shifts the others, so a negative `tail` is a pointer to freed memory.
With counters relative to the reader, streams run forever in finitely many
states.  A consumer in `LpelStreamPoll()` waits, in the sense of `HrcSched`,
from the moment a producer takes its token: only then is it sure to block.

### Streams, tasks and wrappers of the HRC back-end

`HrcLife` has one step per operation of a task on a stream, since `HrcStream`
has the steps inside, and one step per load of `countRec()`, since the master
works while tasks open and close.  A stream or descriptor that is put into a
free list stays readable, as in the code; `FreeStreamsUnused` says that
nobody uses it.  `LpelStreamReplace()` is used as the code of the function
needs it: the reader of a stream announces that stream with its last item to
the task behind it, which puts it in the place of its own.

`HrcWrapper` has the creation of a wrapper task (by any thread), the loop of
its thread, and the free list under `lockwrappers`.  `LpelCleanup()` may
come while a wrapper task still runs, since nobody waits for its thread.

`HrcDemand` extends `HrcSched`: the tasks form a pipeline, in which each reads
a record from one stream and writes one to the next.  The semaphore `n_sem` of
a stream decides who blocks and who is woken; its level, from which the
master computes `prior`, is counted in a step of its own, later, as in the
code.  `priorfunc14()` is a difference, shifted here so that it is a
priority of `HrcSched`.  The entry task never waits for its input.

### DECEN back-end

`DecenWorker` keeps for each thread on which stack it runs: the dispatcher
runs on the stack of the task that stops, so a task may be queued, woken or
sent away before its stack is left (`OneStack`, `FreedUnused`).  Handling a
message is a step.  Random numbers and waiting times are choices.  The
assertions on the state of a task that is woken or assigned are no guards:
the handlers go on in every state, and `NoLostWakeup` includes them.

`DecenTaskqueue` follows the loop of `LpelTaskqueueIterateRemove()` link by
link: where it goes next is read from the lists as the turn has left them,
`prev` and `count` included (`LinksAgree`).

`DecenStream` covers the whole life of streams with a step per shared access;
positions of the ring are real, so wrap-around happens.  `ImplementsFifo` maps
it to `StreamFifo`: the queue is what lies between `pread` and `pwrite`.

`SpmdExt` claims a slot and fills it in two steps, as the code does.  Each
worker has one task that requests, and the worker of `Spare` one that does
not, so that a worker has something to run while its request waits; that no
second request is pending is an assertion of the code and no guard.
`BiSema` has time as a flag (`late`) that says that the millisecond is over.

### Other modules

`Timing` takes a second of `Billion` units, so that small clocks reach all
carries.  `MonWorker` takes an uninitialised field as any value, and a clock
that goes forward and may be set back, as the wall clock of the code may, so
that a wait may have a negative length.  `HwLoc` builds the table of places
from a topology; every thread assigns itself, and reading and writing
`rot_others` are two steps.  With hwloc a worker whose number is not that of a
core gets whatever lies behind the array `cpu_sets`: no core or any.  `SccMailbox` treats the register as what
the code takes it for: a read returns the value and increments it, a write of
0 frees it.  The mailboxes exist from the start, and a register does not wrap
around.

## 3. Runs

| Run | Instance | Properties |
|---|---|---|
| `hrc_sched` | 2 workers, 3 tasks, any order of blocking, yielding, waking and stopping | `TaskInOnePlace`, `NoLostWakeup`, `NoSpuriousResume`, `WorkConserving`, `ReceivedStateAsserted`, `CleanupLeftovers` |
| `hrc_live` | any 2 tasks on 2 workers; a pipeline of 3 tasks on 1 worker, with priorities from its streams, no demand limit or a limit of 1; fair | `UnblockedIsScheduled`, `StopTerminates`, `PipelineFlows` |
| `hrc_stream` | 3 streams for ever, or 2 that are closed; one is bounded by 1 | `WakeupMatchesWait`, `NoSleepBesideItem`, `TailNotFreed`, `PollReturnsData` |
| `hrc_objects` | `HrcLife` with 3 tasks, 2 streams, 3 descriptors; `HrcWrapper` with 3 tasks, 2 contexts, 2 creators; `HrcRecLimit` with factors -1 to 3; a heap of 4 tasks | `FreeStreamsUnused`, `EndsMatch`, `OneUser`, `YieldsAtLimit`, `PopsHighest` |
| `decen` | 2 workers with 2 tasks, in four programs: a wrapper task and no migration, random migration, migration by waiting proportion without and with a wrapper task that yields; 2 streams of 2 slots; 2 queues of 3 tasks; SPMD on 3 workers; a semaphore between 4 tasks on 2 workers | `OneStack`, `FreedUnused`, `TaskCount`, `NoLostWakeup`, `NoDangling`, `NoSleepMissed`, `ImplementsFifo`, `ImplementsDeque`, `SoleInCritical`, `OneHolder` |
| `live` | 2 DECEN workers with 2 tasks, one of which yields for ever; a mailbox with 2 senders; a polling consumer of 2 streams; fair | `WokenRuns`, `StopTerminates`, `MessageReceived`, `NoStreamStarved` |
| `common` | mailbox with 4 nodes; 3 SCC mailboxes, two of them on one register; a set of 4 descriptors; monitoring of a worker and of a task with 2 streams; start-up on 4 machines and 4 builds; the priority of a task with 3 streams | `NodeOwnership`, `ImplementsQueue`, `ImplementsQueues`, `ImplementsSeq`, `StatisticExact`, `NothingUnreported`, `PlacedWithin`, `DemandDriven` |
| `hrc_sched_yield`, `hrc_stream_close`, `hrc_demand_stall`, `decen_stack`, `hrc_life_walk` | | one property each, violated: see Findings |

### What the runs show

*The HRC scheduler.*  Whatever the order of REQUEST, RETURN, WAKEUP, ASSIGN and
TERMINATE, a task is in exactly one place, and its wake-up reaches it even
when it overtakes its return; no worker is noted as waiting while a task is
queued; and the shutdown ends with nothing in the master's mailbox but
requests and finished tasks.  These are safety (`hrc_sched`) and liveness
(`hrc_live`) of the same module.  `PipelineFlows` is about priorities: three
tasks compete for one worker, the master refuses the entry task when a limit
is reached, and still every record that was written is read; without a limit
the entry task comes back as well.  It fails if the limit is applied to
other tasks than the entry task.

*Streams.*  `WakeupMatchesWait` is the obligation that `HrcSched` relies on.
`NoSleepBesideItem` and `PollReturnsData` are about the race of several
producers and the poller for one token.  `TailNotFreed` shows that the list
without a lock is safe because the reader waits for `n_sem`, which is raised
after both stores of a put.  In the DECEN back-end `ImplementsFifo` is the
refinement of a bounded queue, through the wrap-around of the ring and while
streams are replaced; `NoDangling` follows their destruction.

*Objects.*  Free lists hand out a stream or descriptor only when nobody uses
it any more, although closing one end leaves the pointer of the other
(`EndsMatch`).  `getFreeWrapper()` looks without the lock and gives a context
to one task (`OneUser`).

*DECEN workers.*  A stack is executed by one thread although dispatching
happens on it, unless tasks migrate by waiting proportion (`decen_stack`);
counts of tasks stay right through all ways of migrating, so that workers
leave when they may and not before.

*Refinement.*  `MsgQueue`, `StreamFifo`, `StreamSeq` and `TaskDeque` are what
mailboxes, streams, sets and queues promise; `Mailbox`, `SccMailbox`,
`DecenStream`, `StreamSet` and `DecenTaskqueue` are shown to implement them.
The formulas say this step by step, for the steps that change something.

### Bounds

*Scheduler.*  Two workers are the least with a choice and with a noted and an
open request at once; with three tasks one can run, one be queued and one be
parked while two wake-ups are on the way.  Each task may block, yield and be
woken any number of times, so there is no bound on the length of a run.
In `hrc_sched` all priorities are equal, so that the head of the queue is
arbitrary; in the pipeline of `hrc_live` they come from the fill levels.
There `MaxLevel`, 2, bounds the records in a stream, and a task at the bound
yields; with `rec_limit` 1 a task yields after two records, and the entry
task can get ahead of its reader by more than the limit of 1.  The pipeline
runs on one worker, so that tasks must wait for each other.

*Mailboxes.*  Two messages per sender give empty, one-node and longer lists,
and nodes that are used again; four nodes are enough for malloc never to fail.
`MaxSpin` bounds the value of an SCC register.

*Streams.*  Three streams give two producers that race for the token and a
third that is not yet registered.  `MaxFill`, 2, bounds only streams that the
code does not bound, and it is above `BufSize`, 1, so that producers meet the
bound of the code first.  Two slots of a DECEN ring and any number of items
give full, empty and wrapped buffers.

*Objects.*  `MaxCreate` of 2 lets a stream struct come back from a free list.
Factors of the record limit include the two that mean "no limit" and "at
every record".  The heap has a block size of 3 and so grows with four tasks.

*Others.*  `Billion` is 3, so that a few ticks, forward and back
(`MaxTicks`), give carries; `HwLoc` has
machines with fewer, as many and more cores than threads.  `Restarts` is 1:
a program calls `LpelInit()` once.  Two workers would make SPMD barriers
trivial, three let two followers overtake each other.  Four tasks on two
workers make a spinning task of one worker wait for a holder on it and on the
other one.

Deadlock is checked in all passing runs but `hrc_objects` and `common`, in
which bounded programs end (all creations made, all messages sent, waits
over), and `hrc_live`, in which a program with a demand limit may stand still;
that is what the violation run `hrc_demand_stall` finds.

### Fairness

All fairness is in `MCHrcLive`, `MCLive` and, for the run
`hrc_demand_stall`, `HrcDemand`.

* HRC scheduler: every thread that can go on does (the operating system
  schedules threads).  A task that runs is not required to stop, except after
  `LpelStop()`, which the program calls when its tasks are to end; with the
  tasks of `HrcDemand` running tasks go on.
* DECEN workers: the same for threads.  A running task is taken to stop at
  some time, since the scheduler is cooperative; one may yield for ever, but
  after `LpelStop()` it is taken to exit when it gets to run often enough
  (strong fairness, because it is enabled only while it runs).
* Mailbox: threads in a call go on and the owner keeps receiving; wake-ups
  without a signal are possible and not relied on.
* Streams: tasks in a call go on (for blocked tasks this is what the scheduler
  runs show), and the consumer keeps polling; producers need not write.  Weak
  fairness is enough for `prod_lock` here because `MaxFill` stops a producer
  that writes without pause.

### Findings

* `hrc_sched_yield`: a task that yields after `LpelStop()` may be returned
  READY after the master has left its loop; `cleanupMasterMb()` asserts
  that only finished tasks are left.  The other runs assume
  `YieldsAtStop = FALSE`: tasks do not yield once `LpelStop()` is called.
* `hrc_stream_close`: a consumer that reads the terminate record and closes
  the stream with destruction clears the stream pointer that the producer
  still uses for `write_cnt++`, in the `LpelStreamWrite()` of this very record.
  `hrc_stream` assumes that the application waits for the producer first.
* `hrc_demand_stall`: with a demand limit, an entry task that was held back is
  not scheduled again when the limit no longer holds it: the worker's request
  was noted before the return that raises its priority, and that return
  serves no noted worker.  With one worker the program stands still.
  `PipelineFlows` therefore demands the return of the entry task without a
  limit only; that records get through it demands with a limit too.
* `decen_stack`: with `LPEL_MIG_WAIT_PROP` a task that receives its own wake-up
  in its dispatcher call is sent away before its context is saved.
  `OneStack` and `FreedUnused` are therefore stated for the other mechanisms.
* `hrc_life_walk`: the master tests a stream pointer in `countRec()` and loads it
  again; the consumer may clear it in between.

### Disagreements seen while modelling

The following were met when the code was read and modelled; no run is kept
for them, and the passing properties are stated so that they do not depend on
them.  The models do contain the behaviour.

* `LpelStreamFillLevel()` is -1 for a moment when the reader counts an item
  before its writer; -1 is the mark of a missing side in `taskpriority.c:7`.
  `DemandDriven` is about levels that are not negative.
* `mailbox.c:84` asserts an empty inbox; with `LPEL_MIG_RAND` a task that still
  runs after `LpelStop()` can be sent to a DECEN worker that has left.
* `spmdext.c:222` asserts that a worker has no request pending.  A slot that is
  claimed but not yet written makes `LpelSpmdHandleRequests()` return early,
  and another task of the same worker may request.  In `decen` each worker
  has one task that requests, for which the assertion is part of
  `SoleInCritical`.
* `spmdext.c:251` describes virtual ids as shifted worker ids; `GetVId()`
  counts backwards.  They differ from each other, which `SoleInCritical` includes.
* `LpelStreamTryWrite()` of DECEN, "non-blocking", blocks when the reader has
  taken the item and not yet raised `e_sem`.
* `LpelTimingAdd()` does not normalise a sum of nanoseconds of exactly one
  second, and `monitoring.c:180` asserts less than that of the total, too.
  `StatisticExact` says that it is never more, and that the total is exact.
* `LpelTaskYield()` of DECEN migrates a task by waiting proportion also if it
  runs on a wrapper (`decen_task.c:187-193`); `WrapperLoop()` never looks at
  `wc->migrated`, so the task is sent to nobody and does not run again.
  `TaskCount` holds there too: the worker that was chosen never counts it.
* `LpelStreamIterAppend()` on a set whose only element was removed with
  `LpelStreamIterRemove()` follows a NULL pointer (`streamset.c:224`).  The
  model leaves this to the caller.
* `MonCbWrapperCreate()` leaves `wait_cnt` and `wait_time` uninitialised;
  `StatisticExact` is about workers.
* With `LPEL_MON_TASK` alone the objects of closed streams are not freed.
* `LpelStreamReplace()` needs a stream that was opened for reading, though
  `hrc_stream.c:196` says the opposite; it copies the type, and
  `LpelStreamOpen()` changes it, which can leave a writer of an entry stream
  without its wake-up.
* The record limit is tested for equality: after an output stream was closed,
  or with a limit of 0, a task may pass it.  `YieldsAtLimit` excludes both.
* Wrapper threads are not waited for by `LpelCleanup()`, which destroys the
  lock they use last.  `OneUser` is about the time before the clean-up.
* `lpel_hwloc.c`: with hwloc the core of a worker is not taken modulo the
  number of cores, and line 218 reads past the array when there are more
  workers than cores; `index` and `rot_others` are not reset by a second
  `LpelInit()`; two wrappers that start together may get the same core;
  real-time workers are not checked when the number of cores is unknown; and
  without `sysconf` every configuration is refused.

## 4. Proofs

All theorems are about the specifications that the runs check, for every
value of their constants; where a module bounds something (`MaxFill`,
`MaxSend`, `MaxSpin`) the bound is any natural number.

### The HRC scheduler

For every number of workers, every set of tasks and every range of
priorities, with and without a negative demand limit, and with and without
yields at the stop.  The only assumption is `ConstAssumption`: there is a
worker and a priority, and `NULL` is no task.

| Theorem (`HrcSchedProofs`) | Property |
|---|---|
| `InductiveInvariant` | `IInv` |
| `TypeCorrect` | `TypeOK` |
| `OnePlacePerTask` | `TaskInOnePlace` |
| `RequestPerWorker` | `OneRequestPerWorker` |
| `WakeupNotLost`, `WakeupNotStray` | `NoLostWakeup`, `NoStrayWakeup` |
| `ResumeNotSpurious` | `NoSpuriousResume` (an action property) |
| `WorkConservation` | `WorkConserving` |
| `StatesAsserted` | `ReceivedStateAsserted` |
| `TerminationInvariant` | `TerminationInv` |
| `CleanupSafe` | `CleanupLeftovers`, if no task yields at the stop |

None of the properties is inductive alone.  That a task is in one place, for
example, depends on its state: the master takes a task that a RETURN names and
queues it, so a task with a RETURN on the way must not be on a worker as well.
`IInv` says where everything is:

* `TaskPlacement`: the state of a task determines where its only reference is,
  and a worker holds a task exactly while it runs or returns it;
* `RequestPlacement`: a worker's request is in the master's mailbox, in
  `waitworkers`, or answered by an ASSIGN, never in two of them, and there is
  none while it runs a task;
* `WakeupPlacement`: a wake-up in the mailbox or in `t->wakenup` belongs to
  the wait its task is in, and a signalled task has one;
* `MessagesOnce`: no message but TERMINATE is in a mailbox twice;
* `QueuePriorities`, `BroadcastProgress`: no noted worker beside a queued task
  without a limit, and the range of the broadcast.

`HrcSchedPlaces` has the facts on messages (what sending and receiving do to
the contents of a mailbox) and the actions that assign no task;
`HrcSchedSteps` has the other actions.  Together they show for each action
that it keeps the placement of tasks, requests and wake-ups.
`HrcSchedProofs` adds types and priorities, puts them together and derives the
properties.

The shutdown needs the *order* of messages, which `IInv` does not speak of.
`TerminationInv` adds it: no task is assigned and no second stop is sent behind
a TERMINATE in the master's mailbox; TERMINATE is the last message of a worker
the broadcast has reached, so it leaves its loop with an empty mailbox; and
after `LpelStop()` a task that is ready is on its way to a worker.  The last
part holds when no task yields at the stop, so `CleanupSafe` has
`~YieldsAtStop` as a hypothesis; the run `hrc_sched_yield` shows that it is
needed.

### Streams of the HRC back-end

For any number of streams, any of them bounded, any buffer size and all ways
of using the streams, under `StreamAssumption`.

| Theorem (`HrcStreamProofs`) | Property |
|---|---|
| `InductiveInvariant` | `IInv` |
| `WakeupMatchesWaitInv` | `WakeupMatchesWait` |
| `NoSleepBesideItemInv` | `NoSleepBesideItem` |
| `TailNotFreedInv` | `TailNotFreed` |
| `PollReturnsDataInv` | `PollReturnsData` |
| `EntryBoundedInv` | `EntryBounded` |

`IInv` consists of

* `SemInv`: `n_sem` is the number of linked nodes, less one while the producer
  is inside its put and less one while the reader takes; it is negative
  exactly for a reader that waits;
* `ReadInv`: a reader that waits has one producer that will wake it, or none
  and an `n_sem` of -1;
* `TokenInv`: while the consumer polls, the token is there, or exactly one
  producer has it and will wake the consumer, or the consumer is signalled and
  `wakeup_sd` has an item;
* `RegisteredInv`: the streams with `is_poll` set are those that the loops of
  `LpelStreamPoll()` have registered and not yet unregistered;
* `SetInv`: the stream set has every open stream once;
* `EntryInv`: `e_sem` counts the places left in a bounded stream.

`TailNotFreed` follows from `SemInv` alone, `PollReturnsData` from `TokenInv` and
`RegisteredInv`.  `WakeupMatchesWait` is what `HrcSched` assumes of its streams,
so the two proofs fit together.

### The mailbox

`MailboxProofs` is about the pointers of `mailbox.c`, for any finite memory,
any senders and any number of messages (`MailConst`, a hypothesis of both
theorems).

| Theorem | Statement |
|---|---|
| `Ownership` | every node is in the free list, in the inbox, or in one thread's hands; none is lost or used twice (`NodeOwnership`) |
| `QueueRefinement` | the two lists implement the FIFO queue `MsgQueue` (`ImplementsQueue`) |

The argument has three layers.  First, lists: `IsChain(q, nx, first, last)`
says that the sequence `q` is the list from `first` along `nx`, and `ChainIs`
that following the pointers finds just this sequence (by the least index at
which they could differ, since induction is not available).  Second, the
operations: `ChainRest`, `ChainBefore`, `InboxAfter` and `InboxRest` say that
the assignments of `GetFree`, `PutFree`, the insertion and the removal remove
the first node, put a node in front, put one behind the last, and remove the
first of a circular list.  Each needs that the node put in is not in the list
yet.  Third, therefore, the invariant: there are sequences `f` and `b` that are
the free list and the inbox, and they and the nodes in the hands of threads are
disjoint and are all that was allocated (`Lists`).  The refinement then
compares the messages along the list before and after a step; it uses that a
node is filled before it is inserted (`PcInv`) and that nobody writes a node of
the inbox (`Owned`).

### Wrapper contexts

`HrcWrapperProofs` proves `OneUser` (theorem `OneUserInv`) for any tasks, any
contexts and any threads that create wrapper tasks; the hypothesis `WrapConst`
is that `NULL` is no task.  That `getFreeWrapper()` hands a context out once is
the smaller part.  The larger one is that a context which comes back is really
left: a late message would make its thread take up a task that was destroyed.
The invariant therefore follows a context through its thread: a task that
exists has a context of its own whose thread is in its loop (`TaskInv`); the
thread runs that task and ends only when it has exited (`ThreadInv`); at most
one message is on the way to it, about this task, created or woken and not yet
received (`MailInv`), so none is left when it ends; contexts in the list have
ended threads (`FreeInv`); and no creation overlaps the clean-up (`CreateInv`).

### The binary semaphore

`BiSemaProofs` proves `OneHolder` for any tasks on any workers: the counter is
a bit, and the positions of the tasks are typed; `OneHolder` itself says that
a task is in exactly while the counter is 1.

### The SCC mailboxes

`SccMailboxProofs` proves, for any mailboxes, senders and sharing of
registers (`SccAssumption`): that locks exclude (`Exclusion`), that the
receiver's assertion holds (`AssertionHolds`), that nodes are neither lost nor
used twice (`NodesAreKept`), and that each mailbox implements `MsgQueue`
(`Refinement`, the property `ImplementsQueues`).  The invariant says who holds
a lock (`LockInv`), that what a holder has read is still true (`ReadInv`),
that a message seen without the lock stays (`PolledInv`), and where the nodes
are (`NodesInv`).  The refinement rests on `ReadInv`: a holder writes back a
list computed from what it has read.

### Only model-checked

* Liveness (`hrc_live`, `live`): out of reach of the provers used.
* `ImplementsSeq`, `ImplementsDeque`: rings and doubly linked lists with iterators
  that point into them; the lemmas of `MailboxProofs` are about singly
  linked lists.
* `PopsHighest`: the heap is reordered by a recursive operation, and what that
  computes for any size needs induction.
* `DemandDriven`: comparisons of fractions, which are nonlinear.
* `ImplementsFifo`, `NoDangling`, `NoSleepMissed`, `OneStack`, `FreedUnused`,
  `TaskCount` and `NoLostWakeup` of the DECEN back-end, `SoleInCritical`,
  `FreeStreamsUnused`, `EndsMatch`, `YieldsAtLimit`,
  `StatisticExact`, `NothingUnreported` and `PlacedWithin`: no inductive
  invariant has been worked out for them.

## 5. Plan

1. A proof of `TaskCount` and `NoLostWakeup` for `DecenWorker` from the places
   of its tasks, as in `HrcSchedPlaces`, and of `NoSleepMissed` for
   `DecenStream` along the lines of `HrcStreamProofs`.
2. `HrcStream` with several streams and `HrcSched` in one model, in place of
   the abstraction by `waiter`.

## 6. Not modelled

* Context switching (`ctx/`): assembly; its effect is that a task or its
  worker runs.
* `mutex.c`: no makefile names it, and it includes a header that does not
  exist.
* Of the SCC port, the set-up of cores and shared memory, which rests on a
  library that is not in the repository.
* SPMD requests after `LpelStop()`: a worker that has left its loop takes part
  in no barrier, and nothing in the code prevents it.
* The text that monitoring writes, user events; logging and debug output
  everywhere; the conversions and the average of `timing.c`.
* The random priority function (number 13).
* Fields that are only stored and returned: user data, monitoring handles.
* `archive/`: old code that is not built.
* Memory exhaustion: the code does not check allocations.
* Weak memory order: stores become visible in program order, as the barriers
  in `LpelBufferPut` and the locks and atomics elsewhere intend.
