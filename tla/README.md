# Verification of message_us

TLA+ models of the concurrent core of message_us, checked with TLC and, where it
pays, proved with TLAPS. Paths are relative to the repository root
(`spsc_bus/`, `timer/`, `tcp_server/`, `memory_pool/`, `common/`).
`PROJECT.json` holds the exact correspondence between definitions and source
lines, the list of hazards, and one mutant per property: a plausible bug in the
code under which TLC finds the property violated.

## 1. The system

message_us is a collection of small low-latency components. They share no
process-wide state; each is used through its own classes.

| Component | State | Operations | Interacts through |
|---|---|---|---|
| SPSC ring: `Producer`, `Consumer` (`spsc_bus/spsc_bus.hpp`) | `ControlBlock` (positions, pids), slots; private `write_pos_`, `read_cache_`, `read_pos_`, `write_cache_` | `try_push`, `push`, `push_checked`, `try_pop`, `pop`, `pop_checked`, peer status, constructors | shared memory of two processes |
| Lossy ring: `OverwriteProducer`, `Consumer::try_pop_lossy` | the same, and `SlotHeader::generation` as a seqlock | `push`, `try_pop_lossy` | shared memory, no back-pressure |
| `SharedBus` | the POSIX segment, its name, `magic`, `session_id` | `create`, `open`, `unlink`, close | `shm_open`/`ftruncate`/`mmap`, spin on the magic word |
| `Notifier` | an eventfd's counter | `notify`, `wait`, `wait_for_ms` | beside the ring: push then notify, wait then pop |
| Layout helpers | none | `compute_slot_stride`, `compute_shm_size`, `make_session_id` | `SharedBus::create` |
| `TimerWheel` (`timer/`) | `jiffies_`, four levels of slot lists, location map | `schedule`, `schedule_periodic`, `cancel`, `tick`, `advance` | callbacks that call the API again |
| `EpollTimer` (`timer/`) | heap with lazy deletion, `active_`, a timerfd, `running_` | `schedule`, `schedule_periodic`, `cancel`, `run`, `run_once`, `stop` | timerfd/epoll, callbacks, `stop()` from a signal handler |
| `ThreadPool` (`tcp_server/`) | `tasks_`, `stop_`, workers, mutex and condition variable | `submit`, `shutdown`, `worker_loop` | threads; used by `TcpServer` |
| `TcpServer`, framing, `TcpClient` (`tcp_server/`) | listening socket, stop pipe, pool; sockets | `run` (accept loop), `stop`, `handle_connection`, destructor; `send_request` … `recv_response`; `send`, `recv` | sockets, a stop pipe, `ThreadPool` |
| `MemoryPool`, `SPSCFreeList`, `ThreadLocalCache`, `SlabPool` (`memory_pool/`) | `wp_`, `rp_`, `slots_`, counters; the cache's stack; one pool per size class | `alloc`, `free`, `flush_all` | two threads over the free list, or one thread through its cache |
| `TscClock` (`common/tsc_clock.hpp`) | the correlated TSC and wall-clock pair | calibration, `recalibrate`, conversions | concurrent readers |

What is hard in them:

- **Interleaving without locks.** The ring decides on cached copies of the other
  side's position, the lossy ring reads slots that are being written, the
  notifier collapses notifications, the pool notifies after it has unlocked.
- **Crashes.** The bus is meant to survive the death of either process at any
  instruction: in the middle of a copy, between two stores of `create()`.
- **Re-entrancy.** Timer callbacks schedule and cancel while a slot or a heap is
  being drained.
- **Something must happen.** Blocking calls return, every message and timer is
  served, `open()` meets its deadline, `shutdown()` and `stop()` take effect.
- **Calls that block on the other side.** A connection holds a worker for its
  whole life, the destructor joins workers, `send` has no timeout.
- **Edges.** Messages of size 0 and oversized ones, buffers shorter than a message, delays
  of 0, level boundaries and delays beyond the wheel, stale heap entries.

`PROJECT.json` lists these under `hazards`, each at the line where it bites.

## 2. Modules

| Module | Models | Notes |
|---|---|---|
| `BoundedFifo` | what the ring promises: a queue of at most `Capacity` messages | abstract specification |
| `SpscRing` | `Producer` and `Consumer` over one control block | implements `BoundedFifo` through `Queue` |
| `SpscRingProofs` | theorems about `SpscRing` | TLAPS |
| `LossyRing` | `OverwriteProducer::push` and `Consumer::try_pop_lossy` | seqlock, two store orders |
| `MCLossyRing` | `LossyRing` with its stores in order and a history variable | for TLC |
| `LossyRingProofs` | theorems about `LossyRing` | TLAPS |
| `SharedBus` | `create`, `open`, `unlink` | POSIX segments |
| `SharedBusProofs` | theorems about `SharedBus` | TLAPS |
| `Notifier` | `Notifier` composed with the ring's abstraction (`EXTENDS BoundedFifo`) | uses `BoundedFifo` in the place of the ring, which refines it |
| `TimerWheel` | `TimerWheel` with re-entrant callbacks | numbers of slots are parameters |
| `EpollTimer` | `EpollTimer` with its timerfd | time is a counter |
| `EventLoopProofs` | theorems about `Notifier` and `EpollTimer` | TLAPS |
| `TaskPool` | what the thread pool promises its user | abstract specification |
| `ThreadPool` | `ThreadPool` with spurious wake-ups and tasks that submit | implements `TaskPool` |
| `ThreadPoolProofs` | theorems about `ThreadPool`, the refinement among them | TLAPS |
| `Framing` | the length-prefixed frames of `protocol.cpp` over bounded streams | no behaviour of its own; used by `TcpServer` |
| `TcpServer` | `TcpServer`, `TcpClient` and their connections (`EXTENDS Framing, TaskPool`) | uses `TaskPool` in the place of the pool, which implements it |
| `TcpServerProofs` | theorems about `TcpServer` | TLAPS |
| `MCTcpServer` | `TcpServer` with the number of requests per client, and a client that goes on asking | for TLC |
| `TscClock` | `TscClock`: calibration, correlation, concurrent conversion | time is a counter |
| `MCTime` | `TimerWheel` and `TscClock`, one or the other in a behaviour | for TLC |
| `TimeProofs` | theorems about `TimerWheel` and `TscClock` | TLAPS |
| `MemoryPool` | `MemoryPool` over `SPSCFreeList`, used by two threads or through a `ThreadLocalCache` | one behaviour per use, chosen in `Init` |
| `MemoryPoolProofs` | theorems about `MemoryPool` | TLAPS |
| `Sizes` | `align_up`, `next_pow2`, `size_to_class`, the routing of `SlabPool`, the layout of the bus's segment | operators on short words and their reference definitions; TLC only |
| `MCMemoryPool` | `MemoryPool` together with `Sizes` | for TLC |

### How state and actions correspond to the code

**SpscRing.** One step per access to shared memory. `p_write_pos`, `read_cache`,
`c_read_pos`, `write_cache` are the private members; `write_pos`, `read_pos`,
`producer_pid`, `consumer_pid` the control block. A call of `try_push` runs
`PushCall, PushCheck, [PushReload], PushSize, PushBody, PushPublish`; `push` and
`push_checked` are the same steps with the loop of `PushRejected`. `try_pop` runs
`PopCall, PopCheck, [PopReload], PopSize, PopCopy, PopRelease`. An acquire load
of the other side's position may return any value between the last one seen and
the current one (`PushReload(seen)`, `PopReload(seen)`): release/acquire orders
the slot's contents, it does not make loads fresh. `PCrash` and `CCrash` end a
process between any two steps; `PLoad`/`PRegister` (`CLoad`/`CRegister`) are the
constructor of its successor. Positions are naturals: the code's 64-bit counters
do not wrap in any realistic run. A message is a size and a payload token.

**LossyRing.** A slot remembers for its size word and its payload *which* push
wrote them, so a torn read is a delivered message whose two parts differ.
`p_todo` holds the stores of the push that are not yet visible; the variable
`tso`, chosen once in `Init`, says whether the machine keeps the payload stores
behind the odd generation (x86) or not (ARM: the release store of the odd
generation does not order later stores); on the latter the consumer's reads of a
slot may also be satisfied as late as its release store of `read_pos`
(`PopReadLate`: an acquire load of the second generation holds back what follows
it, not what precedes it). `generation` is kept modulo
`GenModulus` (2^32 in the code).

**SharedBus.** `segments[s]` is what attached processes can see: the segment has
its size, the magic word, the configuration (identified by the session that
wrote it). `creators` counts the `create()` calls that opened the segment. A
failing `ftruncate` or `mmap` and the creator's death between two steps are
counted by `failures`. `O_TRUNC` of a later `create()` takes the size away from a
segment that is mapped; an `open()` that spins on its magic word then reads beyond
its end and is killed (`OpenFaults`).

**Notifier.** The eventfd's counter is exact. `wait_for_ms` is two system calls
(`PollReady`, `PollRead`). The producer and the consumer are the application's.
`Pattern = "drain"` is the consumer that calls `try_pop` until it returns 0. It
returns 0 when it finds the ring empty (`FoundEmpty`), by a `write_pos` that may
lack the messages pushed or announced since the last read of the eventfd
(`Unseen`; that read makes all earlier pushes known), and it returns 0 for a
message of size 0 (`ZeroSized`), which it has taken (`Take`); `cut` remembers that
the last drain ended so.

**TimerWheel.** `wheel` keeps the code's lists by place `<<level, slot>>`,
`entries` is the location map. `tick()` is cut at its swaps and loop iterations:
`tick` advances `jiffies_`; for each level whose boundary was crossed `Cascade`
swaps the level's slot into `local`, `Move` inserts its head again, `CascadeEnd`
goes on to the next level; `FireSlot` swaps out the slot of level 0, over which
`FireBegin`, the callback (any `schedule`, `cancel`) and `FireEnd` alternate;
`TickEnd` returns. Nothing runs between these steps but what a callback calls
(`Callable`). `cancel` of a timer that sits in the swapped-out list unlinks the
node from that list, as `std::list` of the supported compilers does.

**EpollTimer.** The heap is a set of `[id, expiry]` pairs in which `IsTop` picks
a smallest one; equal expiries are served in any order. `armed` is the timerfd's
one-shot expiration. `pc` is the loop's position in `run`, `run_once` and
`drain_expired`.

**ThreadPool.** A critical section is one step; the `notify_one` after the
unlock, `notify_all`, the task and `join` are steps of their own. `owed` is the
set of tasks submitted before `stop_` was set, or by a running task. Under the
refinement mapping a worker between its `submit` and its `notify_one` is still
running its task, and the pool is gone when all workers have left; a task that
is queued when the last one leaves would break `TaskPool`'s `Leave`.

**Framing, TcpServer.** The unit of a stream is a field (length, id, type or
status, units of payload), and all units are numbers, so a reader that lost its
place would read an id as a length. `wire[e]` is what the kernel holds for end
`e`, at most `SockBuf` units; `out[e]` what is left of the frame being sent;
`got[e]` what was read of the current frame. `Send` and `Recv` are one turn of
the loops of `send_exact` and `recv_exact`; a field cut in two by the end of a
stream is a field that never came, since `recv_exact` hands out whole fields.
`Wait` takes a batch from `epoll_wait` (both descriptors level-triggered, in any
order), `Accept`, `AcceptFails` and `StopSeen` work through it. A connection
accepted is a task submitted; `Begin` is the worker that takes it. The ways out
of `handle_connection` are `ConnectionFails` (peer closed, malformed length),
`ReceiveTimesOut`, `Interrupted` (EINTR counts as a failure) and
`HandleOversized`. The destructor is `CloseListener` (its body), `ShutDownPool`
and `WorkersLeave` (the pool's destructor), `DestroyHandler`. A client may send
several requests before it receives, die at any point, and send a length that no
frame has; after a failed call it may close or, since the object stays usable, go
on (`ClientResumes`), in the middle of a frame if it has to (`reused`). An
oversized request fails before anything is sent and changes nothing. The
application calls the destructor only while no thread is in `run()`.

**TscClock.** `time` counts units of which the TSC counts one each, so the right
`ghz_` is 1; `CLOCK_REALTIME` is `time` plus an offset that NTP moves. Any time
may pass between two readings. The two atomics are kept as versions: a load
returns any version not older than what the acquire load of the other one has
made known (`behind`). One stamp is followed from `now_tsc` to its conversion.
For the properties a correlation also remembers how long its snap took (`width`)
and how far NTP moved the clock during it (`moved`): the mean of two readings is
off by up to half of both.

**MemoryPool.** In the pipeline use every access to the free list is a step and
the loads of the other thread's position may be old, but not older than what the
thread has seen or has learnt through the channel that brought it the block
(`channel` records carry the value of `rp_` at the time of sending). Under the
cache one thread makes all calls, so each call is one step that contains the
`pool_.alloc()` and `pool_.free()` calls of its batch.

**Sizes.** The code's bit operations on words of 12 bits in the place of 64 (and
of 32, for the stride and index of a slot); the reference definitions are "the
least multiple", "the least power of two", "the smallest class" and "slots do not
overlap".

## 3. Runs

Twelve runs: nine that pass, three that show a disagreement between the code
and what its own documentation says. The invariants named `Inv` contain the
module's type invariant and the named invariants in parentheses.

| Run | Module, config | Checks | Shows |
|---|---|---|---|
| `ring` | `SpscRing`, `MCSpscRing.cfg` | `TypeOK`, `NoSlotRace`, `Inv`, `ImplementsFifo`, `EveryMessageConsumed`, `PushReturns`, `CheckedCallsNoticeDeath` | the ring keeps its inductive invariant, its two `memcpy` never race, it is a bounded FIFO queue, messages are consumed and calls return, with stale loads and two crashes |
| `lossy` | `LossyRing`, `MCLossyRing.cfg` | `NoTornRead`, `Inv` (`NeverOlder`), `NeverBack`, `CatchesUp` | the seqlock delivers whole messages where the memory order and the absence of deaths in a push allow it, never an older one, and never goes back |
| `lossy_loss` | `MCLossyRing`, `MCLossyRing_loss.cfg` | `LossIsDetected` (violated) | with stores and loads in order and no death, a consumer that was lapped before its call began skips messages without `*overwritten` |
| `bus` | `SharedBus`, `MCSharedBus.cfg` | `NeverPartial`, `Inv` (`SpinsInBounds`), `OpenEnds` | the magic word protects the control block; `open()` with a limit returns, throws or is killed by a second `create()`, unless it spins for ever on a segment whose creator is gone |
| `bus_hang` | `SharedBus`, `MCSharedBus_hang.cfg` | `OpenIsBounded` (violated) | `open()` with a limit hangs if the creator died before the magic word |
| `notifier` | `Notifier`, `MCNotifier.cfg` | `NotifierTypeOK`, `NoLostWakeup`, `EveryMessageTaken` | draining after each wake-up loses nothing, unless a message of size 0 cuts a drain short and no notification follows |
| `time` | `MCTime`, `MCTime.cfg` | `FiresOnTime`, `Inv` (`LocationsExact`), `CancelIsFinal`; `CalibrationSpans`, `ConversionBounded` | wheel: exact firing through all levels with re-entrant callbacks; clock: the calibration spans its 50 ms across the end of a second, and a conversion during `recalibrate()` is never behind, and ahead by at most the time between the correlations it mixed |
| `epoll` | `EpollTimer`, `MCEpollTimer.cfg` | `Inv` (`WakesInTime`), `FiresWhenDue`, `NoBurst`, `EveryTimerServed`, `StopEndsRun` | the timerfd is always armed in time; catch-up neither bursts nor drifts |
| `pool` | `ThreadPool`, `MCThreadPool.cfg` | `Inv` (`NoStrandedTask`), `ImplementsPool`, `ShutdownReturns`, `OwedTasksRun` | every task runs once and in order, wake-ups are not lost, shutdown drains and returns |
| `server` | `MCTcpServer`, `MCTcpServer.cfg` | `Inv`, `FramesIntact`, `StopIsForGood`, `EveryConnectionEnds`, `DestructorReturns` | requests and answers arrive whole, in order and once; `stop()` is never lost; no worker outlives the handler; if clients let go of their workers (`ClientsLetGo`, below), every connection ends and the destructor returns |
| `clock_mixed` | `TscClock`, `MCTscClock_mixed.cfg` | `MixingIsHarmless` (violated) | a conversion between the two stores of `recalibrate()` is ahead by the whole time between two correlations |
| `blocks` | `MCMemoryPool`, `MCMemoryPool.cfg` | `Inv` (`OnePlace`), `FreeNeverFails`, `CountersExact`, `SizesRight` | blocks are never lost or handed out twice, `free()` never finds the list full, the counters agree with the list; the size arithmetic agrees with its definitions |

### Bounds, and why they are enough

- **ring**: 2 slots and 3 messages, so that a slot is used again and a push has
  to wait; sizes 0, the slot's limit, and one above it; a buffer of one byte, so
  that the clamp matters; two crashes, so that both sides may die, or one twice.
  One payload is enough for TLC, because positions tell messages apart; the
  safety properties are proved for all values (section 5).
- **lossy**: 2 slots and 5 pushes: a consumer can be lapped twice, and both the
  fast-forward and the resynchronisation happen. `GenModulus` 16 is larger than
  twice the number of writes to a slot, as 2^32 is in any realistic delay of the
  consumer inside one copy; a consumer that sleeps through exactly 2^31
  overwrites of one slot is out of scope.
- **bus**: three creations (the first, one over an existing name, one after
  `unlink`), two openings, two removals of the name, two failures.
- **notifier**: 6 pushes through 3 slots, so that notifications collapse and the
  producer also waits for a full ring; one message of size 0 and one other.
- **time**, the wheel: levels of 4, 2, 2 and 2 slots (one turn of the top level is 32 ticks);
  delays 0, 3, 4, 8, 15 and 33 are a clamped delay, both sides of the first
  boundary, later levels, and a delay beyond the whole wheel; two timers,
  periodic or not, so that one callback can cancel the other in the same slot.
- **epoll**: two timers of delays 0, 1 and 3 and five ticks of the clock: the
  loop may be late by several intervals, and a cancelled timer may be the top of
  the heap.
- **pool**: three workers, a client and three tasks, some submitted by tasks.
- **server**: one worker and two connections, so that one of them waits for the
  worker of the other; two requests of different lengths, so that a client can
  send both before it reads; socket buffers of one unit, so that every call can
  block between any two fields. The receive timeout is on. A client that has all
  its answers may forget them and ask again (`Forget`), so the number of requests
  is bounded at a time and not in a behaviour.
- **time**, the clock: seconds of 3 units and a spin of 2, so that the target is carried in
  some runs and not in others; 8 units of time, one adjustment by NTP and two
  correlations, one conversion. `clock_mixed` is the same clock without NTP. The
  two components share nothing, and a behaviour of `MCTime` is one of either.
- **blocks**: four blocks and six allocations in the pipeline, so that the list runs
  empty and its slots are reused; eight blocks, a stack of four and batches of two
  under the cache, so that the stack overflows, and ten blocks taken, so that a
  batch meets the end of the pool. Under the cache the application frees the
  block with the lowest number it holds (`FreedNext`); in the pipeline any.
  `Sizes`: all sizes up to 130 and the neighbourhoods of every later class
  boundary (256 to 2048, and 4096 and 8192 for the routing), the last word that can be
  rounded, and the largest message whose stride fits.

Deadlock is checked except where the system may really stop: `SharedBus`, when
all bounded calls have been made; `Notifier`, when the producer has made its last
push and the consumer sleeps; `TimerWheel`, at the last tick;
`MemoryPool`, when the application has made its last allocation; `TcpServer`,
when the server is destroyed and the clients are closed; `TscClock`, at the end
of time.

### Fairness

- Ring: a process inside a call keeps executing (both sides are spinning
  threads), and a store is not hidden from the other core for ever: a load
  that is repeated for ever returns the current value again and again (strong
  fairness of the fresh reload). That the consumer is restarted and keeps
  popping is a premise of the two properties that need it
  (`ConsumerKeepsPopping`), not of the specification.
- Lossy ring: a push that has begun ends, and the consumer polls on.
- Bus: `create` and `open` go on unless they crash, and the deadline passes.
- Notifier: a producer that has pushed also notifies; the consumer runs. Nobody has to
  push again, so a message behind a drain cut short may stay (`Overslept`).
- Epoll timer: the loop's thread runs, callbacks return, time passes, and the
  application calls `run()` or `run_once()` again after it has returned.
- Pool: worker threads are scheduled and tasks end. Nobody has to submit or shut
  down, and spurious wake-ups, though possible, are never relied on.
- Server: its threads run and the handler returns; a receive timeout expires;
  `accept4` does not fail for ever (strong fairness of `Accept`: descriptors
  come back). No signal has to come, and nobody has to call `stop()`, `run()` or
  the destructor. Of clients nothing is assumed: they are other programs, and may
  stop anywhere. What `EveryConnectionEnds` and `DestructorReturns` need of them
  is their premise `ClientsLetGo`: no worker waits for ever in a `send` that a
  client does not read, and every client at last stops asking. Without either half
  TLC finds a counterexample to both.

## 4. Findings

Kept as runs that TLC must refute:

1. `lossy_loss`: the lap check of `try_pop_lossy` (`spsc_bus/spsc_bus.hpp:490`)
   uses `write_cache_`, which is reloaded only when the consumer has read up to
   it. A consumer lapped since then returns later messages for earlier positions
   with `*overwritten` false; the comments at `:477` and `:584` say that loss is
   detected. TLC's trace: the consumer has cached position 2, the producer goes on
   to 3 through 2 slots, and the third message is delivered for position 0.
2. `bus_hang`: the spin on the magic word (`:309`) looks at no deadline; `:255`
   promises a throw after `timeout_ms`.
3. `clock_mixed`: between the two stores of `recalibrate()` (`tsc_clock.hpp:91-92`)
   a conversion adds the time since the old base to the new wall time, and is ahead
   by the whole time between the correlations, 1–5 s as it is used (`:82`); the comment at
   `:88-90` says "a tiny offset (<< 1µs)". `ConversionBounded`, in the run that
   passes, states the bound the code does keep.

Observations made while modelling. The models follow the code; there is no run for these.

- A blocking `push()` of a message longer than a slot is tried again for ever
  (`spsc_bus.hpp:396`); `DESIGN.md:160-161` calls it "silently rejected".
  `PushReturns` is therefore stated for messages that fit.
- A message of size 0 is consumed and reported as 0, which callers read as
  "empty" (`:472`, `:457`); `pop()` then goes on waiting. A drain beside a
  `Notifier` stops at it: what is behind stays in the ring until the next
  `notify()`, and if the ring is full by then the producer spins and never
  notifies. `NoLostWakeup` and `EveryMessageTaken` name this exception (`cut`,
  `Overslept`). `try_pop` returns the message's size also if it copied less.
- `NoTornRead` needs both of its conditions. A producer that dies between the odd
  and the even generation leaves the slot odd; its successor's next writes make
  it look committed while they are under way. And the release store of the odd
  generation (`:609`) does not keep the payload stores behind it on a weakly
  ordered machine, though `DESIGN.md:162` names ARM. A dead producer's odd slot
  also keeps the consumer from going on (hence `p_died` in `CatchesUp`).
- The resynchronisation (`:517`) goes to the newest position when `write_pos` is
  exactly `capacity`, skipping messages that are still intact.
- `create()` over an existing name empties the segment under attached consumers
  (`:207`, `:231`; `DESIGN.md:83-84`), and after `unlink` and `create` a consumer
  that polls `session_id` (`:349`; `DESIGN.md:217-219`) stays on the old segment
  and sees no restart. Until `ftruncate` has given the segment its size again
  (`:207-211`), any access through an older mapping is beyond its end and SIGBUS
  ends the process: `OpenFaults` for an `open()` in its spin; attached processes
  meet the same. `NeverPartial` is stated for segments created once.
- The usage example of `Notifier` (`:658-661`) pops once per wake-up, which leaves
  messages behind when notifications collapse; the comment on `wait()` (`:688`)
  asks for draining. `Notifier` has both (`Pattern`); the theorem and the run are
  about draining.
- A timer beyond the top level's range fires on time, because the cascade
  inserts it again; `timer/DESIGN.md:211` describes something else. A periodic
  timer cannot cancel itself in its own callback: it has left the map, `cancel`
  returns false and it is inserted again (`timer_wheel.hpp:201-208`,
  `epoll_timer.cpp:99-113`; `timer/DESIGN.md:13`).
- `FreeNeverFails` depends on the application: the hand-over of a block must order
  the freeing thread after the allocation (any queue with release/acquire does).
  Without that, `free()` may load an `rp_` from before the allocation and find the list full.
- `PoolStats::outstanding()` (`memory_pool.hpp:80`) loads two counters one after the
  other; a delayed reader can get a negative difference as a huge number, though
  the counters are never out of order (`CountersExact`).
- `ThreadPool::submit()` after `shutdown()` is accepted and never run
  (`thread_pool.hpp:28`); such tasks are not in `owed`. A pool of 0 workers never
  runs anything.
- `EpollTimer::run()` stores true into `running_` (`epoll_timer.cpp:195`) over a
  `stop()` that arrived between the call and that store; `timer/DESIGN.md:210`
  says that `run()` exits on its next iteration. `StopEndsRun` is about a `stop()`
  after the store. `TcpServer` has no such window: the byte stays in the pipe.
- `~TcpServer` is bounded by the receive timeout only for silent clients
  (`tcp_server.hpp:18`). `stop()` ends the accept loop and no connection, and a
  client keeps its worker for ever in two ways: it asks again within every receive
  timeout (`tcp_server.cpp:124-131`), or it does not read its answers, so that the
  worker waits in `send`, which has no timeout (`protocol.cpp:28`). Other
  connections then wait for a worker and the destructor for its join. The tests
  that stop a server with active clients (`tcp_server/tests/integration/test_error_injection.cpp:162`,
  `:197`) wait for `run()`, which `StopIsForGood` covers, and destroy the server
  after the clients have gone.
- Nobody reads the stop pipe, so a stopped server never runs again, and the
  65537th `stop()` would block. The accept loop is level-triggered; the plan in
  `tcp_server/PLAN.md` says edge-triggered.
- EINTR counts as a failure of the connection (`protocol.cpp:16`, `:29`).
  `TcpClient::connected()` stays true after a failed call (`tcp_client.hpp:20`);
  a program that goes on sends a frame behind part of another, or reads from the
  middle of one. `FramesIntact` is about connections that were not used so.
- A stamp older than the base of a `TscClock` wraps (`tsc_clock.hpp:70` subtracts unsigned numbers), and a thread suspended during the
  calibration gets a wrong `ghz_`, down to 0. `ConversionBounded` states these
  limits.
- `next_pow2` returns 0 above 2^63 (`memory_pool.hpp:61`); a `max_msg_size` above
  2^32 − 72 makes `slot_stride` wrap to 0 (`spsc_bus.hpp:234`).

## 5. Proofs

Checked by TLAPS for every value of the constants that satisfies the assumption
named in the component's module. These say what the code presupposes: at least
one slot and a positive slot size (`RingAssumption`), an even range of the
generation (`LossyAssumption`; 2^32 in the code), natural bounds
(`NotifierAssumption`, `BusAssumption`, `EpollAssumption`), finitely many workers
and at least one (`PoolAssumption`), a positive socket buffer
(`FramingAssumption`, `ServerAssumption`), at least one slot in each level of the
wheel (`WheelAssumption`; any delays), a spin of at most a second and times below
the modulus of the TSC (`ClockAssumption`; 2^64 in the code), at least two blocks and a stack of at
least two batches (`PoolSizes`: `MemoryPool`'s constructor rounds up to the one,
a `static_assert` of the cache requires the other). The bounds that
make the instances finite (numbers of calls, crashes, ticks) are arbitrary, and
with them the length of the behaviours.

Each module names an inductive invariant that contains the properties' own
invariants, was checked with TLC first, and is proved with one lemma per action.
What had to be added, and why, is the content of the argument:

**`SpscRingProofs`**: `InvHolds`, `TypeCorrect`, `SlotsAreRaceFree`,
`RingImplementsFifo`.

- `Inv == TypeOK /\ ProducerInv /\ ConsumerInv /\ RingInv`.
  `NoSlotRace` is not inductive by itself: that the two sides are on different
  slots follows from the distance of the *shared* positions, while each side
  checked a *cached* one. `ProducerInv` and `ConsumerInv` say that the private
  copy of one's own position is exact, that the copy of the other's position lags
  and never leads, and that a side inside its critical region has passed its
  check with that lagging copy; they also follow the message through the steps of
  the copy. `RingInv` bounds the distance of the positions by `Capacity` and says
  that each visible slot is a whole message. Then: a free slot by a lagging copy
  is free.
- `Spec => Fifo!FifoSpec` under the mapping `Queue`, the
  messages between the two shared positions. `PushPublish` maps to `Push`,
  `PopRelease` to `Pop`, every other step, crashes included, to a stutter. This
  is what justifies the use of `BoundedFifo` for the ring in `Notifier`.

**`LossyRingProofs`**: `LossyNeverOlder`, `LossyNeverBack`,
`SeqlockCatchesOverwrites`, `LossyNoTornRead`.

- `LossyInv == Inv /\ Positions /\ Payloads /\ Copied` holds on both memory
  models and after any death. `Payloads`: the body in a slot is the message of
  the position or a later one of the same slot, also under a half-finished push.
  `Copied`: a generation that differs from the one read first implies that
  `write_pos` is a whole ring ahead. That is what makes the resynchronisation to
  `write_pos - capacity` a step forward (`NeverBack`).
- `SeqlockInv` is the seqlock's own argument, for a machine that keeps the stores
  in order and no producer dead in a push. The producer's half (`Seqlock`): an even
  slot holds size and body of one message and the generation of its round, and only
  the slot of the push under way is odd. The consumer's half (`CopyChecked`): the
  first generation read belongs to some round `r`, and while the slot is still in
  that round what has been copied is what the slot holds. The second read shows
  the same generation only if the round is the same or differs by a multiple of
  `GenModulus / 2`.
- Hence `TornOnlyAfterWrap`, without any bound on the pushes: a torn delivery
  needs a producer `Capacity * GenModulus / 2` messages ahead of the consumer
  (2^31 rounds in the code). `LossyNoTornRead` states `NoTornRead` as the run
  checks it, under the hypothesis that fewer messages than that are pushed at all;
  the run's instance satisfies it, and so does any real run of the code in which
  the consumer does not sleep that long inside one copy.

**`SharedBusProofs`**: `BusCorrect`, `ControlBlockNeverPartial`.
`BusInv` adds to the types how far `create()` has brought its segment at each
control point (`CreateProgress`), that in a segment created once the magic word
is last (`MagicIsLast`), that `open()`'s findings about it do not go away
(`OpenProgress`), and that segments are numbered by creation, so that a new one
is untouched (`Numbering`). It follows that an `open()` is killed in its spin only
where a second `create()` has emptied the segment.

**`EventLoopProofs`**, the notifier: `NotifierTypeCorrect` (with `CounterInv`: the counter and a
notification under way never exceed the number of pushes);
`DrainingLosesNoWakeup`: for `Pattern = "drain"`, `NoLostWakeup` always holds, with
messages of size 0 in any place: the messages a drain may miss at its end are the
ones whose notifications are still to be read (`Unseen`), and the one drain that
leaves others is the one `cut` marks.

**`EventLoopProofs`**, the epoll timer: `EpollWakesInTime`, `EpollFiresWhenDue`, `EpollNoBurst`.
`WakesInTime` speaks of live timers, but `schedule()` compares with the heap's
top, which may be a cancelled one. `HeapOK` therefore says that the timerfd is
armed for no later than *every* entry, the stale ones included. `IdsOK` keeps an
id from being live twice, or live and cancelled, which `FiresWhenDue` needs.
`NoBurst` rests on a lemma about the catch-up formula (`CatchUp`): for every
interval and delay it yields the first point of the cadence after now.

**`TimeProofs`**, the wheel: `WheelInvariant`, `LocationsRight`, `FiringOnTime`,
`CancelFinal`, for every shape of the wheel and every set of delays.
`WheelInv == TypeOK /\ LocationsExact /\ TimingInv /\ LocalInv /\ PhaseInv`.

- `LocationsExact` needs little else (`insert` appends an id that is in no list,
  `cancel` erases from the list the map names or from the one swapped out), but it
  says nothing about *when* a slot is visited, and `FiresOnTime` looks
  at one instant only. What carries a timer through the levels is `TimingInv`: a
  pending timer is in the slot that its expiry selects at its level, and the visit
  of that slot is still ahead (`Placed`, `OnTime`). At level 0 the distance is less
  than one turn; above, the expiry's quotient by `Span(level)` is greater than that
  of the current tick, or equal while that cascade is still to come (`Due`). A
  level above 0 needs no upper bound: a slot visited a turn too early inserts the
  timer again, which is why delays beyond the top level fire on time.
- `LocalInv` and `PhaseInv` say the same of the list swapped out: what cascades is
  not overdue, what is fired is due now, the callback's timer has left the map and a
  cancelled one is gone.
- A tick raises a quotient by at most one, and only at a boundary (`NextQuotient`);
  a boundary of a level is one of every lower level, so the code's nested conditions
  miss no cascade; a timer that cascades at tick `j` with expiry `x >= j` is
  inserted below the level it came from or into a later slot.

**`TimeProofs`**, the clock: `ClockInvariant`, `CalibrationRight`,
`ConversionRight`, for every modulus and any number of recalibrations and
adjustments by NTP. `ClockInv` follows the calibration through its readings
(`CalInv`: the carried target lies `SpinTime` after `t0`), orders the correlations by
TSC (`SnapInv`), bounds the distance of each one from `CLOCK_REALTIME`, now and at
the stamp, by what happened in between (`NearInv`), and says which pairs of versions two
loads may return (`VersionInv`, `LoadInv`: the wall time is never older than the TSC
base it is combined with, because `recalibrate()` stores it first). The conversion
error is then the sum of the snap's, NTP's, the frequency's and the distance of the
two correlations. `Tolerance` counts what NTP does *within* a snap: without that
the bound is false as soon as it adjusts twice inside one, which the run's single
adjustment could not show and the proof did.

**`ThreadPoolProofs`**: `PoolStrandsNoTask`, `PoolKeepsItsPromise`.
`NoStrandedTask` is preserved by counting: a step that puts a task into the queue
also adds a notification on its way, and a worker that goes to sleep found the
queue empty. The refinement needs `OnePlace` as well (a task is queued once, or
with one worker, and workers leave only after `stop_`): two workers with the same
task would be one in `TaskPool`'s set `running`. The lemmas `Moved` and those
about the image of the running workers relate the two. Every step maps to one
step of `TaskPool` or to a stutter. This is what justifies the use of `TaskPool`
in `TcpServer`.

**`TcpServerProofs`**: `ServerCorrect`, `FramesStayIntact`.

- `ServerInv` has a part per piece of state: streams (a reader never goes beyond
  the frame whose length it accepted), clients, the accept loop (an event of a
  batch that has not been looked at is still true, since each descriptor is
  reported once, so `accept4` is never called on an empty backlog) and the
  service (an accepted connection is queued, served or closed; the workers are
  gone only when nothing is queued or running). The last is what makes the
  destruction of `handler_` safe.
- `FramesIntact` says nothing about what is in flight, so it is far from inductive.
  `FramesInv` looks at everything on its way to one end (`Coming`: read of the
  current frame, in the kernel's buffer, left to be sent) and says that it is
  `Framed`: it can be cut into the requests after the last one delivered, up to the
  last one sent or to a length no frame has; if the sender has closed, the end may be
  missing. A unit that is sent or received leaves `Coming` as it is; a new frame
  goes on at its end (`FramedRequest`, `FramedMalformed`), a close cuts it off
  (`FramedCut`), and a reader that finds its frame complete has exactly the next
  request in hand, because the length it trusted is that request's own
  (`FramedFirst`). `Turns` adds that a worker reads only when its answer has been
  sent and a client has nothing to send unless it is sending, so no frame is ever put
  behind half of another (this is where clients that go on after a failed call are
  left out); `Stages`, that a connection is in the backlog, in the queue
  or with one worker, so that no other task touches its socket.

**`MemoryPoolProofs`**: `BlocksHaveOnePlace`, `FreeAlwaysFits`, `CountersAgree`.
`FreeNeverFails` has to hold for every old value of `rp_` the freeing thread may
load. `NoDuplicates` therefore says that no block occurs twice even among the
positions taken since that thread last saw `rp_` (from `Oldest` on), and
`Freshness` that a block in the channel does not occur at or after the `rp_` it
carries, nor the block in `free()` anywhere from `Oldest` on. So the blocks from
`f_seen` to `wp` and the one in hand are different, and by the pigeonhole
principle (`Room`) there is a slot left; the same argument bounds the list and
the cache's stack together (`StackHasRoom`), which is why a batch given back
overwrites nothing. `Partition` names the one place of every block. The steps of
the cache are proved for any block the application frees, not only for the one
`FreedNext` picks.

**Only model-checked**, and why:

- all liveness properties (`EveryMessageConsumed`, `PushReturns`,
  `CheckedCallsNoticeDeath`, `CatchesUp`, `OpenEnds`, `EveryMessageTaken`,
  `EveryTimerServed`, `StopEndsRun`, `ShutdownReturns`, `OwedTasksRun`,
  `StopIsForGood`, `EveryConnectionEnds`, `DestructorReturns`): fairness is beyond
  the prover;
- `SizesRight`: the bit operators of `Sizes` are recursive.

## 6. Not modelled

- `SharedBus` huge pages, `mlock`, prefaulting and CPU pinning: performance only.
- Peer-status pid reuse: `kill(pid, 0)` is modelled as exact for the registered
  process.
- `Stats` counters, logging and printing; the demos, benchmarks and the skeleton
  header of the TCP part: no state of interest.
- `make_session_id()` (a mixture of clock and pid; a fresh number in `SharedBus`),
  `heartbeat()` (a time stamp nobody reads), `delta_ns()` (a division).
- Failing constructors of `TcpServer` and `TcpClient` (they throw and leave
  nothing behind that could run), `epoll_create1` failing in `run()`
  (`tcp_server.cpp:75-76`: it throws and has changed nothing), and `epoll_wait` failing for a reason other
  than EINTR, which valid descriptors exclude.
- What happens to a process attached to a segment that another `create()` empties.
- The mapping and pinning of a `MemoryPool`'s memory.

## 7. Plan

Done: all components of section 1 modelled and checked; every safety property of
the passing runs but `SizesRight` proved, with both refinements. What is left is
beyond the prover (section 5). A next step would be in the code: the disagreements
of section 4, with the three runs kept to show when they are gone.

## 8. Running

    tlc -workers 2 -config MCSpscRing.cfg SpscRing
    tlc -workers 2 -config MCTcpServer.cfg MCTcpServer    (likewise for the others)
    tlapm SpscRingProofs.tla                              (likewise for the other *Proofs)

All proofs together take about eight minutes.
