# smart_camera in TLA+

TLA+ models of the inspection camera program in `src/`, TLC runs on small
instances, and theorems checked by TLAPS for every instance.  `PROJECT.json`
maps each definition to the lines it stands for and lists components, runs,
mutants, findings, hazards and theorems.

## The system

The program runs on one SoC.  An FPGA triggers one or two cameras for each
sample on a conveyor; a picture comes in through V4L2, one of two DSPs judges
it, the verdict goes to the *reject process* (which drives the ejectors) over a
local socket, and pictures and results go to a PC over TCP and to a UI process
over a local TCP socket.  It is one process with about twenty POSIX threads.

| component | state it keeps | operations | talks to | hard part |
|---|---|---|---|---|
| DSP pool, `image/dsp.c`, `dsp_context.c` | `idle_list`, `busy_list`, a condition variable; per DSP the job pointer and a semaphore | `dsp_factory_produce`, `_recycle`, `_rectify`, the two DSP threads, `dsps_update_params_tsk` | capture and simulation (mailbox), parameter setters (mapped file, semaphore), pipeline (release) | two waiters on one condition variable; a DSP that fails; parameters changing under way |
| sample pipeline, `image/video_context.c`, `sample_factory.c` | pool of 32 `SampleImageGroup`, V4L2 buffers with `r_count`, three mailboxes, `g_img_not_process` | capture, simulate, process, show, send, `video_context_release` | everything | who gives which reference back, over six threads and two mode settings |
| message pool, `tool/msg_factory.c`, `mailbox.c`, `message.c` | 128 messages in a list; POSIX message queues | produce, post, pend, recycle (calls the release functions) | every component | exhaustion; callbacks under the lock |
| network, `net/` | `g_conn_state`, image and sample abilities, send queue | connect, receive and dispatch, send, program update | pipeline, configuration, LVDS | breaking and making the link while three threads use it; partial sends |
| reject link and reset, `reject/`, `sc_system_reset` | connection, ring of results, `g_sys_reset_flag`, reply semaphore | send result, reset and wait for the reply | network and UI receive threads | lost command or reply; two resets at once |
| UI link, `interface/ui_*` | connection, `g_ui_img_ability`, send queue | connect, receive commands, send pictures | pipeline, configuration | a message holds a reference to a picture |
| configuration, `app/sys_conf.c` | modes, delays, algorithm parameters | setters and getters, key file | all | values change while samples are in flight |
| FPGA, `fpga/fpga.c` | registers, `sample_count_sum` | register access, interrupt thread `sig_handler` | pipeline, reject link | unlocked read-modify-write; overclocked samples |
| sample numbering, `sample_count.c` | `count_array[16]`, `sample_count_shoot`, `_sum` | record, look up, reset | capture, interrupt thread, reset | three writers without a lock |
| camera commands, `lvds/`, `buf_factory.c` | 128 buffers, two mailboxes | forward a command, read the answer | network | every path must return the buffer |
| program update, `net_protocol.c`, `tool/epcs.c` | an open stream and a progress record, both static; the FPGA's flash | take a unit of a file, close and burn | network | an upload given up half way; power lost; a busy flash |
| statistics, LED, log, USB disk, CRC, shared memory | device state | periodic reports and device access | message pool (`query_temp`) | sequential; only the use of the pool is modelled |

What makes each component correct: a DSP, a message, a buffer and a group have
one owner (or as many as are counted) and return to their pool exactly once; a
sample gets one verdict; parameters and modes take effect once and as a whole;
no thread waits for something nobody will do.

## Modules

| module | what it is |
|---|---|
| `DspFactory` | the pool of two DSPs, all threads that use it, the parameter update |
| `SampleService`, `DspService` | what the pool promises to the rest of the program; the mapping under which `DspFactory` implements it |
| `DspFactoryProofs`, `DspServiceProofs` | the theorems about `DspFactory`; that it implements `SampleService` |
| `ListFacts` | lemmas on lists: appending, taking, inserting, counting |
| `SamplePipeline` | the way of a picture with one camera: pools, reference counts, mailboxes, modes |
| `SamplePipelineProofs` | the theorems about `SamplePipeline` |
| `TwoCameras` | samples of two pictures: the three steps of `video_context_release` |
| `MessagePool` | `msg_factory.c`, `buf_factory.c`, `mailbox.c` |
| `Uplink` | sample and picture reports, the other uploads, the two send threads |
| `CameraLink` | commands to the cameras over LVDS and their answers |
| `RejectLink` | the local socket to the reject process, results, system resets |
| `SampleNumbers` | the number of a sample, from capture, interrupt and reset |
| `Messages` | composes the six above from `TwoCameras` on |
| `RejectProofs`, `UplinkProofs`, `MessagesProofs` | the theorems about `Messages`: the local socket; pools and uploads; numbers, samples of two cameras, answers of the cameras and the types |
| `NetLink` | the TCP connection to the PC, kept by two threads |
| `SysConf` | the settings, in memory, key file, registers and on the medium |
| `ProgramUpdate` | program files in units, and burning the FPGA's flash |
| `Commands` | composes the three above: the link, the handlers it runs, restarts |
| `CommandsProofs` | the theorems about `Commands` |
| `MCDspFactory`, `MCSamplePipeline`, `MCMessages`, `MCCommands` | instances for the runs |

`Messages` and `Commands` are compositions of components that share state:
`Messages` the pool of messages and the mailboxes, `Commands` the one thread that
receives frames and runs their handlers.  Each chooses at the start what the
behaviour is about (`work`), because the product of all components with each
other is too large; components that meet in the code only through the pool meet
in the model through `free`, which other users may empty at any time.

Definitions whose name extends that of another one (`DspFactoryProducePeek`,
`CaptureRequestTwo`, ...) are faulty variants, listed under "mutants": each
stands for a plausible mistake, and the property it is listed with fails when it
takes the place of the original.

### DspFactory

| variables | code |
|---|---|
| `idle_list`, `busy_list`, `cond_wait` | the two lists under `mutex_dsp_list`; the threads inside `pthread_cond_wait` |
| `sample_image_group`, `sem_img_ready` | `pArgsInfo->sample_image_group` and the semaphore of each `struct DSP` |
| `dsp_params`, `algo_params` | which parameter set (numbered by arrival) the codec and the mapped file hold |
| `freed`, `halted` | the struct was freed by `disconnect_from_dspN`; the process died of using it |
| `mbx_dsp`, `g_img_not_process`, `cap_*`, `offered` | the DSP mailbox, the pending counter, `image_capture_tsk` inside its critical section, samples accepted and not reported |
| `proc_*`, `dsp_pc`, `upd_*` | where `image_process_tsk`, the DSP threads and `dsps_update_params_tsk` are, and their local pointers |
| `copying`, `clash`, `updates`, `sem_params_update`, `update` | `sc_set_algo_params` between the start and the end of its `memcpy`, the update semaphore, `g_algo_params_config.update` |

One action is what a thread does between two points at which another thread can
tell the difference.  A `memcpy` into the mapped file has a beginning and an end:
a reader in between gets `Partial`, and two copies that overlap may leave a
mixture.  A failed DSP call leads to `DspReset`, where the struct is freed;
`malloc` may hand out the same block again, or the old one stays dangling and
any use of it may work or kill the process (`UseAfterFree`).

Not in this module: results and pictures, the two seconds of a DSP restart, and
what happens to a refused sample (that is in `SamplePipeline`).

### SamplePipeline

`ReleaseTimes(g, n)` is `video_context_release`, `n` times; `idle_groups` is the
list of `sample_factory.c`; `driver` the set of buffers queued to V4L2, any of
which may be the next one filled.  `pc` and `holds` give for each thread with
more than one step where it is and its local group pointer.  The show, send and
UI threads take a message and act on it in one action: no mailbox is ever full,
so nobody can tell the difference.  `DspTake` stands for `image_process_tsk` and
the pool, which are `DspFactory`'s; `CaptureJudge` may refuse at any time, as the
code does whenever an update runs.

`Owed(g)` says how many releases of group `g` are still to come, from where its
pointers are.  It is the promise the code makes by its mode tests, written down
in one place, and `RefCountExact` compares it with `r_count`.

The constant `Enabled` says which inputs occur (list at its declaration).  Two of
them, `sim` and `switch`, are restricted: the next simulated picture comes when
the last is done with, and a mode changes when nothing is in flight.  The code
enforces neither; `simOverlap` and `switchBusy` lift them.

Abstracted: the kick position and the verdict (judge modes 1 to 3 differ in
nothing else), the choice between sending and dropping a network message (both
release once), sample numbers, a second camera.  A mode is read once per
decision; an unoptimised build reads it once per comparison.  With the sample
pool empty `sample_factory_produce` would keep its mutex; the action is simply
not enabled then, and `PoolNeverEmpty` says that this is never the case.

### TwoCameras

With two cameras `video_context_release` (`video_context.c:95-165`) takes three
steps: each picture under its own mutex, then a test of both counts under none.
`releasing[r]` is where thread `r` is in them, `owed[r]` what it has still to
release.  `PairForget` is the reset path of `video_context.c:295`, with a delay
between the cameras: the group is not given back, and the bound `MaxForgotten`
limits how often.  The ghost `raced` records the two ways in which the unlocked
test goes wrong; see the observations below.

### MessagePool, Uplink, CameraLink, RejectLink, SampleNumbers

A pool is the number of its free elements, a mailbox a sequence ordered by
priority.  Producing and posting a message with nothing in between that another
thread could notice is one action (`Posted`); where there is something (the copy
into a ring, the index that moves on, a flag), there are several.

| variables | code |
|---|---|
| `free`, `bufs`, `box` | the lists of `msg_factory.c` and `buf_factory.c`; the POSIX queues |
| `sample_send_process`, `g_sample_ability`, `sample_info_array`, `_index`, `reports` | the ring of sample reports and the threads in `NET_UL(0x45530101)` |
| `g_img_ability`, `g_net_send_img_buf`, `picture` | the picture buffer and `image_send_tsk` in `NET_UL(0x45530102)` |
| `sending`, `local_msg` | the message a send thread has taken out of its mailbox |
| `lvds`, `due`, `rxfifo`, `protocol`, `protocolindex` | the camera threads, the cameras, the FIFOs, `cam1_protocol` and its index |
| `backlog`, `peer`, `toReject`, `answers`, `alive` | the kernel's side of the local connection, and the reject process (external) |
| `connect_status`, `sem_connect`, `greet`, `local_recv` | the three threads of `local_socket.c` |
| `g_sys_reset_flag`, `resetting`, `sem_reject_reset` | `sc_system_reset` in two threads |
| `judging`, `sample_result`, `sample_result_index` | the ring of results and the threads that fill it in |
| `triggers`, `frames`, `overclocked`, `capture`, `zeroing` | the FPGA's counter, pictures and interrupts on their way, the threads that number |

A message whose producer does not test for `NULL` leads to `halted` when the
pool is empty (`UploadFaults`, `CommandFaults`, `AnswerFaults`, `LocalFaults`):
the process dies of the write through `NULL`.

Several properties hold up to a ghost variable that names when the code's own
argument does not apply: `overlap` (two threads report samples at once),
`overrun` (the ring of results has come round), `twoResets`, `lostResets`,
`lost` (reports given up for want of a message), `raced`, `excused`.  Each of
them is reachable, and with the ghost left out of the property TLC finds the
counterexample; they are listed as observations.

### NetLink, SysConf, ProgramUpdate

A socket is a number that the kernel uses again once it is closed; `fd` is what
`g_tcp_client_fd` names, and a call of `recv` keeps the socket it was made on
(`recv_sock`).  `client_break_socket` closes what `fd` names at that moment and
then clears the flag, in two steps.  A handler runs between `ReceiveFrame` and
`HandlerReturns`, and the link may break and be made again meanwhile
(`overtaken`).

Every setting of `SysConf` exists up to five times: in memory, in the `GKeyFile`,
in `system.conf` as the kernel sees it and as the medium has it, and in the
registers of the FPGA, which keep their state when only the process restarts.
`FUNCSLT`, which several setters change, is the set of its bits that are 1, and
the four functions that change it are applied in the code's order.  Two of its
bits do not follow from the settings; the ghost `kicked` is what they follow from
(see the observations).  Registers
that are 16 bits wide lose the rest (`Low16`, `Halves`).

In `ProgramUpdate` a file is a sequence of units, the stream and the progress
record are static, and an upload that is given up leaves them as they are.
`file` and `stored` are the file in the running kernel and on the medium: `fsync`
comes before `fclose`, so that the end of the file, still in the stream's buffer,
is not covered.  The flash ignores a command while it is busy.

### The service of the DSP pool

`SampleService` has two variables: the samples that wait and those at work, each
with the parameters it is judged with.  `DspService` reads them off the state of
`DspFactory`: a sample waits from its post until `image_process_tsk`, with a DSP
in hand, has taken it off the counter; it is at work until `VIDDEC2_process`
returns.  `ProvidesService` says that every step of the pool is a step of the
service or none of it: first come, first served; at most three wait and two are
at work; none is lost or doubled; and no parameters change under a DSP at work.

## Runs

| run | bounds | checks | result |
|---|---|---|---|
| `dsp_safety` | 4 groups, 2 setters, 2 updates, counter modulo 8 | `OneHolder`, `SampleOnce`, `ParamsCurrent`, `PendingExact`, `JobStable`, `ProvidesService`, no deadlock | holds |
| `dsp_faults` | 3 groups, 1 setter, 1 update, modulo 4, simulation and DSP failures | `TypeOK`, `OneHolder`, `SampleOnce` | holds |
| `dsp_liveness` | 2 groups, 1 setter, 2 updates, fair threads | `UpdateTakesEffect`, `SampleProcessed` | holds |
| `dsp_sim` | 2 groups, simulation | `RefusalJustified` | **violated** |
| `dsp_reset` | 2 groups, DSP failures | `FactoryHoldsLiveDsps` | **violated** |
| `pipe_frames` | 3 groups, 2 buffers, 2 DSPs, send modes 0, 1, judge modes 0, 1, UI coming and going, fair threads | `RefCountExact`, `BufferAccounted`, `FrameReturned`, no deadlock | holds |
| `pipe_mixed` | 5 groups, 1 buffer, 2 DSPs, send modes 0, 2, judge modes 0, 4, simulated, missed and reset samples, orderly mode changes | `TypeOK`, `NoUseAfterRelease`, `PoolNeverEmpty`, no deadlock | holds |
| `pipe_refuse` | send mode 2, judge mode 0 | `RefCountExact` | **violated** |
| `pipe_switch` | send mode changing between 0 and 2 at any time | `NoUseAfterRelease` | **violated** |
| `commands` | 3 sockets, 3 failures of the network or 3 uploads, 1 restart or loss of power, numbers 0 and 65543, 6 function settings, files of 1 and 2 units, a flash of 2 pages, fair threads | `TypeOK`, `ConnectsItsSocket`, `LinkAgrees`, `FunctionBitsAgree`, `RegistersFollowMemory`, `DurableConfig`, `CompleteIsWhole`, `CompleteIsStored`, `BurnComplete`, `BackOnLine` | holds |
| `messages` | 3 messages, 2 buffers, rings of 2, 3 samples, pictures, results and commands, 2 resets, 2 starts of the reject process, 5 triggers, 3 samples of two cameras, fair threads | `TypeOK`, `PoolsAccounted`, `ClaimsExact`, `UploadsIntact`, `AnswersInOrder`, `OneRejectConnection`, `ResetAccounted`, `ResultIntact`, `LateOncePerJudge`, `NumberIsTrigger`, `GroupsAccounted`, `AbilityReturns`, `ResetReturns` | holds |
| `link_stuck` | 3 sockets, 3 failures, fair threads | `LinkReturns` | **violated** |

Why the bounds are enough.  Four groups fill both DSPs, the hand of
`image_process_tsk` and the mailbox, so every refusal and wait happens; the
pending counter reaches its limit of three.  Two updates with two setters cover
copies that overlap, an update during an update and a semaphore count of two.  The
counter wraps at 4 in `dsp_faults`, which is the smallest modulus that keeps the
limit test meaningful.  In `pipe_frames` two buffers put one frame behind another
in each mailbox, and three groups are what capture can use with two buffers; in
`pipe_mixed` five groups are one more than can be in use at once: one per buffer,
one in the hand of capture, one of the interrupt thread, one simulated.  The
program has 32 groups for 17 buffers.

In `commands` three sockets are one more than the program can have open, so that a
closed number is always used again; three failures let the link break, be made,
and break again while `net_recv_tsk` is still in a handler.  65543 is 2^16 + 7, a
number that is too wide for a register and sets low bits; the six function
settings have every value of each field and every pair of kick mode and second
station that matters.  Files of one and two units with a flash of two pages are
shorter than the flash and as long; three uploads let one be given up, another go
on in its stream, and a third begin anew.

In `messages` three messages can be exhausted by two threads and a send thread,
which is what 128 messages are to a program whose PC does not read; a ring of two
comes round with three samples.  Two starts of the reject process are a death
with a connection in the backlog; two resets by two callers are all the overlap
there is.  Numbers need three entries in `count_array` for two that are valid and
one that is overwritten.  Three groups and one buffer for each camera make a
group meet its buffers' next use.

"No deadlock" in `dsp_safety`, `pipe_frames` and `pipe_mixed` says little: an input
(a sample to offer, a mode to change, a UI to start) is a step too, and is enabled
in nearly every state, so that threads which wait for each other would not be
found by it.  What shows that they go on are the liveness properties.
`dsp_faults` turns deadlock checking off because a process killed by a use of
freed memory stops, `commands` and `messages` because they end when the bounded
inputs are used up; the violation runs do so as well.

### Fairness

`DspFactory!Fairness`: each thread that can run is scheduled, and
`VIDDEC2_process` returns.  Threads are created with real-time priorities and
block only in the calls that are modelled as guards.  Nothing makes a sample, an
update or a simulated picture arrive.  Weak fairness is enough although two
threads compete for one condition variable, because `update` keeps new samples
away while the update thread waits; with simulation enabled that argument fails
and so does `UpdateTakesEffect`.

`SamplePipeline!Fairness`: capture goes on once it has a frame, the show, send
and UI threads empty their mailboxes (a send to the UI times out after a second,
`ui_socket.c:49`), the DSP threads work.  No fairness for frames, the UI process
or the operator.

`Commands!Fairness` and `NetLink!LinkFairness`: the two threads of the link and a
handler that has begun go on, the flash finishes, and a cable that is out is put
in again; without the last no link could return.  Nothing makes the PC send, the
network fail or the process restart.

`Messages!Fairness`: `net_send_tsk` goes on (a `send` returns in the end), and so
do the threads that have begun a report, those that have begun a reset and the
three of the local socket; of each such group it is enough that one that can run
does, for what they can do is bounded.  The reject process reads as long as it
lives.  Nothing makes a sample, a command or a reset happen,
and nothing starts the reject process; that is why `ResetReturns` has
`lostResets`.

## Findings

1. `image_process_tsk` takes simulated samples off a counter they were never
   added to; it wraps, and camera samples are refused with nothing pending
   (`dsp_sim`).
2. After a failed DSP call the pool continues with a freed `struct DSP`
   (`dsp_reset`).
3. In send mode 2 a refused sample keeps a reference; each refusal costs the
   camera one buffer (`pipe_refuse`).
4. A change of the send mode while a sample is in flight adds or drops a
   reference; the picture may go back to the camera while it is in use
   (`pipe_switch`).
5. The link to the PC need not come back: `net_recv_tsk`, returning from a handler
   while `net_connect_tsk` has just created the next socket, closes that one,
   and `connect` is called on the closed descriptor for ever (`link_stuck`).
   `BackOnLine` shows that without such an overtaking it does come back.

### Observations

Behaviour of the code that the passing runs exclude by name, or that a module
shows without a property that forbids it:

* A frame dropped in a reset is released before `image_source` is assigned
  (`video_context.c:333-341`, 384), with the value of the group's last use; after
  an overclocked sample the buffer is not requeued and lost to the camera.
  `BufferAccounted` fails on `SamplePipeline` with the inputs `reset` and
  `overclock`.
* Two cameras: two threads that both reach the last test after the last release
  both recycle the group; and if a count of the group's buffers has been set to 3
  for the next sample before the test, nobody does (`raced`).  A reset between
  the two pictures forgets the group (`forgotten`).
* A sample report that finds no message keeps its claim; after 32 of them none is
  reported any more (`lost`).
* Two threads that report samples at once can share an entry of
  `sample_info_array` or step past its end (`overlap`).
* The ring of 64 results is shorter than the pool of 128 messages (`overrun`).
* Two resets at once share the flag; a reset whose command or answer is lost with
  the connection never ends, and its thread reads no further command.
* The numbers of samples can be wrong in the orders that `NumberIsTrigger` lists.
  One of them is short: two pictures are shot, a third sample is overclocked and
  handled before either has its number, and the second picture gets 4
  (`video_context.c:327-349`).
* `FUNCSLT` keeps bits of an earlier kick mode while the second station is on: bit
  11 after a change from 2 to 0, bit 15 from 1 to 0 and from 1 to 2, until the
  second station is switched off or the power goes; mode 1 clears bit 11 as well
  (`fpga.c:484-502`, 560-576).
  A power-on with the same settings writes other bits, although "the interrupt
  source of the kick tube must change with the kick mode" (`fpga.c:473`, which
  does not say what it is in mode 0).  `FunctionBitsAgree` states both bits
  exactly, from the modes set before.
* An upload that is given up is continued by the next one, in the file of the
  first (`stale`).  If the types differ, the flash is burnt from the file of the
  second's type, whatever is in it, or not at all if there is none.
* A file of type 6 is stored as `algo_params.dat` and burnt into the FPGA's flash,
  the FPGA's own file is type 8 and is not (`net_protocol.c:768-815`).
* An answer of a camera that comes too late is taken for that of the next command.

## Proofs

The theorems hold for every value of the constants under the named assumptions of
the modules, all of which TLC evaluates on the runs.  A theorem that needs more
has it as an `ASSUME` of its own; each of these hypotheses is what the
corresponding passing run has too, and where it is dropped the run beside it
finds the violation, or an observation above says what happens:

| hypothesis | theorems | why |
|---|---|---|
| `~SimEnabled` | `PendingIsExact`, `PoolProvidesService` | simulated samples wrap the counter (`dsp_sim`) |
| `Calm`: no picture to simulate while the last one is in flight, no mode change while a sample is | all of `SamplePipelineProofs` | `pipe_switch` |
| `NothingForgotten`: judge modes 0 to 3, and not send mode 2 with judge mode 0 | `RefCountsAreExact` | `pipe_refuse` |
| `"reset" \notin Enabled` | `BuffersAreAccounted` | a frame dropped in a reset keeps `image_source` |
| four groups more than buffers | `GroupsSuffice` | with fewer the pool may be empty; the program has 32 groups |
| `KnownModes` of all settings | `FunctionBitsFollow` | any other value leaves the bits that it should choose as they were |

`ListFacts` has what `Append`, `Tail`, insertion in the order of priority and
`EXCEPT` do to the range, the length and the injectivity of a sequence.

### The pool of DSPs: `DspFactoryProofs`, `DspServiceProofs`

* `TypeCorrect`, `DspHasOneHolder`.  `OneHolder` is not inductive: if a DSP's
  semaphore could reach 2, or be posted while its task runs, the task would give
  the DSP back and still hold it.  `HolderInv` adds `ReadyOnce`, which rules that
  out, and `TypeInv` says which local pointers are set at which place of each
  thread.
* `SamplesHaveOnePlace`: `SampleInv` adds that the DSP `image_process_tsk` has
  prepared points to the sample it holds.
* `JobsAreStable`, from `DspHasOneHolder`: the only assignment to the job pointer
  is made by the holder `image_process_tsk`.
* `ParamsEndUpCurrent`: the invariant says what is still to come for a DSP whose
  parameters are not those on file: a copy in progress, a semaphore count, or the
  update thread at a place from which it will still load that DSP.
* `PendingIsExact`: the lower bound (the counter never wraps) follows from counting
  the mailbox and the hand of `image_process_tsk`; the upper one from the test
  being in one critical section with the increment.
* `PoolProvidesService`: `Spec => ProvidesService`, the refinement of
  `SampleService`.  Initial states map to initial states; a post is the service's
  acceptance, the decrement by `image_process_tsk` its start, the return of
  `VIDDEC2_process` its report, and every other step a stutter.  The mapping of a
  step needs the four invariants above and `Assigned` (the sample of a DSP that is
  engaged is the one it was handed), because two DSPs never have the same sample
  and the parameters of a DSP at work are those it was started with.

### The pipeline: `SamplePipelineProofs`

`PipelineInv` is proved for any number of groups, buffers and DSPs.  `Owed(g)`,
the releases of a group still to come, is a sum over mailboxes and threads; the
core of the invariant, `CountInv`, is that it never exceeds the `r_count` of the
group's buffer, and `PoolInv` that a buffer belongs to one group that is out of
the pool.  Without `SourceInv` (a simulated picture is marked as such) a release
could queue to the camera a buffer that is not its own.  Each step is shown to balance the
sum: what it takes from one place it puts into another or releases.  From it:

* `PipelineTypes`, `NothingReleasedInUse`, and `GroupsSuffice`: with an empty pool
  each group would have a picture of its own, one of the camera's buffers or the
  simulated one, or be the one in the hand of capture or of the overclock report;
  that makes three more than buffers at most.
* `RefCountsAreExact`: `ExactInv` has equality where `CountInv` has a bound, which
  only modes that forget no reference keep.
* `BuffersAreAccounted`: `ReturnInv` ties `image_source` and the driver's queue to
  the groups that are out; it does not need exact counts.

### The threads of the network: `CommandsProofs`

`CommandsInv` is `LinkInv`, `ConfInv` and `UpdateInv` together; a step of
`Commands` moves one of the three, a frame the link and a handler, a restart all.

* `LinkInv` (`LinkConnectsItsSocket`, `LinkStateAgrees`) adds `OneToken`: while
  no connection was made before `net_recv_tsk` had left the last one, there is at
  most one token for it, in `sem_conn` or in its hands.  The condition is
  `overtaken`, and it is needed: `link_stuck` is what happens without it.
* `ConfInv` (`RegistersAgree`, `ConfigIsDurable`): every version of the file knows
  every setting, so that loading any of them writes each register.
* `UpdateInv` (`UploadIsWhole`, `UploadIsStored`, `BurnIsComplete`) says of the
  stream what it holds beyond the file on the medium, and of the flash which pages
  are new and which erased at each state of a burn.  All hold for files of any
  length and any number of pages, but for uploads that went on in the stream of
  one given up (`stale`).
* `FunctionInv` (`FunctionBitsFollow`): the setters write every bit that depends on
  the function settings but 11 and 15, which they only write in some modes.  What
  those two keep is carried along: they are what the ghost says before each change
  (`SourceKept`), because the ghost is empty whenever the second station is off
  (`KickFits`), and the two functions that write them move bits and ghost alike
  (`SourceFollows`).

### Messages: `RejectProofs`, `UplinkProofs`, `MessagesProofs`

`Messages` shares one pool between all components, so the invariants are proved of
it as a whole, for any number of messages, buffers, cameras, judges, reporters and
threads that reset.  `RejectProofs` reduces a step to one of the reject link
(`RejectMoves`) or one that leaves its variables and its mailbox alone.

* `RejectInv`: `ConnectionInv` (`LocalThreadsAgree`) adds that a reject process that
  lives has the newest connection; `ResetInv` (`ResetsAreAccounted`) bounds the
  resets under way by those begun; `EntryInv` (`ResultsAreIntact`) says of each
  result on its way, or with a judge, that its entry is its own and holds it,
  until an entry is given out twice (`overrun`); `LateInv` (`ResetStopsResults`)
  that one reset at a time keeps its flag to its end.
* `PoolInv` (`NothingIsLost`) counts messages and buffers in the mailboxes and in
  the hands of the threads.  It rests on `RoomForEach`: no mailbox is ever full,
  because there are as many places as messages.  `PostsFindRoom` states it of the
  posts themselves: no `mq_send` blocks with a message in hand, and no
  `mailbox_timedpost`, whose deadline has always passed, gives its message up.
* `UplinkInv`: `ClaimInv` (`ReportsAreCounted`) counts the claims that are not
  reports yet; `PictureInv` says that there is one picture between its claim and
  its release, counted as a sum that is always 1; `RingInv` (`ReportsAreIntact`)
  orders the sample reports: the `i`-th from the end of the queue has an entry at
  least `i` behind the cursor, and the bound on claims keeps the cursor from
  reaching it.  That the ring survives rests on the queue keeping the order of
  samples among messages of equal priority (`SamplesFirst`).
* `OrderInv` (`ReportsGoInOrder`): the samples that wait have rising numbers, all
  above the one being sent and below those still being reported.  It holds until
  `overlap`: two threads that report at once may post in either order.
* `NumberInv` (`NumbersAreTriggers`).  `NumberIsTrigger` speaks of the last number
  given; the invariant says what makes the next one right at every place of
  `image_capture_tsk`: until `excused`, each trigger since the last picture
  numbered is in `count_array` or is the one picture without a number, and both counters are
  where the picture finds them (`PictureNext`, which has one case for a picture
  whose number the interrupt already skipped).  In a reset all of it is zero.  The
  search of `count_array` for the least valid number needs that a set of numbers
  has one, by well-founded induction.
* `PairInv` (`PairsReturn`).  The references to a group are counted as in the
  pipeline (left to hand out, owed by a thread), with the second picture's
  between the two releases of `video_context_release` as well; the count of a
  picture equals them while there are any or a thread has still to test it
  (`PictureCounts`), so the three can be equal to the counts in whatever order the
  threads release.  It needs `GroupTurns` (nobody holds a group that is being
  filled; only one thread tests a group without references) and `GroupPlaces` (the
  pool, the threads and what a reset forgot have each group once).  After `raced` only
  types are claimed: a count may then be any integer, because a group that went
  back twice may be released six times.
* `AnswerInv` (`AnswersStayInOrder`).  A camera's commands are numbered: those that
  wait have the last numbers, then come the one its thread holds, those it has to
  answer, the answers in its FIFO and those on their way (`CameraState`).  An answer
  on its way has its entry of `cam1_protocol` until `AnswerRing` later commands were
  sent: how far behind the index an entry is (`Behind`) bounds the age of what is
  in it, so the entry that is given next is nobody's any more.  An answer has the
  least priority and so goes to the end of net's mailbox (`QueuedLast`); other
  messages may overtake it, another answer may not.
* `TypeInv` (`MessagesTypes`) is all of these together with `work` and `halted`.
  `TypeOK` alone is not inductive: that a pool never grows beyond what it was
  created with comes from counting messages and buffers (`MessagesPlaced`,
  `BuffersAccounted`), the bounds of the semaphores from `ConnectionInv` and
  `ResetInv`, those of the reports from `ClaimInv`, that an answer belongs to a
  command sent from `CameraState`, and that a picture has three references at most
  until `raced` from `PictureCounts`.

### Only model-checked

Liveness under fairness and `ENABLED` are out of the prover's reach:
`SampleProcessed`, `UpdateTakesEffect`, `FrameReturned`, `BackOnLine`,
`AbilityReturns` and `ResetReturns`.  Every other property of a passing run, the
refinement `ProvidesService` and the action property `JobStable` included, is a
theorem.

## Not modelled, and the plan

Not modelled, and why:

* Partial sends: a message is sent in one step, so that the repetition of a
  payload from its start (`net.c:95`) does not show.
* The effect of a restart on POSIX queues, which outlive the process
  (`mailbox.c:24`): `Commands` restarts, `Messages` does not.
* The buffer that `net_recv_tsk` holds while it receives the rest of a command
  (`net.c:243-273`): `CameraLink!Command` takes buffer and message in one step with
  the reception, so that `BuffersAccounted` has nothing for a thread in `recv`.
* Registers other than those of the settings and the trigger count; so the unlocked
  changes to `FPGA_CLR_REG` by `sig_handler` (`fpga.c:75-100`) and `send_test_pos`
  (`local_protocol.c:116`) do not show.
* A descriptor closed twice may belong to another part of the program by then;
  `NetLink` has the sockets of the link only.
* Mode tests with two cameras: in `TwoCameras` every thread may be the one that
  releases.
* The reversal of the bits of a file that is burnt, which is done in the file
  itself; the interrupt masks in `send_test_pos`; queries that only read.
* LED, system log, CRC and shared-memory layout, which are sequential and share no
  state; the USB disk is never started (`main.c:79`).

What is left, in the order of what the system depends on most: a restart of
`Messages` with queues that outlive the process, so that a stale address in a
mailbox can be told from a live one; sends in parts, for what the PC receives when
one of them fails; `FPGA_CLR_REG`, with `sig_handler` and `send_test_pos` changing
it.
