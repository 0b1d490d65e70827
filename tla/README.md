# Verification of the Ethos-U core driver

TLA+ models of the Ethos-U core driver (`src/src/*.c`, `src/include/*.h`), the
TLC runs that check them and the theorems TLAPS proves about them.

The driver lets an application run inferences on an Arm Ethos-U NPU. Its code is
small and almost all of it is sequential; what makes it hard is that one handle
is shared by a thread, an interrupt handler and a device, that handles are
shared by threads, and that three mechanisms (job state, job semaphore, NPU
status) say the same thing at slightly different times.

## 1. Inventory

| Component | State it keeps | Operations |
|---|---|---|
| Inference job (`ethosu_driver.c`) | `job.state`, `job.result`, the handle's semaphore, `power_request_counter`, locals of the call in progress | `ethosu_invoke_async`, `ethosu_invoke_v3`, `ethosu_wait`, `ethosu_irq_handler`, `ethosu_request_power`, `ethosu_release_power`, `ethosu_soft_reset`, the job part of `ethosu_release_driver` |
| Driver pool (`ethosu_driver.c`) | list `registered_drivers`, `reserved` of each handle, `ethosu_mutex`, `ethosu_semaphore` | `ethosu_init` (registration), `ethosu_deinit`, `ethosu_reserve_driver`, `ethosu_release_driver` |
| Initialisation (`ethosu_driver.c`) | the global mutex and semaphore, the handle's semaphore | `ethosu_init`, `ethosu_deinit` |
| Payload parser (`ethosu_driver.c`) | position in the payload, `fast_memory` check, job fields | `ethosu_invoke_async`, `handle_optimizer_config`, `handle_command_stream` |
| Device layer (`ethosu_device_u55_u65.c`, `ethosu_device_u85.c`) | NPU registers CMD, STATUS, RESET, PROT, QBASE, BASEP, REGIONCFG, AXI limits | `ethosu_dev_*` |
| PMU driver (`ethosu_pmu.c`) | NPU registers PMCR, PMCNTEN, PMOVS, PMINT, PMCCNTR, PMEVCNTR, PMEVTYPER | `ETHOSU_PMU_*` |
| Baremetal mutex and semaphore (weak functions) | an 8-bit count | `ethosu_mutex_*`, `ethosu_semaphore_*` |
| Hooks (cache, address remap, region config, begin/end) | none | weak functions the application may override |
| Version, hw info, logging | none | read and print |

How they interact: the application's thread calls the job operations of a handle
it owns; these call the device layer. The NPU raises one interrupt line, whose
handler calls `ethosu_dev_handle_interrupt` and writes `job.state`, `job.result`
and the semaphore the thread waits on. The PMU driver and the job share the power
request counter, and the NPU's interrupt line. `ethosu_release_driver` runs a
non-blocking `ethosu_wait` under the global mutex.

What is hard, component by component, and what makes it correct (`hazards` of
PROJECT.json has each with its line):

* **Job.** The interrupt may be served between any two accesses of
  `ethosu_wait`: before the poll of the state, between poll and take, between
  the expiry of the take and the recording of the timeout, between that and the
  reset of the NPU. Correct: a result 0 means the NPU really finished this
  job's stream; a timeout is final; no token is left behind for a later job; no
  call blocks that must not; every begin callback is paired; the power counter
  is exact and the NPU is not open to power gating while it runs.
* **Pool.** A counting semaphore announces drivers, a mutex protects the list,
  and the two are taken one after the other, in opposite orders by reserve and
  deregister. Correct: a driver belongs to one thread; tokens match free
  drivers; reserve never returns NULL; everyone gets through.
* **Initialisation.** Two first calls at once; a failure half-way; a deinit that
  destroys what others still reach. Correct: a driver in the list has its
  semaphore, and a semaphore is destroyed once, when nothing reaches it.
* **Payload.** Lengths come from the payload, in two fields. Correct: the parser
  stays in step with the compiler, and the stream it starts is the payload's.
* **Device.** Two bits of configuration per region are shifted together,
  addresses split, fields compared. CMD is read, changed and written by thread
  and handler both; a reset loses every setting and may end late. Correct: what
  the NPU runs with is what was asked, and each call is as good as atomic.
* **PMU.** A 48-bit counter is read in two 32-bit accesses while it counts, and
  counters are incremented by software. Correct: a value read was there once.
* **Baremetal semaphore.** Test, sleep and decrement are separate steps, and the
  handler increments. Correct: no lost wake-up, no lost token.

## 2. Plan and where it stands

Modules, in the order they were written.

1. `EthosuJob` with `InferenceContract` as its abstract specification: the core.
2. `EthosuPool` with `DriverPool` as its abstract specification, and with the
   failures of `ethosu_init` and the life of the job semaphore.
3. `EthosuJobProtocol` and the proof modules of both.
4. `EthosuPmu`: the counters, with the NPU counting between any two register
   accesses, and its proofs.
5. `NpuDevice`, the NPU as `EthosuJob` sees it, and `EthosuDevice`, the device
   layer of the three NPUs register by register, proved to implement it.
6. `EthosuPayload` and `EthosuInvoke`: from the words of a payload, through the
   parser and the device layer, to the registers of a running NPU, with its proofs.
7. `BaremetalJob`: the job with the weak semaphore, proved to implement the job
   with an RTOS's.

Left, in the order of what it would add:

* PMU overflow flags, interrupts and event selection, and what a soft reset of
  the NPU does to a PMU in use.
* Concurrent first calls of `ethosu_init`.
* A composition of pool and jobs: one job per driver, release settling it.

How the modules build on each other:

```
NpuDevice <- EthosuJob <- EthosuJobProtocol <- BaremetalJob
    ^            |                                 |
    |            +-> InferenceContract             +-> Spec of EthosuJob
EthosuDevice <- EthosuInvoke -> EthosuPayload
EthosuPool -> DriverPool                     EthosuPmu
```

(`<-` is extended by, `->` implements or, for `EthosuPayload`, extends; the arrow
up from `EthosuDevice` is that it implements `NpuDevice`.) The proofs about `EthosuX`
are in `EthosuXProofs`, those about a component within its protocol in
`EthosuJobProtocolProofs` and `EthosuPoolProtocolProofs`.

## 3. Modules and code

### EthosuJob

One handle, the thread that owns it, the handler, and the NPU as the driver sees
it. `pc` names the next piece of the call the thread is in; pieces are cut
wherever the handler or the NPU can come between two accesses to shared state.

| Variables | Code |
|---|---|
| `pc`, `call`, `block`, `rest`, `ret` | the call in progress, its argument, the payload still to be parsed, its local `ret` |
| `state`, `result` | `drv->job.state`, `drv->job.result` |
| `sem` | the count behind `drv->semaphore` |
| `power`, `held` | `drv->power_request_counter`; requests the application has made and not released |
| `npu`, `irq`, `end`, `fault` (of `NpuDevice`) | STATUS: state and reset_status, the interrupt line, cmd_end_reached, any fault bit |
| `gate` (of `NpuDevice`) | the q-channel enables of CMD |
| `open` | begin callback called, end callback not yet |

`Fields`..`Err` are `ethosu_invoke_async`, `WaitCall`..`Clear` are `ethosu_wait`,
`ReleaseDriver`, `Kill`, `KillClear` the settling of a job by
`ethosu_release_driver`, `IrqHandler` is `ethosu_irq_handler`. The begin and end
callbacks may themselves enable and disable the PMU (`CallbackPmuEnable`,
`CallbackPmuDisable`), which is what they are there for. `NpuComplete`,
`NpuResetDone` and `NpuPmuOverflow` are the device and external. A payload is a
sequence of words as the parser tells them apart: a word stands for a command
with its arguments, and the outcome of its checks is part of the word.

Assumptions of the model:

* One core. The handler runs to completion with respect to the thread and is one
  action; the thread's pieces are not atomic with respect to the handler.
* The semaphore is an RTOS one: its give and take are atomic, it blocks, and it
  saturates at `SemMax`. That the weak one is as good is `BaremetalJob`. The second
  take of a timed-out wait has the timeout in the code and its result is ignored;
  in the model it can only succeed, which takes nothing away, since it always finds
  its token (`NeverBlocksUnasked`).
* The NPU is `NpuDevice`: each call of the device layer is one step. That the
  layer is as good is `EthosuDevice`.
* The NPU stops at the end of a stream, at a fault, or both, and then raises its
  interrupt. An NPU still resetting ignores writes. A successful reset leaves
  CMD at its reset value, with both q-channel enables set.
* `MaxPower` bounds the power requests a run explores; it is a guard of the calls
  that make one, and no theorem depends on its value.

### InferenceContract, EthosuJobContract

What a handle promises, with no semaphore, register or handler: an inference is
begun, ends on its own or is abandoned, and is handed back exactly once; 0 is
answered for it if and only if it was carried out. `EthosuJobContract` maps the
driver's state to it: before the handler has run the outcome is in STATUS,
afterwards in the job.

### EthosuJobProtocol

`KeepsProtocol`, a condition on the constants, says which applications the
documentation has in mind: one command stream per payload and nothing that can
fail after it ("Vela only supports putting one COMMAND_STREAM per op"), no
release or reset with an inference outstanding, no PMU interrupts, and no
`ETHOSU_PMU_Enable` whose power request may fail unnoticed. `ProtocolInv` is the
inductive invariant of such an application's driver.

### EthosuPool, DriverPool

Any number of threads and drivers. The list is a sequence, `at[t]` the cursor of
a thread's walk, `mutex` and `gsem` the global mutex and semaphore. The test of
`reserved`, its setting, the unlock and the give are separate steps. `owns` is
the application's side: the handles a thread was given. `DriverPool` is what the
four functions promise: a driver is absent, free, or in the hands of one thread.
The settling of a job inside `ethosu_release_driver` is left to `EthosuJob`; it
cannot block (theorem `PollDoesNotBlock`), so that it is not a step of the pool
hides nothing.

`jsem[d]` is what `d->semaphore` points to: `ethosu_init` may fail at the device or
at the creation of the job semaphore (`InitFails`), and `ethosu_deinit` leaves the
pointer behind (`DestroySemaphore`). The global mutex and semaphore are taken to
exist: the first `ethosu_init` runs alone.

The calls an application makes are a constant: `deinit` is one of an unused
driver while nobody reserves, `deinit_any_time` drops the second half,
`deinit_any` both, `hold_many` lets a thread own several drivers. `live` says
that a handle is set up and not yet taken down, and `Settled` that no other thread
is about to do either.

### EthosuPmu

The counters and the calls that read, set, reset, enable and increment them, cut
at every register access; `CountCycle` and `CountEvent` are the NPU counting in
between. The cycle counter is a pair of words, since that is what the code's
masks and shifts make of a 64-bit number. `wanted`, `cycles` and `counts` say what
the application is entitled to see; they follow the calls and the NPU, never the
registers. Left out: event selection, overflow flags, interrupt enables and start
and stop events (single register accesses), and the power request of
`ETHOSU_PMU_Enable` (in `EthosuJob`). What a soft reset of the NPU does to the
PMU's registers the source does not say; the model has none.

### NpuDevice, EthosuDevice

`NpuDevice` is the NPU as the driver above `ethosu_device.h` may think of it, one
step per call. `EthosuDevice` is that interface as the code has it: `CallInit`,
`CallSoftReset`, `CallRun`, `CallGating` start a call, and `WriteReset`, `PollDone`,
`PollTimeout`, `Verify`, `Write`, `CmdRead`, `CmdWrite` are its accesses, one
register access each; the handler (`ClearInterrupt`) and the NPU (`Stop`,
`ResetEnds`) come in between. All three NPUs are there: `product` chooses which
settings a reset brings back and whether addresses have a high word.

| Variables | Code |
|---|---|
| `npu`, `irq`, `end`, `fault`, `prot` | STATUS and PROT |
| `cmd`, `regs` | CMD as the set of its bits, the other registers by name and index |
| `dev`, `task`, `todo`, `gating`, `word`, `answer` | which access of which call comes next, the writes still to be made, its argument, its local `cmd`, what it returned |
| `before`, `stale` | history, for the mapping to `NpuDevice` |

A word of a register has `WordMod` values instead of 2^32, and a setting of
`ethosu_config_*.h` is not a number but `Configured(r)`. `ethosu_address_remap` and
`ethosu_config_select`, which an application may replace, are constants.
`AddressesFit` is the code's asserts, of the number of base addresses and of the
width of each: a call that fails one is not made. The check
of CONFIG.product in `ethosu_dev_init` is left out (it fails before anything is
touched, which `InitFails` of `EthosuPool` covers), as are QREAD and the reads of
`ethosu_dev_get_hw_info`.

The mapping: a reset is shown as happening when it is over, a start when CMD is
written, and a reset that ends between the thread's read of CMD (as 0) and its
write is shown together with the write. The last is why `DevRunCommandStream` has
a third disjunct: the NPU is started with both q-channel enables cleared.

### EthosuPayload, EthosuInvoke

`EthosuPayload` has both sides of a payload: what the compiler writes (external) and
how the parser reads a word (`StreamLength`, `ActionWords`, `VerifyConfig`). A payload
is a record of the driver actions the compiler was asked for, the words it wrote, and
where in the words each action starts; `IsPayload` says how the three hang together,
and `OneStream` that nothing the driver could refuse follows the one command stream.
The parser sees `words` only. A word of a stream looks like a
COMMAND_STREAM action of one word, so that a parser out of step goes on parsing
instead of stopping. `EthosuInvokeMC` encodes the payloads of the run action by
action, and TLC checks that they satisfy `IsPayload`. `EthosuInvoke` composes it with the device layer:
`ethosu_invoke_async` action by action (`Invoke` to `Err`), `ethosu_wait` without
its semaphore (`Wait` to `Clear`; a wait is over when the handler has run, or gives
up before, which is all that `EthosuJob` leaves of it here), power requests and resets
by other clients, and the data cache (`clean`, `unseen`). Lengths have a low part
of `LengthMod` values where the code has 2^16. Header words that are refused and
unsupported actions are in `EthosuJob`; the payloads here are the compiler's.

`sound` is the one exemption: the last soft reset returned success. If a reset
fails while another client holds a power request, the next inference makes no
reset, and what it writes may be lost (section 7).

### BaremetalJob

`EthosuJob` with the semaphore of a bare-metal build. `Test`, `Sleep`, `Load`,
`Store` are `ethosu_semaphore_take`; `at`, `local` and `event` are its place, the
register the count is decremented in, and the core's event register. `__WFE`
sleeps until there is an event and consumes it; an interrupt or another core may
leave one too (`OtherEvent`). The count is modulo 256. `__WFE` keeps the compiler
from holding `count` in a register across it; that is external to the model. The
timeout is ignored by the weak function, so `HasTimeout` is FALSE.

### Slips

A definition headed "Slip" is an operation with one plausible mistake: a missing
guard, a forgotten token, a swapped outcome. No specification uses one. Each
property of each run names one that it must notice:

| Property | Slip it notices |
|---|---|
| SuccessMeansFinished | the token of a late interrupt is left behind |
| TokenAccounting, TimeoutSticks | the handler does not look for a timeout |
| RestMeansQuiet, GatedRunIsReset | no reset after a timeout |
| CallbacksPaired | no end callback after a timeout |
| PowerAccounting | a failed power request keeps its count |
| KeepsContract | the verdict goes by the take, not by the result |
| PoweredWhileRunning | a soft reset leaves CMD at its reset value |
| GateFollowsRequests | the last release does not enable gating |
| TypeOK (job) | the counter has no floor |
| DoneHasToken, WaitReturns (job_power) | the handler gives no token |
| NeverBlocksUnasked | a poll goes on to the semaphore |
| WaitReturns (job_any) | a token is expected after every timeout |
| InferenceFinishes | the handler drops faults |
| ImplementsJob | the weak take sleeps once and does not test again |
| WaitReturns (job_baremetal) | the handler sends no event |
| TypeOK (invoke) | a failed power request is held |
| ParserInStep | the action after a configuration is looked for one word early |
| RunsThePayload | one bit per region; the upper part of the length dropped |
| HandsBackThePayload | a running inference does not keep the next invocation out |
| RunsConfigured | AXI settings taken to survive a reset; reset_status polled once |
| RunsCompatible | minor architectures compared the wrong way round |
| MemoryCoherent | no invalidation after the run |
| StartedByRun | CMD is rewritten with the last command |
| ImplementsDevice | the handler rewrites CMD with the last command |
| CountersExact | the carry of an increment is not written |
| EnabledSurvives | an increment enables what it was asked to increment |
| SteadyReadIsReal | the words of a read are swapped |
| TypeOK (PMU) | a sum is wider than the register |
| TokensMatchDrivers, ReserveReturns | release keeps the token |
| JobSemaphores | deinit destroys before it deregisters; a failed creation is ignored |
| ReserveFindsDriver | deregister leaves the token |
| BlocksOnlyIfNone | the global semaphore is binary |
| ImplementsPool, OwnershipExclusive | reserve does not lock |
| TypeOK (pool) | the walk starts before the list |
| DeinitReturns | release does not unlock |

## 4. Runs

| Run | Question | Bounds, and why they are enough |
|---|---|---|
| `job_protocol` | an application within the protocol: no false success, no stray token, callbacks paired, power exact, contract implemented | four payloads cover success, a harmless tail, a failing stream and a bad header; resets may time out or be refused; timeouts on; 2 power requests give "shared with the inference" and "not shared"; `SemMax` 2 is one more than ever needed, so a stray token shows |
| `job_power` | PMU clients, from the callbacks too, and inferences share the counter, resets succeed; NPU and handler fair: gating exact, waits return, inferences finish; the NPU of a timed-out wait is reset next | 3 requests: inference plus two clients |
| `job_baremetal` | the job with the weak semaphore implements the job; no wake-up is lost | a payload that runs and one that is refused; resets that succeed or are refused (with one given up, finding 8 stops an untimed wait) |
| `invoke` | from payload to registers: what the NPU runs, with which settings, that a wait answers 0 for nothing else, and that the layer implements `NpuDevice` | all three NPUs; six payloads: streams shorter and longer than a low length part, not aligned, for other NPUs; three regions of which one is fast memory, and two; an address with a high word; fast memory large enough or not; resets that time out or are refused; 2 power requests |
| `job_any` | every call at every moment, payloads that fail after a start or start two streams, kills, PMU interrupts, failing resets: what still holds, and that a wait with a timeout returns | `SemMax` 1, the smallest the code can live with |
| `job_kill_token` | finding 1 | one stream |
| `job_callback` | finding 2 | one stream and a configuration that is refused |
| `pmu_count` | the NPU counts between any two accesses: no count lost or made up, enabled set kept, a read without a carry real | two event counters; low word 0..2, high word 0..1, so that the carry, the wrap, and a step without either all occur |
| `pmu_read` | finding 3 | one event counter |
| `pool_protocol` | three threads, two drivers, initialisations that may fail: tokens match drivers, a driver in reach has its semaphore, reserve neither blocks nor fails without reason, the abstract pool is implemented, and under a fair RTOS every reserve and deinit returns | more threads than drivers, so that some wait; two drivers, so that a walk passes one |
| `pool_any` | drivers deinitialised in use or unknown, stale flags, threads with several drivers: still one owner each | two threads and two drivers; the theorem covers the rest |
| `pool_deinit_race` | finding 4 | two threads, one driver |

Deadlock is checked except in `pool_any` (a driver deinitialised twice leaves a
thread waiting for a token that is not there) and `pool_deinit_race` (the
finding is a deadlock). `pool_any` uses the symmetry of threads and drivers: no
action or invariant names one, and it has no temporal property.

## 5. Fairness

* `ThreadFairSpec`: the thread runs whenever it can. Nothing is assumed of NPU
  and interrupt: with a timeout configured this alone brings a wait back.
* `FairSpec` of the job: the thread runs, the NPU ends what it runs, and its
  interrupt is served; a timeout may expire but need not. Nothing less will do
  without one. That applications go on calling is never assumed.
* `BareFairSpec`: the same, for the pieces of the weak semaphore. No event other
  than the handler's is assumed ever to come.
* `FairSpec` of the pool: strong fairness of each thread's steps, since an RTOS
  queues the waiters of a mutex or a semaphore and serves each in the end; and
  while drivers are in use some thread releases one some day, whatever threads
  call in between, without which no reserve could be promised to return.

## 6. Proofs

For every payload set, set of calls, `SemMax`, `MaxPower`, with `JobAssumption`
only (`EthosuJobProofs`): `TypeOK`, `DoneHasToken`, `NeverBlocksUnasked`,
`TimeoutSticks`. The invariant `JobInv` adds that the header is unread when it
is looked at and that `ret` is 0 from the entry of `ethosu_wait` to its take;
without the second, `TimeoutSticks` is not inductive: a wait could be thought to
have timed out before it took anything. The argument: the handler does nothing
to a job whose result is TIMEOUT, otherwise it writes DONE and gives a token
together, and a token leaves only through a take that makes the thread collect.

For applications that keep to the protocol (`EthosuJobProtocolProofs`,
`KeepsProtocol` being the hypothesis of each theorem): `SuccessMeansFinished`,
`TokenAccounting`, `RestMeansQuiet`, `CallbacksPaired`, `PowerAccounting`.
`ProtocolInv` is a conjunction of what each place of the code knows: where the
thread can be with which job state, what is left of the payload, that the
interrupt is pending only for a running job, that a result other than the
handler's is the waiting thread's own. `SuccessMeansFinished` and
`RestMeansQuiet` follow from it, the other three are conjuncts of it.

In the same module, when resets succeed (`ResetsSucceed`): `GateFollowsRequests`
for every application, the ones that kill jobs included, since each operation that
resets or changes the counter rewrites CMD from it; and `PoweredWhileRunning`
within the protocol, since a running NPU's inference holds a request until the
wait that gives it up. The exception is as narrow as it can be: only a wait that
has timed out has released the power of an NPU that still runs (finding 5), and
`GatedRunIsReset` follows: at that place the thread's next step is the reset.

There too: within the protocol every step of the driver is a step of
`InferenceContract` or a stutter (`DriverKeepsContract`).

`BaremetalJobProofs`: within the protocol every step of the job with the weak
semaphore is a step of `EthosuJob` or a stutter (`BaremetalImplementsJob`), so that
every safety theorem above holds of a bare-metal build: `BaremetalIsSafe` and
`BaremetalKeepsContract` state it of `BareSpec`. `WeakInv` says that from a
successful test to the store the count does not change; this is where the
protocol is needed: `TokenAccounting` says that the interrupt of an inference finds
the count at 0, so the handler never comes between the load and the store.

`EthosuDeviceProofs`, for every NPU, word width, address remapping, region
configuration and job: the device layer implements `NpuDevice`
(`DeviceLayerImplements`). `DevInv` says what a call knows at each access: from the
write of RESET to the end of the call STATUS is clear and the NPU does not run
(`ResetInv`); from the first write of a start to the write of CMD cmd_end_reached
is clear or about to be, and the NPU does not run (`StartInv`); and what was read of
CMD is still there when it is written back, unless a reset ended in between
(`CmdInv`): the handler rewrites CMD too, but leaves the gating bits as they are.
The theorem is about any driver that starts a stream only on an NPU that does not
run, which `RestMeansQuiet` says of this one, and `DrivesDevice` below once more.

`EthosuPoolProofs`, for any number of threads and drivers, any calls and any
stale flags: `TypeOK` and `OwnershipExclusive`. The invariant: a thread between
lock and unlock holds the mutex; a driver about to be marked is not reserved; a
driver that is owned, or on its way to or from an owner, is reserved, and by one
thread only.

`EthosuPoolProtocolProofs`, for any number of threads and drivers, when drivers are
deinitialised only while unused and no reserve is under way, handles come zeroed
and `SemMax` is at least the number of drivers: `TokensMatchDrivers`,
`ReserveFindsDriver`, `BlocksOnlyIfNone`, `JobSemaphores` and `ImplementsPool`.
`TokenInv` adds to the invariant above what the list holds (each driver once, set
up, with its semaphore), that one thread at a time sets a driver up or takes it
down, that a driver is reserved only if some thread has it, and what a walk has
passed. Tokens are counted by where threads are: each step moves one thread, so
each count changes by at most one, and every step that changes the free drivers
changes one of the counts with them. A walk that reached the end of the list would
have passed reserved drivers only; the walker's own token says that one is free
(`WalkFinds`). No give is lost, since a token still owed and those in the semaphore
stand for different drivers (`GiveCounts`). For the refinement, the thread that
has a reserved driver is unique, so marking and clearing the flag are the hand-over
and the return. `pool_deinit_race` shows why the first condition is needed, and
`pool_any` runs without the first two; there only `OwnershipExclusive` is claimed.

`EthosuPmuProofs`, for any number of event counters and any register widths:
`TypeOK`, `CountersExact`, `EnabledSurvives`, `SteadyReadIsReal`. The invariant keeps
a ledger: what is wanted is what is enabled or will be enabled again; a counter
stands still while it is changed; and the registers are at most one word behind
what they are due. `ReadInv` adds that each word read is one of a value the counter
has had since the read began.

`EthosuInvokeProofs`, for every set of payloads that are payloads (`IsPayload`,
`OneStream`), every placement, base addresses, fast memory, NPU, word width, address
remapping and region configuration: `TypeOK`, `ParserInStep`, `RunsThePayload`,
`HandsBackThePayload`, `RunsConfigured`, `RunsCompatible`, `MemoryCoherent`,
`StartedByRun` and `ImplementsDevice`, that is, all the run `invoke` checks. The assumptions on the
constants are `InvokeAssumption`, `PayloadAssumption` and `DeviceLayerAssumption`: a
payload and the base addresses lie in memory, remapping gives addresses and region
configuration one of the four ports. `InvokeInv` has four parts, each useless without
the others:

* `DevInv`, from `EthosuDeviceProofs`. It holds because the driver calls the layer as
  `EthosuDevice` wants to be called (`DrivesDevice`): one call at a time, and a start
  only of a job, on an NPU that does not run. So the hypothesis of
  `DeviceLayerImplements` is discharged for the real caller.
* `DriverInv`: which call of the layer can be under way at which place; that the NPU
  runs or asks for attention only while the job is RUNNING and not being started
  (otherwise a start could meet a running NPU, and a buffer written by the NPU could
  be hidden behind the cache after it was collected); that an invocation holds a
  power request until its wait; and what is clean.
* `PayloadInv`: the parser stands before some action n, all earlier ones were
  accepted, and once a stream is begun only NOPs are to come (`AtAction`). The last is
  why an error after the start cannot happen, and why the job that was begun stays
  the job that runs. The request is the one of a COMMAND_STREAM action, with the fast
  memory address in place (`RequestFits`).
* `RegisterInv`: every value a start or a reset has to write is in its register or
  still in the list of writes to be made (`Drains`); a start touches no register that
  a reset sets up, nor the other way round (`RunSetFacts`, `AxiElements`); and on U55
  the upper words of addresses stay 0. When the list is empty, all is written.

`RunsThePayload` then follows by putting address words together again (`AddressBack`)
and taking the two bits of each region out of REGIONCFG (`Digits`, `RegionPorts`).

`HandsBackThePayload` is the end-to-end property: a wait is about to answer 0 only when
the NPU stands, without a fault, at the end of the stream of the payload of the last
`ethosu_invoke_async`. It needs more than `InvokeInv`, which speaks of the NPU only while
it runs: `CompletionFits` says that from the stop to the verdict the queue and base
registers stay those of the start and STATUS stays as the handler read it, and that
no reset is under way for a job whose result may still become 0. Between the two
lie the handler, the gating writes of the power release and, when the wait gives up,
a late interrupt.

Only model-checked: liveness (`WaitReturns`, `InferenceFinishes`, `ReserveReturns`,
`DeinitReturns`), which is out of the provers' reach. That the recursive encoding of
`EthosuInvokeMC` gives payloads is evaluated for the payloads of the run, not proved: it
is an induction over data.

## 7. Findings

1. `job_kill_token`: `ethosu_release_driver` polls the job and, told it is
   running, resets it; an interrupt in between leaves its token in the job
   semaphore, and a later `ethosu_wait` returns 0 while the NPU runs.
2. `job_callback`: README.md says the end callback is always called if the begin
   callback has been called. It is not when a payload fails after its stream was
   started (`err` of `ethosu_invoke_async`), where moreover the NPU runs on and the
   power request stays. Nor is it when `ethosu_release_driver` kills a running job:
   the same run with the stream alone and the calls release and abort shows it.
3. `pmu_read`: `pmu_ethosu.h` describes a double read of the cycle counter that
   `ETHOSU_PMU_Get_CCNTR` does not make; a carry between its two accesses gives a
   value the counter never had.
4. `pool_deinit_race`: `ethosu_deinit` takes the driver's token with the mutex
   held; a reserve that has the token waits for the mutex.

Met while modelling and not kept as runs:

5. Power gating is to be disabled during an inference run, but a wait that times out
   releases the inference's power request before it resets the NPU: if nobody else
   holds one, gating is enabled for an NPU that still runs. `PoweredWhileRunning`
   says that this window, of that one inference, is the only one within the protocol
   when resets succeed, and `GatedRunIsReset` that the reset is the thread's next step.
6. The kill path sets `power_request_counter` to 0 although the PMU may hold a
   request, whose release later opens a running NPU to gating: that is why
   `job_power` has no abort.
7. A PMU overflow interrupt (`ETHOSU_PMU_Set_CNTR_IRQ_Enable`) is taken for the end
   of the inference: the handler does not ask for the cause. Its token lets the
   wait for a later inference answer 0 while the NPU runs. `job_any` has such
   interrupts and shows what holds all the same.
8. A soft reset that is given up as timed out is not made again while another
   client holds a power request. The registers of the next inference are then
   written to an NPU that ignores them, some or all, and its start may be lost: an
   untimed wait never returns. If the reset ends half-way through, the NPU may
   start with some of the settings missing. `RunsThePayload`, `HandsBackThePayload` and
   `RunsConfigured` except this case (`sound`), and `job_power` and `job_baremetal` have
   no such resets; that no wait answers 0 for a start that was lost is
   `SuccessMeansFinished` of `job_protocol`, which has them.
9. README.md asks for a binary semaphore, with which two free drivers share one
   token (the slip of `BlocksOnlyIfNone`).
10. `ethosu_init` does not set `reserved`: a handle in memory that is not zero, or
   one deinitialised while reserved, is counted and can never be had, so that a
   reserve returns NULL; `pool_protocol` therefore starts from zeroed handles.

## 8. Not modelled

* Two threads in their first `ethosu_init`, which test and create the global mutex
  and semaphore without protection. No order of later calls repairs it; the pool
  takes it that the first `ethosu_init` runs alone.
* Of the PMU: event selection, overflow flags, interrupt enables, start and stop
  events. Each is one access to one register.
* Logging, versions, `ethosu_get_hw_info`, printing of errors: no state.
* The register maps (`ethosu55_interface.h`, `ethosu65_interface.h`,
  `ethosu85_interface.h`): generated declarations, 77,000 of the 80,000 lines of
  the sources. They have no behaviour of their own; the models name the few
  registers and bits the driver uses.
* The other override points (`ethosu_inference_begin` and `_end` beyond their use of
  the PMU) and the build.
