----------------------------- MODULE EthosuJob -----------------------------
(***************************************************************************)
(* One Ethos-U driver handle: the inference job, its semaphore, its power  *)
(* request counter, the NPU registers they rest on, the interrupt handler  *)
(* and the thread that owns the handle.                                    *)
(*                                                                         *)
(* The thread runs one API call at a time; pc names the next piece of that *)
(* call, cut wherever an interrupt or the NPU can come between two         *)
(* accesses to shared state.  The handler runs to completion with respect  *)
(* to the thread (one core: an interrupt preempts, it is not preempted),   *)
(* so it is one action.  Cache maintenance, address remapping, logging and *)
(* hw-info reads change none of this state and are left out.               *)
(*                                                                         *)
(* A definition headed "Slip" is the operation after it with one plausible *)
(* mistake; no specification uses it.  The README says which property      *)
(* notices which slip.                                                     *)
(***************************************************************************)
EXTENDS NpuDevice, Sequences

CONSTANTS
    Payloads,      \* custom operator payloads the application passes
    Calls,         \* API calls the application makes ("abort": see Abort)
    HasTimeout,    \* ETHOSU_SEMAPHORE_WAIT_INFERENCE is not "forever"
    SemMax,        \* count at which the job semaphore saturates
    MaxPower,      \* bound on the power request counter (state constraint)
    PmuIrq         \* the application enabled PMU overflow interrupts

(***************************************************************************)
(* A payload is the sequence of its words as the parser tells them apart.  *)
(* FOURCC stands for a header that passes the checks (fourcc, size,        *)
(* fast-memory size) and BAD_HEADER for one that does not; OPT_MISMATCH is *)
(* an OPTIMIZER_CONFIG the device rejects, CMS_UNALIGNED a COMMAND_STREAM  *)
(* that fails an alignment check, UNSUPPORTED any other command.           *)
(***************************************************************************)
Words == {"FOURCC", "BAD_HEADER", "OPTIMIZER_CONFIG", "OPT_MISMATCH",
          "COMMAND_STREAM", "CMS_UNALIGNED", "NOP", "UNSUPPORTED"}

AllCalls == {"invoke_async", "invoke_v3", "poll", "wait", "release",
             "request_power", "pmu_enable", "release_power", "soft_reset",
             "abort"}

ASSUME JobAssumption ==
    /\ Payloads \subseteq Seq(Words)
    /\ \A p \in Payloads : p # << >>
    /\ Calls \subseteq AllCalls
    /\ HasTimeout \in BOOLEAN
    /\ PmuIrq \in BOOLEAN
    /\ SemMax \in Nat \ {0}
    /\ MaxPower \in Nat

VARIABLES
    pc,      \* where the owning thread is; "idle" between two API calls
    call,    \* the API call it is in, or was in last
    block,   \* argument of ethosu_wait
    rest,    \* words of the payload still to be parsed
    ret,     \* local ret of the call; at pc = "idle" the value it returned
    state,   \* drv->job.state
    result,  \* drv->job.result
    sem,     \* count of drv->semaphore
    power,   \* drv->power_request_counter
    held,    \* power requests of the application not yet released
    open     \* ethosu_inference_begin called and _end not yet

thread == <<pc, call, block, rest, ret>>
job    == <<state, result>>
vars   == <<pc, call, block, rest, ret, state, result, sem, power,
            npu, irq, end, fault, gate, held, open>>

PCs == {"idle", "fields", "parse", "power", "start", "run", "err",
        "wait", "take", "expired", "recheck", "retake",
        "end", "unpower", "verdict", "clear", "kill", "killclear"}

TypeOK ==
    /\ pc \in PCs
    /\ call \in AllCalls \cup {"none"}
    /\ block \in BOOLEAN
    /\ rest \in Seq(Words)
    /\ ret \in {-2, -1, 0, 1}
    /\ state \in {"IDLE", "RUNNING", "DONE"}
    /\ result \in {"OK", "TIMEOUT", "ERROR"}
    /\ sem \in 0..SemMax
    /\ power \in Nat
    /\ npu \in {"stopped", "running", "resetting"}
    /\ irq \in BOOLEAN
    /\ end \in BOOLEAN
    /\ fault \in BOOLEAN
    /\ gate \in BOOLEAN
    /\ held \in Nat
    /\ open \in BOOLEAN

\* The handle as ethosu_init leaves it: the job reset, the semaphore fresh,
\* the NPU soft-reset by ethosu_dev_init.
Init ==
    /\ pc = "idle" /\ call = "none" /\ block = FALSE /\ rest = << >> /\ ret = 0
    /\ state = "IDLE" /\ result = "OK" /\ sem = 0 /\ power = 0
    /\ DevInit /\ held = 0 /\ open = FALSE

-----------------------------------------------------------------------------
(* Pieces the operations below share.                                      *)

\* ethosu_semaphore_give on a semaphore that saturates at SemMax.
Give(s) == IF s < SemMax THEN s + 1 ELSE s

\* ethosu_reset_job: memset to 0 is IDLE and OK; the semaphore is not touched.
ResetJob == state' = "IDLE" /\ result' = "OK"

\* Slip: a failed first request keeps its count.
RequestPowerKeepsCount(o) ==
    \/ /\ power > 0
       /\ o = "ok"
       /\ power' = power + 1
       /\ UNCHANGED device
    \/ /\ power = 0
       /\ o \in ResetOutcomes
       /\ power' = 1
       /\ SoftReset(o, 1)

\* ethosu_request_power; it fails when o # "ok".  Only the first request
\* resets the device, and takes its count back when the reset fails.
RequestPower(o) ==
    \/ /\ power > 0
       /\ o = "ok"
       /\ power' = power + 1
       /\ UNCHANGED device
    \/ /\ power = 0
       /\ o \in ResetOutcomes
       /\ power' = IF o = "ok" THEN 1 ELSE 0
       /\ SoftReset(o, 1)

Outcomes == ResetOutcomes \cup {"ok"}

\* Slips: no floor at 0; gating not enabled again at 0.
ReleasePowerBelowZero ==
    /\ power' = power - 1
    /\ IF power = 1 THEN DevEnableGating ELSE UNCHANGED device

ReleasePowerKeepsGate ==
    /\ power' = IF power = 0 THEN 0 ELSE power - 1
    /\ UNCHANGED device

\* ethosu_release_power.
ReleasePower ==
    /\ power' = IF power = 0 THEN 0 ELSE power - 1
    /\ IF power = 1 THEN DevEnableGating ELSE UNCHANGED device

\* An application that does not make the "abort" call releases the driver only
\* when no inference runs, and resets the device only when none is outstanding.
Abort == "abort" \in Calls

\* The thread returns r to the application.
Return(r) == pc' = "idle" /\ ret' = r

Goto(l) == pc' = l /\ UNCHANGED ret

-----------------------------------------------------------------------------
(* ethosu_invoke_async, and ethosu_invoke_v3 which calls it and then waits. *)

InvokeRefused(c) ==
    /\ pc = "idle" /\ c \in Calls \cap {"invoke_async", "invoke_v3"}
    /\ state # "IDLE"
    /\ call' = c /\ ret' = -1
    /\ UNCHANGED <<pc, block, rest, job, sem, power, device, held, open>>

InvokeAccepted(c, p) ==
    /\ pc = "idle" /\ c \in Calls \cap {"invoke_async", "invoke_v3"}
    /\ power < MaxPower
    /\ state = "IDLE"
    /\ call' = c /\ rest' = p /\ Goto("fields")
    /\ UNCHANGED <<block, job, sem, power, device, held, open>>

\* The job fields are filled in, state among them, and the header is checked.
Fields ==
    /\ pc = "fields"
    /\ state' = "IDLE"
    /\ rest' = Tail(rest)
    /\ Goto(IF Head(rest) = "FOURCC" THEN "parse" ELSE "err")
    /\ UNCHANGED <<call, block, result, sem, power, device, held, open>>

\* One turn of the parsing loop.  What fails the call leaves what earlier
\* words have started as it is.
Parse ==
    /\ pc = "parse" /\ rest # << >>
    /\ rest' = Tail(rest)
    /\ Goto(CASE Head(rest) \in {"NOP", "OPTIMIZER_CONFIG"} -> "parse"
              [] Head(rest) = "COMMAND_STREAM" -> "power"
              [] OTHER -> "err")
    /\ UNCHANGED <<call, block, job, sem, power, device, held, open>>

\* The payload is parsed: return, or go on to ethosu_wait(drv, true).
Parsed ==
    /\ pc = "parse" /\ rest = << >>
    /\ pc' = IF call = "invoke_v3" THEN "wait" ELSE "idle"
    /\ block' = (call = "invoke_v3")
    /\ ret' = 0
    /\ UNCHANGED <<call, rest, job, sem, power, device, held, open>>

\* The power request of handle_command_stream.
PowerForRun ==
    /\ pc = "power"
    /\ \E o \in Outcomes : RequestPower(o) /\ Goto(IF o = "ok" THEN "start" ELSE "err")
    /\ UNCHANGED <<call, block, rest, job, sem, held, open>>

\* The job is marked running and the begin callback is called ...
BeginCallback ==
    /\ pc = "start"
    /\ state' = "RUNNING" /\ open' = TRUE
    /\ Goto("run")
    /\ UNCHANGED <<call, block, rest, result, sem, power, device, held>>

\* ... and only then the NPU is started.
RunStream ==
    /\ pc = "run"
    /\ DevRunCommandStream
    /\ Goto("parse")
    /\ UNCHANGED <<call, block, rest, job, sem, power, held, open>>

\* The err label: whatever the payload had started, the job is forgotten.
Err ==
    /\ pc = "err"
    /\ ResetJob
    /\ rest' = << >> /\ Return(-1)
    /\ UNCHANGED <<call, block, sem, power, device, held, open>>

-----------------------------------------------------------------------------
(* ethosu_wait.                                                            *)

WaitCall(c) ==
    /\ pc = "idle" /\ c \in Calls \cap {"poll", "wait"}
    /\ call' = c /\ block' = (c = "wait")
    /\ pc' = "wait" /\ ret' = 0
    /\ UNCHANGED <<rest, job, sem, power, device, held, open>>

\* The switch on the job state.
WaitIdle ==
    /\ pc = "wait" /\ state = "IDLE"
    /\ Return(-2)
    /\ UNCHANGED <<call, block, rest, job, sem, power, device, held, open>>

WaitRunning ==
    /\ pc = "wait" /\ state = "RUNNING" /\ ~block
    /\ pc' = IF call = "release" THEN "kill" ELSE "idle"
    /\ ret' = 1
    /\ UNCHANGED <<call, block, rest, job, sem, power, device, held, open>>

\* Slip: a poll of a running job goes on to the semaphore too.
WaitTakeAlways ==
    /\ pc = "wait" /\ state # "IDLE"
    /\ Goto("take")
    /\ UNCHANGED <<call, block, rest, job, sem, power, device, held, open>>

WaitTake ==
    /\ pc = "wait"
    /\ state = "DONE" \/ (state = "RUNNING" /\ block)
    /\ Goto("take")
    /\ UNCHANGED <<call, block, rest, job, sem, power, device, held, open>>

Take ==
    /\ pc = "take" /\ sem > 0
    /\ sem' = sem - 1
    /\ Goto("end")
    /\ UNCHANGED <<call, block, rest, job, power, device, held, open>>

TakeTimeout ==
    /\ pc = "take" /\ sem = 0 /\ HasTimeout
    /\ pc' = "expired" /\ ret' = -1
    /\ UNCHANGED <<call, block, rest, job, sem, power, device, held, open>>

Expired ==
    /\ pc = "expired"
    /\ result' = "TIMEOUT"
    /\ Goto("recheck")
    /\ UNCHANGED <<call, block, rest, state, sem, power, device, held, open>>

\* Slips: the token of a late interrupt is left behind; a token is expected
\* whether or not the handler ran.
RecheckLeavesToken ==
    /\ pc = "recheck"
    /\ result' = "TIMEOUT" /\ Goto("end")
    /\ UNCHANGED <<call, block, rest, state, sem, power, device, held, open>>

RecheckExpectsToken ==
    /\ pc = "recheck"
    /\ result' = "TIMEOUT" /\ Goto("retake")
    /\ UNCHANGED <<call, block, rest, state, sem, power, device, held, open>>

\* The interrupt may have come between the timeout and the line above.
Recheck ==
    /\ pc = "recheck"
    /\ IF state = "DONE"
       THEN result' = "TIMEOUT" /\ Goto("retake")
       ELSE UNCHANGED result /\ Goto("end")
    /\ UNCHANGED <<call, block, rest, state, sem, power, device, held, open>>

\* The take of the token that interrupt gave.  The code gives it the timeout and
\* ignores its result; it is a plain take here, since it finds its token at once
\* (NeverBlocksUnasked).
Retake ==
    /\ pc = "retake" /\ sem > 0
    /\ sem' = sem - 1
    /\ Goto("end")
    /\ UNCHANGED <<call, block, rest, job, power, device, held, open>>

\* Slip: no end callback after a timeout.
EndCallbackUnlessTimeout ==
    /\ pc = "end"
    /\ open' = (open /\ result = "TIMEOUT")
    /\ Goto("unpower")
    /\ UNCHANGED <<call, block, rest, job, sem, power, device, held>>

\* Cache invalidation and the end callback.
EndCallback ==
    /\ pc = "end"
    /\ open' = FALSE
    /\ Goto("unpower")
    /\ UNCHANGED <<call, block, rest, job, sem, power, device, held>>

PowerAfterRun ==
    /\ pc = "unpower"
    /\ ReleasePower
    /\ Goto("verdict")
    /\ UNCHANGED <<call, block, rest, job, sem, held, open>>

\* Slips: the NPU is reset for errors only; the verdict is whether the take
\* succeeded.
VerdictNoResetOnTimeout ==
    /\ pc = "verdict" /\ pc' = "clear"
    /\ IF result # "ERROR"
       THEN ret' = (IF result = "OK" THEN 0 ELSE -1) /\ UNCHANGED device
       ELSE ret' = -1 /\ \E o \in ResetOutcomes : SoftReset(o, power)
    /\ UNCHANGED <<call, block, rest, job, sem, power, held, open>>

VerdictByTake ==
    /\ pc = "verdict" /\ pc' = "clear"
    /\ IF ret = 0
       THEN UNCHANGED <<ret, device>>
       ELSE ret' = -1 /\ \E o \in ResetOutcomes : SoftReset(o, power)
    /\ UNCHANGED <<call, block, rest, job, sem, power, held, open>>

\* A job that did not end well has the NPU reset; the reset's own failure is
\* ignored.
Verdict ==
    /\ pc = "verdict" /\ pc' = "clear"
    /\ IF result = "OK"
       THEN ret' = 0 /\ UNCHANGED device
       ELSE ret' = -1 /\ \E o \in ResetOutcomes : SoftReset(o, power)
    /\ UNCHANGED <<call, block, rest, job, sem, power, held, open>>

Clear ==
    /\ pc = "clear"
    /\ ResetJob
    /\ Goto("idle")
    /\ UNCHANGED <<call, block, rest, sem, power, device, held, open>>

-----------------------------------------------------------------------------
(* ethosu_release_driver of a reserved handle, under the global mutex: the  *)
(* job has one chance to be collected, else it is killed.                   *)

ReleaseDriver ==
    /\ pc = "idle" /\ "release" \in Calls
    /\ Abort \/ state # "RUNNING"
    /\ call' = "release" /\ block' = FALSE /\ ret' = 0
    /\ pc' = IF state \in {"RUNNING", "DONE"} THEN "wait" ELSE "idle"
    /\ UNCHANGED <<rest, job, sem, power, device, held, open>>

Kill ==
    /\ pc = "kill"
    /\ power' = 0
    /\ \E o \in ResetOutcomes : SoftReset(o, 0)
    /\ Goto("killclear")
    /\ UNCHANGED <<call, block, rest, job, sem, held, open>>

KillClear ==
    /\ pc = "killclear"
    /\ ResetJob
    /\ Goto("idle")
    /\ UNCHANGED <<call, block, rest, sem, power, device, held, open>>

-----------------------------------------------------------------------------
(* The other calls of the application.                                     *)

\* ethosu_request_power: a caller told of a failure holds nothing.
RequestPowerCall ==
    /\ pc = "idle" /\ "request_power" \in Calls
    /\ power < MaxPower /\ held < MaxPower
    /\ call' = "request_power"
    /\ \E o \in Outcomes :
        /\ RequestPower(o)
        /\ ret' = IF o = "ok" THEN 0 ELSE -1
        /\ held' = IF o = "ok" THEN held + 1 ELSE held
    /\ UNCHANGED <<pc, block, rest, job, sem, open>>

\* ETHOSU_PMU_Enable ignores what ethosu_request_power returns: its caller
\* holds a request, and will release one, either way.
PmuEnable ==
    /\ pc = "idle" /\ "pmu_enable" \in Calls
    /\ power < MaxPower /\ held < MaxPower
    /\ call' = "pmu_enable" /\ ret' = 0
    /\ \E o \in Outcomes : RequestPower(o)
    /\ held' = held + 1
    /\ UNCHANGED <<pc, block, rest, job, sem, open>>

\* ethosu_release_power, or ETHOSU_PMU_Disable.
ReleasePowerCall ==
    /\ pc = "idle" /\ "release_power" \in Calls
    /\ held > 0
    /\ call' = "release_power" /\ ret' = 0
    /\ ReleasePower
    /\ held' = held - 1
    /\ UNCHANGED <<pc, block, rest, job, sem, open>>

\* ethosu_inference_begin and _end are the place to start and stop counters:
\* ETHOSU_PMU_Enable and _Disable called from the callback.
CallbackPmuEnable ==
    /\ pc \in {"run", "unpower"} /\ "pmu_enable" \in Calls
    /\ power < MaxPower /\ held < MaxPower
    /\ \E o \in Outcomes : RequestPower(o)
    /\ held' = held + 1
    /\ UNCHANGED <<thread, job, sem, open>>

CallbackPmuDisable ==
    /\ pc \in {"run", "unpower"} /\ "release_power" \in Calls
    /\ held > 0
    /\ ReleasePower
    /\ held' = held - 1
    /\ UNCHANGED <<thread, job, sem, open>>

SoftResetCall ==
    /\ pc = "idle" /\ "soft_reset" \in Calls
    /\ Abort \/ state = "IDLE"
    /\ call' = "soft_reset"
    /\ \E o \in ResetOutcomes : SoftReset(o, power) /\ ret' = IF o = "ok" THEN 0 ELSE -1
    /\ UNCHANGED <<pc, block, rest, job, sem, power, held, open>>

-----------------------------------------------------------------------------
(* The interrupt handler and the NPU.                                      *)

\* Slips: no guard against a late interrupt; no token given; the job is not
\* marked done when the NPU reports a fault.
IrqHandlerUnguarded ==
    /\ irq
    /\ DevClearIrq
    /\ state' = "DONE"
    /\ result' = DevHandleInterrupt
    /\ sem' = Give(sem)
    /\ UNCHANGED <<thread, power, held, open>>

IrqHandlerGivesNothing ==
    /\ irq
    /\ DevClearIrq
    /\ IF result = "TIMEOUT"
       THEN UNCHANGED job
       ELSE /\ state' = "DONE"
            /\ result' = DevHandleInterrupt
    /\ UNCHANGED <<thread, sem, power, npu, end, fault, gate, held, open>>

IrqHandlerDropsFaults ==
    /\ irq
    /\ DevClearIrq
    /\ IF result = "TIMEOUT" \/ fault
       THEN UNCHANGED <<job, sem>>
       ELSE /\ state' = "DONE"
            /\ result' = IF end THEN "OK" ELSE "ERROR"
            /\ sem' = Give(sem)
    /\ UNCHANGED <<thread, power, held, open>>

\* ethosu_irq_handler.
IrqHandler ==
    /\ irq
    /\ DevClearIrq
    /\ IF result = "TIMEOUT"
       THEN UNCHANGED <<job, sem>>
       ELSE /\ state' = "DONE"
            /\ result' = DevHandleInterrupt
            /\ sem' = Give(sem)
    /\ UNCHANGED <<thread, power, held, open>>

\* The inference ends, well or not.
NpuComplete == DevStops /\ UNCHANGED <<thread, job, sem, power, held, open>>

NpuResetDone == DevResetEnds /\ UNCHANGED <<thread, job, sem, power, held, open>>

\* A PMU counter overflows: the same interrupt line, the same CMD bit clears it.
NpuPmuOverflow ==
    /\ PmuIrq /\ npu # "resetting" /\ ~irq
    /\ irq' = TRUE
    /\ UNCHANGED <<thread, job, sem, power, npu, end, fault, gate, held, open>>

-----------------------------------------------------------------------------
ApiCall ==
    \/ \E c \in {"invoke_async", "invoke_v3"} :
        InvokeRefused(c) \/ \E p \in Payloads : InvokeAccepted(c, p)
    \/ \E c \in {"poll", "wait"} : WaitCall(c)
    \/ ReleaseDriver
    \/ RequestPowerCall \/ PmuEnable \/ ReleasePowerCall \/ SoftResetCall
    \/ CallbackPmuEnable \/ CallbackPmuDisable

\* What the thread does once it is in a call, but for the semaphore ...
CallStep ==
    \/ Fields \/ Parse \/ Parsed \/ PowerForRun \/ BeginCallback \/ RunStream \/ Err
    \/ WaitIdle \/ WaitRunning \/ WaitTake
    \/ Expired \/ Recheck
    \/ EndCallback \/ PowerAfterRun \/ Verdict \/ Clear
    \/ Kill \/ KillClear

\* ... and with it, but for the expiry of a timeout.
DriverStep == CallStep \/ Take \/ Retake

ThreadStep == DriverStep \/ TakeTimeout

Hardware == NpuComplete \/ NpuResetDone \/ NpuPmuOverflow

Next == ApiCall \/ ThreadStep \/ IrqHandler \/ Hardware

Spec == Init /\ [][Next]_vars

\* The thread is scheduled whenever it can run: nothing else is assumed, so
\* the NPU may hang and its interrupt may never be served.
ThreadFairSpec == Spec /\ WF_vars(ThreadStep)

\* The NPU also finishes what it runs and its interrupt is served; then nothing
\* needs to be assumed of a timeout, which may or may not expire.
FairSpec == Spec /\ WF_vars(DriverStep) /\ WF_vars(NpuComplete) /\ WF_vars(IrqHandler)

-----------------------------------------------------------------------------
(* Properties of every application, however it calls the driver.           *)

\* The code between the take of the job's token and its reset.
Collecting == pc \in {"end", "unpower", "verdict", "clear"}

\* Between the expiry of a wait and the end of the call, ret is negative.
TimedOut == pc \in {"recheck", "retake", "end", "unpower", "verdict"} /\ ret = -1

\* A finished job that nobody is collecting has its token in the semaphore:
\* state and semaphore are written by the handler, read by ethosu_wait in two
\* separate steps, and must not disagree in the dangerous direction.
DoneHasToken == state = "DONE" /\ ~Collecting => sem > 0

\* A wait with block = FALSE, and the second take after a timeout, find their
\* token there: neither can block on the semaphore (ethosu_wait, block = false).
NeverBlocksUnasked ==
    (pc = "take" /\ ~block) \/ pc = "retake" => sem > 0

\* Once a wait has timed out, an interrupt that comes late can no longer turn
\* the job's result: the call reports the timeout (ethosu_irq_handler's guard).
TimeoutSticks == TimedOut => result = "TIMEOUT"

-----------------------------------------------------------------------------
(* Properties of applications that keep to the documented protocol: payloads *)
(* with at most one command stream and nothing that fails after it, no       *)
(* release or reset while an inference is outstanding.                       *)

\* A wait returns 0 only if the NPU stopped at the end of this job's command
\* stream, without a fault.
SuccessMeansFinished ==
    pc = "clear" /\ ret = 0 => npu = "stopped" /\ end /\ ~fault

\* The semaphore counts exactly the completion that is still to be collected:
\* no token is left for a later job to take as its own.
TokenAccounting ==
    sem = IF state = "DONE" /\ ~Collecting THEN 1 ELSE 0

\* The job is at rest only when the NPU is, with no interrupt pending: nothing
\* the driver has forgotten can complete later.
RestMeansQuiet ==
    state = "IDLE" /\ pc \notin {"start", "run"} => npu # "running" /\ ~irq

\* The end callback is owed exactly from the begin callback to the collection
\* of the job: every begin gets one end, a timeout included.
CallbacksPaired ==
    open <=> state # "IDLE" /\ pc \notin {"unpower", "verdict", "clear"}

\* The counter is the application's requests, plus one for an inference from
\* its power request to its collection.
PowerAccounting ==
    power = held + IF \/ pc = "start"
                      \/ state # "IDLE" /\ pc \notin {"verdict", "clear"}
                   THEN 1 ELSE 0

\* "Request power gating disabled during inference run": a running NPU is held
\* powered, but for one whose wait has timed out and released its power.
PoweredWhileRunning ==
    npu = "running" /\ ~(pc = "verdict" /\ result = "TIMEOUT") => power > 0 /\ ~gate

\* ethosu_wait releases the power of a timed-out inference before it resets the
\* NPU.  The reset is then the very next thing the thread does: no callback, and
\* no return to the application, meets an NPU that runs open to gating.
GatedRunIsReset ==
    [][npu = "running" /\ gate /\ pc' # pc => npu' # "running"]_vars

\* Gating is enabled exactly when nobody holds a power request.
GateFollowsRequests == gate <=> power = 0

\* README.md, "Begin/End inference callbacks": the end callback will always be
\* called if the begin callback has been called.  With the job reset and no
\* call going on, no end callback can come any more.
EndAlwaysCalled == pc = "idle" /\ state = "IDLE" => ~open

-----------------------------------------------------------------------------
(* Liveness.                                                               *)

\* A wait comes back to its caller.
WaitReturns == pc = "take" ~> pc = "idle"

\* An inference that was started finishes on its own, waited for or not, unless
\* a wait gives up on it first.
InferenceFinishes ==
    pc = "parse" /\ state = "RUNNING" ~> state = "DONE" \/ result = "TIMEOUT"
=============================================================================
