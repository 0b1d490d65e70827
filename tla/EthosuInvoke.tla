---------------------------- MODULE EthosuInvoke ----------------------------
(***************************************************************************)
(* From the payload to the registers: ethosu_invoke_async parses a payload *)
(* and starts its command stream through the device layer, ethosu_wait     *)
(* collects it, other clients request and release power in between.  What  *)
(* EthosuJob shows of semaphores, timeouts and callbacks is not repeated:  *)
(* a wait here is over when the handler has run, or gives up before.       *)
(***************************************************************************)
EXTENDS EthosuPayload, EthosuDevice

CONSTANTS
    Payloads,        \* the payloads the compiler emits
    Placements,      \* byte addresses at which payloads are placed
    BaseAddresses,   \* base address arrays it passes, for each product
    BaseSizes,       \* base_addr_size of region 2
    FastMemory,      \* fast_memory and fast_memory_size of ethosu_init
    FastMemorySize,
    MaxPower         \* bound on the power request counter

\* Payloads lie in memory, from the placement on.
ASSUME InvokeAssumption ==
    /\ \A p \in Payloads : IsPayload(p) /\ OneStream(p)
    /\ \A p \in Payloads, a \in Placements : \A k \in 0..Len(p.words) :
            a + BYTES_IN_32_BITS * k \in Addresses
    /\ BaseAddresses \in [Products -> SUBSET Seq(Addresses)]
    /\ FastMemory \in Addresses /\ BaseSizes \subseteq Nat /\ FastMemorySize \in Nat
    /\ MaxPower \in Nat

VARIABLES
    pc,         \* where the driver is, above the device layer
    state,      \* drv->job.state
    result,     \* drv->job.result
    power,      \* drv->power_request_counter
    held,       \* power requests of the application
    op,         \* the payload: custom_data_ptr points to its words
    at,         \* address of the payload
    pos,        \* words between the payload's start and data_ptr
    asked,      \* the base addresses the application passed
    base_addr,  \* the array it passed them in
    request,    \* arguments of ethosu_dev_run_command_stream
    collected,  \* the last call was a wait that returned 0
    clean,      \* the data cache was flushed since the application wrote inputs
    unseen,     \* the NPU wrote since the data cache was invalidated
    sound       \* history: the last soft reset returned success

jobVars    == <<state, result>>
payload    == <<op, at, pos, asked, base_addr>>
memory     == <<clean, unseen>>
driverVars == <<pc, jobVars, power, held, payload, request, collected, memory>>
allVars    == <<driverVars, sound, deviceVars>>

FAST_MEMORY_BASE_ADDR_INDEX == 2
UsesFastMemory == FastMemory # 0 /\ Len(base_addr) > FAST_MEMORY_BASE_ADDR_INDEX

Here == op.words[pos + 1]

Goto(l) == pc' = l

\* A driver step that calls nothing of the device layer.
Local == Idle /\ UNCHANGED <<deviceVars, sound>>

-----------------------------------------------------------------------------
(* ethosu_init.                                                            *)

InitCall ==
    /\ pc = "off" /\ Idle /\ CallInit
    /\ Goto("init")
    /\ UNCHANGED <<jobVars, power, held, payload, request, collected, memory, sound>>

InitReturn ==
    /\ pc = "init" /\ Local
    /\ Goto(IF answer = "ok" THEN "idle" ELSE "off")
    /\ UNCHANGED <<jobVars, power, held, payload, request, collected, memory>>

-----------------------------------------------------------------------------
(* ethosu_invoke_async.                                                    *)

\* Slip: an inference that is running is not looked for.
InvokeUnchecked(p, a, b) ==
    /\ pc = "idle" /\ power < MaxPower /\ Local
    /\ op' = p /\ at' = a /\ pos' = 1 /\ asked' = b /\ base_addr' = b
    /\ clean' = FALSE /\ collected' = FALSE
    /\ Goto("header")
    /\ UNCHANGED <<jobVars, power, held, request, unseen>>

Invoke(p, a, b) ==
    /\ pc = "idle" /\ state = "IDLE" /\ power < MaxPower /\ Local
    /\ op' = p /\ at' = a /\ pos' = 1 /\ asked' = b /\ base_addr' = b
    /\ clean' = FALSE /\ collected' = FALSE
    /\ Goto("header")
    /\ UNCHANGED <<jobVars, power, held, request, unseen>>

\* "Adjust base address to fast memory area", in the application's array.
AdjustFastMemory ==
    /\ pc = "header" /\ Local
    /\ \/ ~UsesFastMemory /\ Goto("parse") /\ UNCHANGED base_addr
       \/ UsesFastMemory /\ \E size \in BaseSizes :
            IF size > FastMemorySize THEN Goto("err") /\ UNCHANGED base_addr
            ELSE /\ Goto("parse")
                 /\ base_addr' = [base_addr EXCEPT ![FAST_MEMORY_BASE_ADDR_INDEX + 1] = FastMemory]
    /\ UNCHANGED <<jobVars, power, held, op, at, pos, asked, request, collected, memory>>

ParseEnd ==
    /\ pc = "parse" /\ pos >= Len(op.words) /\ Local
    /\ Goto("idle")
    /\ UNCHANGED <<jobVars, power, held, payload, request, collected, memory>>

ParseConfig ==
    /\ pc = "parse" /\ pos < Len(op.words) /\ Here.action = "OPTIMIZER_CONFIG" /\ Local
    /\ Goto(IF VerifyConfig(product, op.words[pos + 2].config, op.words[pos + 3].config)
            THEN "parse" ELSE "err")
    /\ pos' = pos + ActionWords(Here)
    /\ UNCHANGED <<jobVars, power, held, op, at, asked, base_addr, request, collected, memory>>

ParseNop ==
    /\ pc = "parse" /\ pos < Len(op.words) /\ Here.action = "NOP" /\ Local
    /\ pos' = pos + ActionWords(Here)
    /\ UNCHANGED <<pc, jobVars, power, held, op, at, asked, base_addr, request, collected, memory>>

\* handle_command_stream: the alignment checks and the flush of the data cache.
ParseStream ==
    /\ pc = "parse" /\ pos < Len(op.words) /\ Here.action = "COMMAND_STREAM" /\ Local
    /\ LET cmd_stream == at + BYTES_IN_32_BITS * (pos + 1)
       IN  IF Aligned(cmd_stream) /\ \A i \in DOMAIN base_addr : Aligned(base_addr[i])
           THEN /\ request' = [stream |-> cmd_stream,
                               bytes |-> BYTES_IN_32_BITS * StreamLength(Here),
                               bases |-> base_addr]
                /\ clean' = TRUE
                /\ Goto("power")
           ELSE Goto("err") /\ UNCHANGED <<request, clean>>
    /\ pos' = pos + ActionWords(Here)
    /\ UNCHANGED <<jobVars, power, held, op, at, asked, base_addr, collected, unseen>>

PowerForRun ==
    /\ pc = "power" /\ Idle
    /\ power' = power + 1
    /\ IF power = 0
       THEN CallSoftReset(FALSE) /\ Goto("powered")
       ELSE Goto("start") /\ UNCHANGED deviceVars
    /\ UNCHANGED <<jobVars, held, payload, request, collected, memory, sound>>

Powered ==
    /\ pc = "powered" /\ Local
    /\ IF answer = "ok" THEN Goto("start") /\ UNCHANGED power
       ELSE Goto("err") /\ power' = power - 1
    /\ UNCHANGED <<jobVars, held, payload, request, collected, memory>>

Start ==
    /\ pc = "start" /\ Idle /\ CallRun(request)
    /\ state' = "RUNNING"
    /\ Goto("started")
    /\ UNCHANGED <<result, power, held, payload, request, collected, memory, sound>>

Started ==
    /\ pc = "started" /\ Local
    /\ Goto("parse")
    /\ UNCHANGED <<jobVars, power, held, payload, request, collected, memory>>

Err ==
    /\ pc = "err" /\ Local
    /\ state' = "IDLE" /\ result' = "OK"
    /\ Goto("idle")
    /\ UNCHANGED <<power, held, payload, request, collected, memory>>

-----------------------------------------------------------------------------
(* ethosu_wait.                                                            *)

Wait ==
    /\ pc = "idle" /\ state # "IDLE" /\ Local
    /\ Goto("wait")
    /\ UNCHANGED <<jobVars, power, held, payload, request, collected, memory>>

WaitDone ==
    /\ pc = "wait" /\ state = "DONE" /\ Local
    /\ Goto("end")
    /\ UNCHANGED <<jobVars, power, held, payload, request, collected, memory>>

WaitTimeout ==
    /\ pc = "wait" /\ state = "RUNNING" /\ Local
    /\ result' = "TIMEOUT"
    /\ Goto("end")
    /\ UNCHANGED <<state, power, held, payload, request, collected, memory>>

\* Slip: the invalidation is forgotten.
EndWithoutInvalidate ==
    /\ pc = "end" /\ Local
    /\ Goto("unpower")
    /\ UNCHANGED <<jobVars, power, held, payload, request, collected, memory>>

\* ethosu_invalidate_dcache.
Invalidate ==
    /\ pc = "end" /\ Local
    /\ unseen' = FALSE
    /\ Goto("unpower")
    /\ UNCHANGED <<jobVars, power, held, payload, request, collected, clean>>

\* ethosu_release_power.
PowerAfterRun ==
    /\ pc = "unpower" /\ Idle
    /\ power' = power - 1
    /\ IF power = 1 THEN CallGating ELSE UNCHANGED deviceVars
    /\ Goto("verdict")
    /\ UNCHANGED <<jobVars, held, payload, request, collected, memory, sound>>

Verdict ==
    /\ pc = "verdict" /\ Idle
    /\ IF result = "OK" THEN UNCHANGED deviceVars ELSE CallSoftReset(power = 0)
    /\ collected' = (result = "OK")
    /\ Goto("clear")
    /\ UNCHANGED <<jobVars, power, held, payload, request, memory, sound>>

Clear ==
    /\ pc = "clear" /\ Local
    /\ state' = "IDLE" /\ result' = "OK"
    /\ Goto("idle")
    /\ UNCHANGED <<power, held, payload, request, collected, memory>>

-----------------------------------------------------------------------------
(* Power requests and resets of the application.                           *)

RequestPower ==
    /\ pc = "idle" /\ power < MaxPower /\ Idle
    /\ power' = power + 1 /\ held' = held + 1
    /\ IF power = 0
       THEN CallSoftReset(FALSE) /\ Goto("request")
       ELSE UNCHANGED <<pc, deviceVars>>
    /\ UNCHANGED <<jobVars, payload, request, collected, memory, sound>>

\* Slip: the failed request is not counted, but the application holds it.
RequestReturnHolds ==
    /\ pc = "request" /\ Local
    /\ power' = IF answer = "ok" THEN power ELSE power - 1
    /\ Goto("idle")
    /\ UNCHANGED <<jobVars, held, payload, request, collected, memory>>

RequestReturn ==
    /\ pc = "request" /\ Local
    /\ IF answer = "ok" THEN UNCHANGED <<power, held>>
       ELSE power' = power - 1 /\ held' = held - 1
    /\ Goto("idle")
    /\ UNCHANGED <<jobVars, payload, request, collected, memory>>

ReleasePower ==
    /\ pc = "idle" /\ held > 0 /\ Idle
    /\ power' = power - 1 /\ held' = held - 1
    /\ IF power = 1 THEN CallGating ELSE UNCHANGED deviceVars
    /\ Goto("return")
    /\ UNCHANGED <<jobVars, payload, request, collected, memory, sound>>

SoftReset ==
    /\ pc = "idle" /\ state = "IDLE" /\ Idle
    /\ CallSoftReset(power = 0)
    /\ Goto("return")
    /\ UNCHANGED <<jobVars, power, held, payload, request, collected, memory, sound>>

Return ==
    /\ pc = "return" /\ Local
    /\ Goto("idle")
    /\ UNCHANGED <<jobVars, power, held, payload, request, collected, memory>>

-----------------------------------------------------------------------------
\* The device layer goes on; sound follows its soft resets.
LayerStep ==
    /\ DeviceStep
    /\ sound' = IF dev = "reset" THEN FALSE
                ELSE sound \/ (Resetting /\ dev' = "none" /\ answer' = "ok")
    /\ UNCHANGED driverVars

\* ethosu_irq_handler.
IrqHandler ==
    /\ irq /\ ClearInterrupt
    /\ IF result = "TIMEOUT" THEN UNCHANGED jobVars
       ELSE state' = "DONE" /\ result' = IF NpuSucceeded THEN "OK" ELSE "ERROR"
    /\ UNCHANGED <<pc, power, held, payload, request, collected, memory, sound>>

\* The NPU writes to memory until it stops.
Hardware ==
    /\ NpuStep
    /\ unseen' = (unseen \/ npu = "running")
    /\ UNCHANGED <<pc, jobVars, power, held, payload, request, collected, clean, sound>>

ApplicationStep ==
    \/ InitCall
    \/ \E p \in Payloads, a \in Placements, b \in BaseAddresses[product] : Invoke(p, a, b)
    \/ Wait \/ RequestPower \/ ReleasePower \/ SoftReset

DriverStep ==
    \/ InitReturn
    \/ AdjustFastMemory \/ ParseEnd \/ ParseConfig \/ ParseNop \/ ParseStream
    \/ PowerForRun \/ Powered \/ Start \/ Started \/ Err
    \/ WaitDone \/ WaitTimeout \/ Invalidate \/ PowerAfterRun \/ Verdict \/ Clear
    \/ RequestReturn \/ Return

InvokeInit ==
    /\ DeviceInit
    /\ pc = "off" /\ state = "IDLE" /\ result = "OK" /\ power = 0 /\ held = 0
    /\ op = [actions |-> << >>, starts |-> <<1>>, words |-> << Word("FOURCC", 0, 0) >>]
    /\ at = 0 /\ pos = 1 /\ asked = << >> /\ base_addr = << >>
    /\ request = << >> /\ collected = FALSE /\ clean = FALSE /\ unseen = FALSE /\ sound = FALSE

InvokeNext == ApplicationStep \/ DriverStep \/ LayerStep \/ IrqHandler \/ Hardware

InvokeSpec == InvokeInit /\ [][InvokeNext]_allVars

-----------------------------------------------------------------------------
TypeOK ==
    /\ pc \in {"off", "init", "idle", "header", "parse", "power", "powered", "start", "started",
               "err", "wait", "end", "unpower", "verdict", "clear", "request", "return"}
    /\ state \in {"IDLE", "RUNNING", "DONE"} /\ result \in {"OK", "ERROR", "TIMEOUT"}
    /\ power \in 0..MaxPower /\ held \in 0..power
    /\ npu \in {"stopped", "running", "resetting"}
    /\ cmd \subseteq CmdBits /\ word \subseteq CmdBits
    /\ regs \in [Registers -> Nat]
    /\ dev \in {"none", "reset", "poll", "verify", "write", "cmdwrite"}
    /\ answer \in {"none", "ok", "failed"}

\* data_ptr stands on driver actions of the compiler and on nothing else: no
\* word of a configuration or of a command stream is taken for an action, for
\* lengths that need the reserved byte too, and the last action ends the payload.
ParserInStep ==
    pc = "parse" => \E n \in DOMAIN op.starts : pos = op.starts[n]

\* The address in a pair of register words.
Value(name, i) == regs[<<name, 2 * i>>] + regs[<<name, 2 * i + 1>>] * WordMod

\* The base address the NPU is to use for region i.
Expected(i) == IF i = 2 /\ FastMemory # 0 THEN FastMemory ELSE asked[i + 1]

\* The NPU's registers tell it to execute the command stream of the payload, all
\* of it, on the application's memory, through the ports chosen for the regions.
ExecutesThePayload ==
    \E n \in DOMAIN op.actions :
        /\ op.actions[n].kind = "COMMAND_STREAM"
        /\ Value("QBASE", 0) = AddressRemap(at + 4 * (op.starts[n] + 1), -1)
        /\ regs[<<"QSIZE", 0>>] = 4 * op.actions[n].len
        /\ regs[<<"QCONFIG", 0>>] = ConfigSelect(Value("QBASE", 0), -1)
        /\ \A i \in 0..Len(asked) - 1 :
            /\ Value("BASEP", i) = AddressRemap(Expected(i), i)
            /\ (regs[<<"REGIONCFG", 0>>] \div RegionWeight[i + 1]) % 4 = ConfigSelect(Value("BASEP", i), i)

\* The running NPU executes the payload of the last invocation: queue base and
\* size, base pointers and region configuration survive splitting, shifting,
\* resets and the interrupts in between.  (A start in a reset that was given up,
\* with another client holding power, is excepted: the writes are lost.)
RunsThePayload == npu = "running" /\ sound => ExecutesThePayload

\* A wait is about to return 0 only when the NPU has come to the end of that
\* payload's command stream, without a fault: neither a late interrupt of a job
\* given up before nor the end of another job is taken for it.
HandsBackThePayload ==
    pc = "clear" /\ collected /\ sound =>
        npu = "stopped" /\ NpuSucceeded /\ ExecutesThePayload

\* The running NPU has the access state the driver was configured with and the
\* driver's AXI (and, on U85, memory attribute and power ramp) settings: a reset
\* loses them all, and every reset that succeeds brings them back.
RunsConfigured ==
    npu = "running" /\ sound =>
        prot /\ \A i \in DOMAIN AxiInit : regs[AxiInit[i][1]] = AxiInit[i][2]

\* A stream runs only if the NPU is the one it was compiled for: its architecture
\* no older than the stream's, with every feature the stream uses.
RunsCompatible ==
    npu = "running" =>
        \A i \in DOMAIN op.actions : op.actions[i].kind = "OPTIMIZER_CONFIG" =>
            LET need == op.actions[i].config
            IN  /\ \A f \in {"product", "macs_per_cc", "cmd_stream_version", "arch_major"} :
                        need[f] = Hw[f]
                /\ \A f \in {"custom_dma", "arch_minor"} : need[f] <= Hw[f]
                /\ product = "U85" => need.axi = Hw.axi

\* The NPU reads inputs that have left the cache, and a wait that returns 0 leaves
\* no result of the NPU hidden behind it.
MemoryCoherent ==
    /\ npu = "running" => clean
    /\ collected => ~unseen

\* The NPU is started by ethosu_dev_run_command_stream only: clearing the
\* interrupt and changing the gating rewrite CMD, which still reads as the last
\* command, and must not give that command again.
StartedByRun == [][npu # "running" /\ npu' = "running" => task = "run"]_allVars
=============================================================================
