---------------------------- MODULE EthosuDevice ----------------------------
(***************************************************************************)
(* The device layer, ethosu_device_u55_u65.c and ethosu_device_u85.c,      *)
(* register by register.  Its functions are called by one thread and run   *)
(* one access at a time; the interrupt handler comes between any two of    *)
(* them, and so does the NPU, which stops, or ends a reset, when it likes. *)
(* Addresses are split in words of WordMod values, payload sizes and word  *)
(* widths are those of the code up to that number.  PMU interrupts and     *)
(* reads of ID and CONFIG change nothing here.                             *)
(***************************************************************************)
EXTENDS Integers, Sequences

CONSTANTS
    Products,            \* NPUs the driver can be built for
    WordMod,             \* number of values of a register word
    Addresses,           \* addresses of memory
    ResetOutcomes,       \* as in NpuDevice
    AddressRemap(_, _),  \* ethosu_address_remap and ethosu_config_select, weak
    ConfigSelect(_, _)   \* functions the application may replace

ASSUME DeviceLayerAssumption ==
    /\ Products \subseteq {"U55", "U65", "U85"}
    /\ WordMod \in Nat \ {0}
    /\ ResetOutcomes \subseteq {"ok", "timeout", "denied"} /\ "ok" \in ResetOutcomes
    /\ Addresses \subseteq Nat
    /\ \A a \in Addresses, i \in -1..7 :
        AddressRemap(a, i) \in Nat /\ ConfigSelect(AddressRemap(a, i), i) \in 0..3

VARIABLES
    product,  \* the NPU the driver is built for
    npu,      \* STATUS.state, and "resetting" while STATUS.reset_status is set
    irq,      \* STATUS.irq_raised
    end,      \* STATUS.cmd_end_reached
    fault,    \* any of the STATUS bits that make handle_interrupt answer false
    prot,     \* PROT shows the access state the driver asked for
    cmd,      \* CMD, which reads as last written: the set of its bits
    regs,     \* the other registers, by name and index
    dev,      \* where the thread is in the device layer; "none" outside
    task,     \* what it is doing there
    todo,     \* register writes it has still to make
    gating,   \* enable power and clock gating? (argument)
    word,     \* local cmd of the read-modify-write of CMD
    answer,   \* what the last call returned
    before,   \* history: STATUS and gating at the start of the call
    stale     \* history: CMD was read in a reset, and will be written

npuVars    == <<npu, irq, end, fault, prot, cmd, regs>>
callVars   == <<dev, task, todo, gating, word, answer>>
deviceVars == <<product, npuVars, callVars, before, stale>>

-----------------------------------------------------------------------------
(* The registers.                                                          *)

\* NPU_CMD_PWR_CLK_MASK; also what CMD reads after a reset.
PwrClkMask == {"clock_q_enable", "power_q_enable"}
CmdBits == PwrClkMask \cup {"transition_to_running_state", "clear_irq"}

NPU_REG_BASEP_ARRLEN == 8

Registers ==
    ({"QBASE"} \X {0, 1}) \cup ({"QSIZE", "QCONFIG", "REGIONCFG"} \X {0})
        \cup ({"BASEP"} \X (0..2 * NPU_REG_BASEP_ARRLEN - 1))
        \cup ({"AXI_LIMIT", "MEM_ATTR"} \X (0..3))
        \cup ({"AXI_SRAM", "AXI_EXT", "POWER_CTRL"} \X {0})

\* Writing one of these clears cmd_end_reached of a stopped NPU.
QueueRegisters == {<<"QBASE", 0>>, <<"QBASE", 1>>, <<"QSIZE", 0>>}

ResetRegs == [r \in Registers |-> 0]

\* The driver's settings of ethosu_config_*.h; 0 is the reset value.
Configured(r) == <<r, 1>>

\* The writes of ethosu_dev_axi_init, and of POWER_CTRL that follows it on U85.
AxiInitU55 == [i \in 1..4 |-> Configured(<<"AXI_LIMIT", i - 1>>)]

AxiInitU85 ==
    [i \in 1..4 |-> Configured(<<"MEM_ATTR", i - 1>>)]
        \o << Configured(<<"AXI_SRAM", 0>>), Configured(<<"AXI_EXT", 0>>),
              Configured(<<"POWER_CTRL", 0>>) >>

AxiInit == IF product = "U85" THEN AxiInitU85 ELSE AxiInitU55

\* The writes of a row of 64-bit registers; the driver for U55 writes the low
\* words only.
WordsPerAddress == IF product = "U55" THEN 1 ELSE 2

AddressWrites(name, as) ==
    [n \in 1..WordsPerAddress * Len(as) |->
        LET i == (n - 1) \div WordsPerAddress
            h == (n - 1) % WordsPerAddress
            a == as[i + 1]
        IN  <<<<name, 2 * i + h>>, IF h = 0 THEN a % WordMod ELSE a \div WordMod>>]

\* A job: where the command stream is, its length in bytes, the base addresses.
Base(j, i) == AddressRemap(j.bases[i + 1], i)
QBase(j) == AddressRemap(j.stream, -1)

\* What the loop over the base addresses composes, weight[i + 1] being what its
\* shift multiplies the ports of region i with.
Composed(j, weight) ==
    LET part(i) ==
            IF i < Len(j.bases) THEN ConfigSelect(Base(j, i), i) * weight[i + 1] ELSE 0
    IN  part(0) + part(1) + part(2) + part(3) + part(4) + part(5) + part(6) + part(7)

\* Slip: one bit per region where there are two.
RegionCfgOneBit(j) == Composed(j, <<1, 2, 4, 8, 16, 32, 64, 128>>)

\* rcfg: two bits per region, ORed together.
RegionWeight == <<1, 4, 16, 64, 256, 1024, 4096, 16384>>
RegionCfg(j) == Composed(j, RegionWeight)

\* The writes ethosu_dev_run_command_stream makes before it writes CMD.
RunWrites(j) ==
    AddressWrites("QBASE", << QBase(j) >>)
        \o << <<<<"QSIZE", 0>>, j.bytes>>, <<<<"QCONFIG", 0>>, ConfigSelect(QBase(j), -1)>> >>
        \o AddressWrites("BASEP", [n \in 1..Len(j.bases) |-> Base(j, n - 1)])
        \o << <<<<"REGIONCFG", 0>>, RegionCfg(j)>> >>

\* What the function asserts: num_base_addr <= NPU_REG_BASEP_ARRLEN, and addresses
\* within ADDRESS_MASK, which is 32 bits on U55, 40 on the others (256 times as much).
AddressesFit(j) ==
    LET mask == IF product = "U55" THEN WordMod ELSE 256 * WordMod
    IN  /\ Len(j.bases) <= NPU_REG_BASEP_ARRLEN
        /\ QBase(j) < mask /\ \A i \in 0..Len(j.bases) - 1 : Base(j, i) < mask

\* A write of CMD.
WriteCmd(w) ==
    IF npu = "resetting" THEN UNCHANGED <<npu, irq, cmd>>
    ELSE /\ cmd' = w
         /\ npu' = IF "transition_to_running_state" \in w THEN "running" ELSE npu
         /\ irq' = (irq /\ "clear_irq" \notin w)

\* What reading CMD gives.
ReadCmd == IF npu = "resetting" THEN {} ELSE cmd

-----------------------------------------------------------------------------
(* The calls.  Each leads through steps below to dev = "none" and answer.  *)

Idle == dev = "none"

Begin(t, d, ws) ==
    /\ dev' = d /\ task' = t /\ todo' = ws
    /\ before' = [npu |-> npu, irq |-> irq, end |-> end, fault |-> fault,
                  gate |-> "power_q_enable" \in cmd]
    /\ UNCHANGED <<product, npuVars, word, answer, stale>>

\* ethosu_soft_reset; g: the power request counter is 0.
CallSoftReset(g) == Begin("reset", "reset", << >>) /\ gating' = g

\* ethosu_dev_soft_reset as ethosu_dev_init calls it.
CallInit == Begin("init", "reset", << >>) /\ gating' = TRUE

\* ethosu_dev_run_command_stream.
CallRun(j) == AddressesFit(j) /\ Begin("run", "write", RunWrites(j)) /\ UNCHANGED gating

\* ethosu_dev_set_clock_and_power(dev, CLOCK_Q_ENABLE, POWER_Q_ENABLE).
CallGating == Begin("gating", "write", << >>) /\ gating' = TRUE

Finish(a) == dev' = "none" /\ todo' = << >> /\ answer' = a

-----------------------------------------------------------------------------
(* ethosu_dev_soft_reset.                                                  *)

\* The write of RESET takes effect at once, but for the access state.
WriteReset ==
    /\ dev = "reset"
    /\ npu' = "resetting" /\ irq' = FALSE /\ end' = FALSE /\ fault' = FALSE
    /\ cmd' = PwrClkMask /\ regs' = ResetRegs
    /\ before' = [npu |-> npu, irq |-> irq, end |-> end, fault |-> fault,
                  gate |-> "power_q_enable" \in cmd]
    /\ dev' = "poll"
    /\ UNCHANGED <<product, prot, task, todo, gating, word, answer, stale>>

\* Slip: the loop is left without looking at reset_status again.
PollOnce ==
    /\ dev = "poll"
    /\ dev' = "verify"
    /\ UNCHANGED <<product, npuVars, task, todo, gating, word, answer, before, stale>>

PollDone ==
    /\ dev = "poll" /\ npu # "resetting"
    /\ dev' = "verify"
    /\ UNCHANGED <<product, npuVars, task, todo, gating, word, answer, before, stale>>

PollTimeout ==
    /\ dev = "poll" /\ npu = "resetting" /\ "timeout" \in ResetOutcomes
    /\ Finish("failed")
    /\ UNCHANGED <<product, npuVars, task, gating, word, before, stale>>

\* Slip: the AXI settings are taken to survive a reset.
VerifyOnly ==
    /\ dev = "verify"
    /\ IF prot THEN dev' = "write" /\ UNCHANGED <<todo, answer>> ELSE Finish("failed")
    /\ UNCHANGED <<product, npuVars, task, gating, word, before, stale>>

\* ethosu_dev_verify_access_state, then ethosu_dev_axi_init.
Verify ==
    /\ dev = "verify"
    /\ IF prot THEN dev' = "write" /\ todo' = AxiInit /\ UNCHANGED answer ELSE Finish("failed")
    /\ UNCHANGED <<product, npuVars, task, gating, word, before, stale>>

-----------------------------------------------------------------------------
(* Writes, and the read-modify-write of CMD.                               *)

Write ==
    /\ dev = "write" /\ todo # << >>
    /\ todo' = Tail(todo)
    /\ LET r == Head(todo)[1]
       IN  IF npu = "resetting" THEN UNCHANGED <<regs, end>>
           ELSE /\ regs' = [regs EXCEPT ![r] = Head(todo)[2]]
                /\ end' = (end /\ ~(r \in QueueRegisters /\ npu = "stopped"))
    /\ UNCHANGED <<product, npu, irq, fault, prot, cmd, dev, task, gating, word, answer,
                   before, stale>>

\* ethosu_dev_init does not touch CMD.
InitDone ==
    /\ dev = "write" /\ todo = << >> /\ task = "init"
    /\ Finish("ok")
    /\ UNCHANGED <<product, npuVars, task, gating, word, before, stale>>

\* Slip: the last command is written back with the rest of CMD.
CmdReadUnmasked ==
    /\ dev = "write" /\ todo = << >> /\ task # "init"
    /\ word' = IF task = "run" THEN ReadCmd \cup {"transition_to_running_state"}
               ELSE IF gating THEN ReadCmd \cup PwrClkMask ELSE ReadCmd \ PwrClkMask
    /\ stale' = (task = "run" /\ npu = "resetting")
    /\ dev' = "cmdwrite"
    /\ UNCHANGED <<product, npuVars, task, todo, gating, answer, before>>

CmdRead ==
    /\ dev = "write" /\ todo = << >> /\ task # "init"
    /\ LET kept == ReadCmd \cap PwrClkMask
       IN  word' = IF task = "run" THEN kept \cup {"transition_to_running_state"}
                   ELSE IF gating THEN kept \cup PwrClkMask ELSE kept \ PwrClkMask
    /\ stale' = (task = "run" /\ npu = "resetting")
    /\ dev' = "cmdwrite"
    /\ UNCHANGED <<product, npuVars, task, todo, gating, answer, before>>

CmdWrite ==
    /\ dev = "cmdwrite"
    /\ WriteCmd(word)
    /\ stale' = FALSE
    /\ Finish("ok")
    /\ UNCHANGED <<product, end, fault, prot, regs, task, gating, word, before>>

DeviceStep ==
    WriteReset \/ PollDone \/ PollTimeout \/ Verify \/ Write \/ InitDone \/ CmdRead \/ CmdWrite

-----------------------------------------------------------------------------
(* The interrupt handler's part, and the NPU's.                            *)

\* Slip: CMD is written back whole, the last command with it.
ClearInterruptUnmasked ==
    /\ WriteCmd(ReadCmd \cup {"clear_irq"})
    /\ UNCHANGED <<product, end, fault, prot, regs, callVars, before, stale>>

\* ethosu_dev_handle_interrupt, ...
ClearInterrupt ==
    /\ WriteCmd((ReadCmd \cap PwrClkMask) \cup {"clear_irq"})
    /\ UNCHANGED <<product, end, fault, prot, regs, callVars, before, stale>>

\* ... and what it answers.
NpuSucceeded == end /\ ~fault

Stop ==
    /\ npu = "running"
    /\ npu' = "stopped" /\ irq' = TRUE
    /\ end' \in BOOLEAN /\ fault' \in BOOLEAN /\ (end' \/ fault')
    /\ UNCHANGED <<product, prot, cmd, regs, callVars, before, stale>>

\* A reset ends, and the pending access state becomes the active one, or not.
ResetEnds ==
    /\ npu = "resetting"
    /\ npu' = "stopped"
    /\ prot' \in {TRUE} \cup (IF "denied" \in ResetOutcomes THEN {FALSE} ELSE {})
    /\ UNCHANGED <<product, irq, end, fault, cmd, regs, callVars, before, stale>>

NpuStep == Stop \/ ResetEnds

-----------------------------------------------------------------------------
(* The layer by itself, under any one-threaded driver that starts a command *)
(* stream only on an NPU that is not running (RestMeansQuiet of EthosuJob). *)

Jobs == [stream : Addresses, bytes : Nat, bases : Seq(Addresses)]

DeviceInit ==
    /\ product \in Products
    /\ npu = "stopped" /\ irq = FALSE /\ end = FALSE /\ fault = FALSE
    /\ prot = FALSE /\ cmd = PwrClkMask /\ regs = ResetRegs
    /\ dev = "none" /\ task = "init" /\ todo = << >> /\ gating = TRUE /\ word = {}
    /\ answer = "none" /\ stale = FALSE
    /\ before = [npu |-> "stopped", irq |-> FALSE, end |-> FALSE, fault |-> FALSE, gate |-> TRUE]

AnyCall ==
    /\ Idle
    /\ \/ CallInit \/ CallGating
       \/ \E g \in BOOLEAN : CallSoftReset(g)
       \/ npu # "running" /\ \E j \in Jobs : CallRun(j)

DeviceNext == AnyCall \/ DeviceStep \/ (irq /\ ClearInterrupt) \/ NpuStep

DeviceSpec == DeviceInit /\ [][DeviceNext]_deviceVars

-----------------------------------------------------------------------------
(* The NPU as seen from above the layer.  A reset happens when it is over:  *)
(* from the write of RESET to the end of the call the state before it is    *)
(* shown.  A start happens at the write of CMD, so cmd_end_reached, which   *)
(* QBASE clears, is shown as before until then, and a reset that ends       *)
(* between the read of CMD and its write is shown with the write.           *)

Resetting == task \in {"init", "reset"} /\ dev \in {"poll", "verify", "write", "cmdwrite"}
Starting  == task = "run" /\ dev \in {"write", "cmdwrite"}

Npu ==
    INSTANCE NpuDevice WITH
        npu   <- IF Resetting THEN before.npu ELSE IF stale THEN "resetting" ELSE npu,
        irq   <- IF Resetting THEN before.irq ELSE irq,
        end   <- IF Resetting \/ Starting THEN before.end ELSE end,
        fault <- IF Resetting THEN before.fault ELSE fault,
        gate  <- IF Resetting THEN before.gate ELSE "power_q_enable" \in cmd

\* The calls take effect at one instant each, whatever interrupts them: what
\* EthosuJob assumes of the layer, the layer does.
ImplementsDevice == Npu!DevSpec
=============================================================================
