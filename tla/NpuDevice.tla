----------------------------- MODULE NpuDevice -----------------------------
(***************************************************************************)
(* The NPU behind ethosu_device.h, as the driver above that interface may  *)
(* think of it: every call takes effect at one instant.  EthosuJob is      *)
(* built on it; EthosuDevice shows that the sequences of register accesses *)
(* the calls really are, cut at every access, implement it.                *)
(***************************************************************************)
EXTENDS Integers

CONSTANT ResetOutcomes  \* how a soft reset of the device may end

ASSUME DeviceAssumption == ResetOutcomes \subseteq {"ok", "timeout", "denied"}

VARIABLES
    npu,     \* STATUS.state, and "resetting" while STATUS.reset_status is set
    irq,     \* the interrupt line (STATUS.irq_raised or pmu_irq_raised)
    end,     \* STATUS.cmd_end_reached
    fault,   \* any of the STATUS fault bits
    gate     \* CMD.power_q_enable, and clock_q_enable that follows it

device == <<npu, irq, end, fault, gate>>

\* The NPU after a successful ethosu_dev_init: soft-reset, its CMD register at
\* its reset value, with both q-channel enables set.
DevInit == npu = "stopped" /\ irq = FALSE /\ end = FALSE /\ fault = FALSE /\ gate = TRUE

-----------------------------------------------------------------------------
\* ethosu_dev_soft_reset: the RESET write stops the NPU and clears STATUS.  It
\* fails when STATUS.reset_status stays set ("timeout"; register writes are
\* ignored as long as it does) or the access state is refused ("denied").
DevSoftReset(o) ==
    /\ npu' = IF o = "timeout" THEN "resetting" ELSE "stopped"
    /\ irq' = FALSE
    /\ end' = FALSE
    /\ fault' = FALSE

\* Slip: CMD is left at its reset value.
SoftResetKeepsCmd(o, p) == DevSoftReset(o) /\ gate' = TRUE

\* ethosu_soft_reset with the counter at p: CMD, set to its reset value, is
\* rewritten from the counter if the reset succeeds.
SoftReset(o, p) == DevSoftReset(o) /\ gate' = (o # "ok" \/ p = 0)

\* ethosu_dev_run_command_stream: the writes of QBASE and QSIZE clear
\* cmd_end_reached, then CMD.transition_to_running_state is written.  In a reset
\* that was given up the writes are ignored; if it ends between the read of CMD
\* (as 0) and its write, the NPU starts, both q-channel enables cleared.
DevRunCommandStream ==
    /\ \/ npu # "resetting" /\ npu' = "running" /\ end' = FALSE /\ gate' = gate
       \/ npu = "resetting" /\ UNCHANGED <<npu, end, gate>>
       \/ npu = "resetting" /\ npu' = "running" /\ end' = FALSE /\ gate' = FALSE
    /\ UNCHANGED <<irq, fault>>

\* ethosu_dev_set_clock_and_power as ethosu_release_power calls it.
DevEnableGating == gate' = TRUE /\ UNCHANGED <<npu, irq, end, fault>>

\* ethosu_dev_handle_interrupt clears the interrupt ...
DevClearIrq == irq' = FALSE /\ UNCHANGED <<npu, end, fault, gate>>

\* ... and answers whether the NPU stopped at the end without a fault.
DevHandleInterrupt == IF end /\ ~fault THEN "OK" ELSE "ERROR"

\* The NPU stops and raises its interrupt, at the end of the command stream,
\* at a fault, or both (an ECC fault does not keep the stream from ending).
DevStops ==
    /\ npu = "running"
    /\ npu' = "stopped" /\ irq' = TRUE
    /\ end' \in BOOLEAN /\ fault' \in BOOLEAN /\ (end' \/ fault')
    /\ UNCHANGED gate

\* A reset the driver gave up waiting for ends after all.
DevResetEnds ==
    /\ npu = "resetting" /\ npu' = "stopped"
    /\ UNCHANGED <<irq, end, fault, gate>>

\* The NPU and whatever driver uses it.
DevNext ==
    \/ \E o \in ResetOutcomes, p \in {0, 1} : SoftReset(o, p)
    \/ DevRunCommandStream \/ DevEnableGating
    \/ irq /\ DevClearIrq
    \/ DevStops \/ DevResetEnds

DevSpec == DevInit /\ [][DevNext]_device
=============================================================================
