------------------------- MODULE EthosuDeviceProofs -------------------------
(***************************************************************************)
(* The device layer, cut at every register access, implements NpuDevice,   *)
(* whose calls take effect at one instant: for every product, word width,  *)
(* set of addresses and jobs, and every way a soft reset may end.          *)
(***************************************************************************)
EXTENDS EthosuDevice, SequenceTheorems, TLAPS

\* Where a call can be, and that gating and runs have no more writes to make
\* than they were given.
PlacesInv ==
    /\ dev \in {"none", "reset", "poll", "verify", "write", "cmdwrite"}
    /\ task \in {"init", "reset", "run", "gating"}
    /\ npu \in {"stopped", "running", "resetting"} /\ irq \in BOOLEAN
    /\ dev \in {"reset", "poll", "verify"} => task \in {"init", "reset"}
    /\ dev = "cmdwrite" => task # "init"
    /\ task = "gating" => gating /\ (dev = "write" => todo = << >>)

\* A reset leaves STATUS and CMD alone once it has cleared them.
ResetInv ==
    /\ npu = "resetting" \/ Resetting => irq = FALSE /\ end = FALSE /\ fault = FALSE
    /\ Resetting => npu # "running" /\ cmd = PwrClkMask
    /\ Resetting /\ dev # "poll" => npu = "stopped"
    /\ Resetting /\ npu = "stopped" /\ dev \in {"poll", "verify"} =>
        prot \/ "denied" \in ResetOutcomes

\* From the first write of a start to its last, cmd_end_reached is cleared or
\* about to be, and the NPU does not run.
StartInv ==
    /\ Starting => npu # "running"
    /\ Starting /\ npu = "resetting" => before.end = FALSE
    /\ Starting /\ dev = "write" =>
        end = FALSE \/ (todo # << >> /\ Head(todo)[1] \in QueueRegisters)
    /\ Starting /\ dev = "cmdwrite" => end = FALSE

\* What is about to be written to CMD, and what has become of CMD since it was
\* read.
CmdInv ==
    /\ stale \in BOOLEAN
    /\ stale => /\ dev = "cmdwrite" /\ task = "run"
                /\ word = {"transition_to_running_state"}
                /\ before.end = FALSE
    /\ dev = "cmdwrite" /\ task = "reset" => word = IF gating THEN PwrClkMask ELSE {}
    /\ dev = "cmdwrite" /\ task = "gating" => word = PwrClkMask
    /\ dev = "cmdwrite" /\ task = "run" /\ ~stale =>
        /\ npu # "resetting"
        /\ "clear_irq" \notin word /\ "transition_to_running_state" \in word
        /\ "power_q_enable" \in word <=> "power_q_enable" \in cmd

DevInv == PlacesInv /\ ResetInv /\ StartInv /\ CmdInv

\* The writes of an address are a sequence.
LEMMA AddressWritesSeq ==
    ASSUME NEW name, NEW as, Len(as) \in Nat
    PROVE  \E S : AddressWrites(name, as) \in Seq(S)
<1> DEFINE n == WordsPerAddress * Len(as)
           w == AddressWrites(name, as)
           S == {w[i] : i \in 1..n}
<1>1. n \in Nat
  <2>1. WordsPerAddress \in {1, 2}
    BY DEF WordsPerAddress
  <2>2. \A m \in Nat, k \in {1, 2} : k * m \in Nat
    OBVIOUS
  <2> QED BY <2>1, <2>2
<1>2. w = [i \in 1..n |-> w[i]]
  BY DEF AddressWrites
<1>3. w \in [1..n -> S]
  BY <1>2
<1>4. w \in Seq(S)
  BY <1>1, <1>3, SeqDef
<1> QED BY <1>4

\* The first write of a start is to QBASE, which clears cmd_end_reached.
LEMMA QBaseFirst ==
    ASSUME NEW j \in Jobs
    PROVE  RunWrites(j) # << >> /\ Head(RunWrites(j))[1] \in QueueRegisters
<1> DEFINE q == << QBase(j) >>
           a == AddressWrites("QBASE", q)
           b == << <<<<"QSIZE", 0>>, j.bytes>>, <<<<"QCONFIG", 0>>, ConfigSelect(QBase(j), -1)>> >>
           c == AddressWrites("BASEP", [n \in 1..Len(j.bases) |-> Base(j, n - 1)])
           d == << <<<<"REGIONCFG", 0>>, RegionCfg(j)>> >>
<1>1. Len(q) = 1 /\ Len(j.bases) \in Nat
  BY LenProperties DEF Jobs
<1>2. Len([n \in 1..Len(j.bases) |-> Base(j, n - 1)]) \in Nat
  BY <1>1
<1>3. PICK A : a \in Seq(A)
  BY <1>1, AddressWritesSeq
<1>4. PICK C : c \in Seq(C)
  BY <1>2, AddressWritesSeq
<1> DEFINE B == {b[1], b[2]}  D == {d[1]}  S == A \cup B \cup C \cup D
<1>5. b \in Seq(B) /\ d \in Seq(D)
  OBVIOUS
<1>6. a \in Seq(S) /\ b \in Seq(S) /\ c \in Seq(S) /\ d \in Seq(S)
  BY <1>3, <1>4, <1>5, SeqMonotonic
<1>7. Len(a) >= 1 /\ a[1][1] = <<"QBASE", 0>>
  <2>1. CASE product = "U55"
    <3>1. a = [n \in 1..1 |-> <<<<"QBASE", 2 * ((n - 1) \div 1) + ((n - 1) % 1)>>,
                               IF (n - 1) % 1 = 0 THEN q[(n - 1) \div 1 + 1] % WordMod
                               ELSE q[(n - 1) \div 1 + 1] \div WordMod>>]
      BY <1>1, <2>1 DEF AddressWrites, WordsPerAddress
    <3> QED BY <3>1
  <2>2. CASE product # "U55"
    <3>1. a = [n \in 1..2 |-> <<<<"QBASE", 2 * ((n - 1) \div 2) + ((n - 1) % 2)>>,
                               IF (n - 1) % 2 = 0 THEN q[(n - 1) \div 2 + 1] % WordMod
                               ELSE q[(n - 1) \div 2 + 1] \div WordMod>>]
      BY <1>1, <2>2 DEF AddressWrites, WordsPerAddress
    <3> QED BY <3>1
  <2> QED BY <2>1, <2>2
<1> HIDE DEF a, b, c, d, S
<1>8. a \o b \in Seq(S) /\ Len(a \o b) >= 1 /\ (a \o b)[1] = a[1]
  BY <1>6, <1>7, ConcatProperties, LenProperties
<1>9. (a \o b) \o c \in Seq(S) /\ Len((a \o b) \o c) >= 1 /\ ((a \o b) \o c)[1] = a[1]
  BY <1>6, <1>8, ConcatProperties, LenProperties
<1>10. ((a \o b) \o c) \o d \in Seq(S) /\ Len(((a \o b) \o c) \o d) >= 1
        /\ (((a \o b) \o c) \o d)[1] = a[1]
  BY <1>6, <1>9, ConcatProperties, LenProperties
<1>11. RunWrites(j) = ((a \o b) \o c) \o d
  BY DEF RunWrites, a, b, c, d
<1>12. RunWrites(j) # << >> /\ Head(RunWrites(j)) = RunWrites(j)[1]
  BY <1>10, <1>11, HeadTailProperties, EmptySeq
<1> QED BY <1>7, <1>10, <1>11, <1>12 DEF QueueRegisters

\* The layer starts with no call under way.
LEMMA DevInvInit == DeviceInit => DevInv
BY DEF DeviceInit, DevInv, PlacesInv, ResetInv, StartInv, CmdInv, Resetting, Starting

\* Every step keeps the invariant: steps of the layer, whatever the handler
\* and the NPU do between them.
LEMMA DevInvStep == DevInv /\ [DeviceNext]_deviceVars => DevInv'
<1> SUFFICES ASSUME DevInv, [DeviceNext]_deviceVars PROVE DevInv'
  OBVIOUS
<1> USE DEF DevInv, PlacesInv, ResetInv, StartInv, CmdInv, Resetting, Starting, npuVars, callVars,
            Finish, PwrClkMask
<1>1. CASE Idle /\ CallInit
  BY <1>1 DEF Idle, CallInit, Begin
<1>2. CASE Idle /\ CallGating
  BY <1>2 DEF Idle, CallGating, Begin
<1>3. ASSUME NEW g \in BOOLEAN, Idle, CallSoftReset(g) PROVE DevInv'
  BY <1>3 DEF Idle, CallSoftReset, Begin
<1>4. ASSUME NEW j \in Jobs, Idle, npu # "running", CallRun(j) PROVE DevInv'
  BY <1>4, QBaseFirst DEF Idle, CallRun, Begin
<1>5. CASE WriteReset
  BY <1>5 DEF WriteReset
<1>6. CASE PollDone
  BY <1>6 DEF PollDone
<1>7. CASE PollTimeout
  BY <1>7 DEF PollTimeout
<1>8. CASE Verify
  BY <1>8 DEF Verify
<1>9. CASE Write
  BY <1>9 DEF Write
<1>10. CASE InitDone
  BY <1>10 DEF InitDone
<1>11. CASE CmdRead
  BY <1>11 DEF CmdRead, ReadCmd
<1>12. CASE CmdWrite
  BY <1>12 DEF CmdWrite, WriteCmd
<1>13. CASE irq /\ ClearInterrupt
  <2>1. npu # "resetting" /\ ~Resetting
    BY <1>13
  <2>2. npu' = npu /\ UNCHANGED <<product, end, fault, prot, regs, callVars, before, stale>>
    BY <1>13, <2>1 DEF ClearInterrupt, WriteCmd
  <2>3. "power_q_enable" \in cmd' <=> "power_q_enable" \in cmd
    BY <1>13, <2>1 DEF ClearInterrupt, WriteCmd, ReadCmd
  <2>4. irq' = FALSE
    BY <1>13, <2>1 DEF ClearInterrupt, WriteCmd
  <2> QED BY <2>1, <2>2, <2>3, <2>4
<1>14. CASE Stop
  BY <1>14 DEF Stop
<1>15. CASE ResetEnds
  BY <1>15 DEF ResetEnds
<1>16. CASE UNCHANGED deviceVars
  BY <1>16 DEF deviceVars
<1> QED
  BY <1>1, <1>2, <1>3, <1>4, <1>5, <1>6, <1>7, <1>8, <1>9, <1>10, <1>11, <1>12, <1>13, <1>14, <1>15, <1>16
      DEF DeviceNext, AnyCall, DeviceStep, NpuStep

\* Every step is one of NpuDevice's, or none: the calls show at the write or
\* the poll that ends them, and nothing of them shows before.
LEMMA DeviceMaps == DevInv /\ [DeviceNext]_deviceVars => [Npu!DevNext]_(Npu!device)
<1> SUFFICES ASSUME DevInv, [DeviceNext]_deviceVars PROVE [Npu!DevNext]_(Npu!device)
  OBVIOUS
<1> USE DEF DevInv, PlacesInv, ResetInv, StartInv, CmdInv, Resetting, Starting, npuVars, callVars,
            Finish, PwrClkMask, Npu!device
<1>0. ASSUME NEW o \in ResetOutcomes, NEW p \in {0, 1}, Npu!SoftReset(o, p) PROVE Npu!DevNext
  BY <1>0 DEF Npu!DevNext
<1>1. CASE Idle /\ (CallInit \/ CallGating \/ \E g \in BOOLEAN : CallSoftReset(g))
  BY <1>1 DEF Idle, CallInit, CallGating, CallSoftReset, Begin
<1>2. ASSUME NEW j \in Jobs, Idle, npu # "running", CallRun(j) PROVE UNCHANGED Npu!device
  BY <1>2 DEF Idle, CallRun, Begin
<1>3. CASE WriteReset
  BY <1>3 DEF WriteReset
<1>4. CASE PollDone
  BY <1>4 DEF PollDone
<1>5. CASE PollTimeout
  <2>1. Npu!SoftReset("timeout", 0)
    BY <1>5 DEF PollTimeout, Npu!SoftReset, Npu!DevSoftReset
  <2> QED BY <1>0, <1>5, <2>1 DEF PollTimeout
<1>6. CASE Verify /\ prot
  BY <1>6 DEF Verify
<1>7. CASE Verify /\ ~prot
  <2>1. Npu!SoftReset("denied", 0)
    BY <1>7 DEF Verify, Npu!SoftReset, Npu!DevSoftReset
  <2> QED BY <1>0, <1>7, <2>1 DEF Verify
<1>8. CASE Write
  BY <1>8 DEF Write
<1>9. CASE InitDone
  <2>1. Npu!SoftReset("ok", 0)
    BY <1>9 DEF InitDone, Npu!SoftReset, Npu!DevSoftReset
  <2> QED BY <1>0, <2>1, DeviceLayerAssumption DEF DeviceLayerAssumption
<1>10. CASE CmdRead
  BY <1>10 DEF CmdRead
<1>11. CASE CmdWrite /\ task = "reset"
  <2>1. Npu!SoftReset("ok", IF gating THEN 0 ELSE 1)
    BY <1>11 DEF CmdWrite, WriteCmd, Npu!SoftReset, Npu!DevSoftReset
  <2> QED BY <1>0, <2>1, DeviceLayerAssumption DEF DeviceLayerAssumption
<1>12. CASE CmdWrite /\ task = "run"
  <2>1. CASE npu = "resetting"
    BY <1>12, <2>1 DEF CmdWrite, WriteCmd
  <2>2. CASE npu # "resetting"
    <3>1. Npu!DevRunCommandStream
      BY <1>12, <2>2 DEF CmdWrite, WriteCmd, Npu!DevRunCommandStream
    <3> QED BY <3>1 DEF Npu!DevNext
  <2> QED BY <2>1, <2>2
<1>13. CASE CmdWrite /\ task = "gating"
  <2>1. CASE npu = "resetting"
    BY <1>13, <2>1 DEF CmdWrite, WriteCmd
  <2>2. CASE npu # "resetting"
    <3>1. Npu!DevEnableGating
      BY <1>13, <2>2 DEF CmdWrite, WriteCmd, Npu!DevEnableGating
    <3> QED BY <3>1 DEF Npu!DevNext
  <2> QED BY <2>1, <2>2
<1>14. CASE irq /\ ClearInterrupt
  <2>1. npu # "resetting" /\ ~Resetting
    BY <1>14
  <2>2. npu' = npu /\ UNCHANGED <<product, end, fault, prot, regs, callVars, before, stale>>
    BY <1>14, <2>1 DEF ClearInterrupt, WriteCmd
  <2>3. irq' = FALSE
    BY <1>14, <2>1 DEF ClearInterrupt, WriteCmd
  <2>4. "power_q_enable" \in cmd' <=> "power_q_enable" \in cmd
    BY <1>14, <2>1 DEF ClearInterrupt, WriteCmd, ReadCmd
  <2>5. Npu!DevClearIrq
    BY <2>1, <2>2, <2>3, <2>4 DEF Npu!DevClearIrq
  <2> QED BY <1>14, <2>1, <2>5 DEF Npu!DevNext
<1>15. CASE Stop
  <2>1. Npu!DevStops
    BY <1>15 DEF Stop, Npu!DevStops
  <2> QED BY <2>1 DEF Npu!DevNext
<1>16. CASE ResetEnds
  <2>1. CASE Resetting \/ stale
    BY <1>16, <2>1 DEF ResetEnds
  <2>2. CASE ~Resetting /\ ~stale
    <3>1. Npu!DevResetEnds
      BY <1>16, <2>2 DEF ResetEnds, Npu!DevResetEnds
    <3> QED BY <3>1 DEF Npu!DevNext
  <2> QED BY <2>1, <2>2
<1>17. CASE UNCHANGED deviceVars
  BY <1>17 DEF deviceVars
<1>18. CASE AnyCall
  BY <1>1, <1>2, <1>18 DEF AnyCall
<1>19. CASE Verify \/ CmdWrite
  <2>1. dev = "cmdwrite" => task \in {"reset", "run", "gating"}
    OBVIOUS
  <2>2. CmdWrite => dev = "cmdwrite"
    BY DEF CmdWrite
  <2> QED BY <1>6, <1>7, <1>11, <1>12, <1>13, <1>19, <2>1, <2>2
<1>20. CASE DeviceStep
  BY <1>3, <1>4, <1>5, <1>8, <1>9, <1>10, <1>19, <1>20 DEF DeviceStep
<1> QED BY <1>14, <1>15, <1>16, <1>17, <1>18, <1>20 DEF DeviceNext, NpuStep

\* The device layer implements NpuDevice, on which EthosuJob and all that is
\* proved of it is built: an interrupt between any two register accesses, a reset
\* that is given up, one that ends in the middle of a start, cannot be told from
\* calls that take effect at once.
THEOREM DeviceLayerImplements == DeviceSpec => ImplementsDevice
<1>1. DeviceInit => DevInv /\ Npu!DevInit
  BY DevInvInit DEF DeviceInit, Npu!DevInit, Resetting, Starting, PwrClkMask
<1> QED BY <1>1, DevInvStep, DeviceMaps, PTL DEF DeviceSpec, ImplementsDevice, Npu!DevSpec
=============================================================================
