-------------------------- MODULE EthosuPmuProofs --------------------------
(***************************************************************************)
(* The counters of EthosuPmu are exact and stay enabled as they were, for  *)
(* every number of event counters and every width of the registers.        *)
(* Nothing is assumed but PmuAssumption.                                   *)
(***************************************************************************)
EXTENDS EthosuPmu, TLAPS

\* Places at which a call has counters stopped that it works on.
OnCycle == {"inc_cycle", "inc_high", "inc_write_low", "inc_write_high"}
OnMask  == OnCycle \cup {"inc_event", "inc_write_event"}

\* A counter that is wanted is enabled, or will be before the call returns.
WantedIsKept ==
    /\ wanted = enabled \cup active
    /\ pc \in {"idle", "get_high", "got"} => active = {}
    /\ pc = "set_stop" => active = enabled \cap {Cycle}
    /\ pc = "inc_stop" => active = enabled

\* The cycle counter stands still while its words are read and written to be
\* changed, and so does each event counter.
StoppedWhileChanged ==
    /\ pc \in {"set_low", "set_high"} => Cycle \notin enabled
    /\ pc \in OnMask => enabled \cap mask = {}
    /\ pc \in OnCycle => Cycle \in mask
    /\ pc = "inc_write_event" => which \in Events \cap mask /\ num = event[which]

\* How far the registers are behind: by one word that is still to be written.
ShownIsDue ==
    /\ event = counts
    /\ pc \notin {"set_high", "inc_write_high"} => <<high, low>> = cycles
    /\ pc = "inc_high" => val[2] = low
    /\ pc \in {"inc_write_low", "inc_write_high"} => val = Succ(cycles)
    /\ pc \in {"set_high", "inc_write_high"} => low = val[2]

Ledger == WantedIsKept /\ StoppedWhileChanged /\ ShownIsDue

\* The inductive invariant.
PmuInv == TypeOK /\ Ledger

-----------------------------------------------------------------------------
\* Counting stays within the registers.
LEMMA SuccType == ASSUME NEW p \in Pairs PROVE Succ(p) \in Pairs
BY PmuAssumption DEF Pairs, Succ

\* The event counters wrap within their width.
LEMMA Next1Type == ASSUME NEW n \in 0..EventMax PROVE Next1(n) \in 0..EventMax
BY PmuAssumption DEF Next1

\* The PMU as reset leaves it satisfies the invariant.
LEMMA InitPmu == Init => PmuInv
<1> SUFFICES ASSUME Init PROVE PmuInv
  OBVIOUS
<1> USE PmuAssumption DEF Init
<1>1. TypeOK
  <2>1. on \in BOOLEAN
    BY Zenon
  <2> QED BY <2>1 DEF TypeOK, PCs, Counters, Pairs
<1>2. Ledger
  BY DEF Ledger, WantedIsKept, StoppedWhileChanged, ShownIsDue, OnMask, OnCycle
<1> QED BY <1>1, <1>2 DEF PmuInv

\* Every access of the driver and every NPU count keeps the types.
LEMMA TypeStep == PmuInv /\ [Next]_vars => TypeOK'
<1> SUFFICES ASSUME PmuInv, [Next]_vars PROVE TypeOK'
  OBVIOUS
<1> USE PmuAssumption, SuccType, Next1Type DEF PmuInv, TypeOK, PCs, Counters, Pairs, Goto
<1>1. CASE UNCHANGED vars
  BY <1>1 DEF vars, locals, ideal
<1>2. CASE ApiCall
  <2>1. CASE Enable
    BY <2>1, Zenon DEF Enable, locals, ideal
  <2>10. CASE Disable
    BY <2>10, Zenon DEF Disable, locals, ideal
  <2>2. CASE CYCCNT_Reset
    BY <2>2 DEF CYCCNT_Reset, locals, ideal
  <2>3. CASE EVCNTR_ALL_Reset
    BY <2>3 DEF EVCNTR_ALL_Reset, locals, ideal
  <2>4. CASE Get_CCNTR
    BY <2>4 DEF Get_CCNTR, locals, ideal
  <2>5. ASSUME NEW m \in SUBSET Counters, CNTR_Enable(m) PROVE TypeOK'
    BY <2>5 DEF CNTR_Enable, locals, ideal
  <2>6. ASSUME NEW m \in SUBSET Counters, CNTR_Disable(m) PROVE TypeOK'
    BY <2>6 DEF CNTR_Disable, locals, ideal
  <2>7. ASSUME NEW m \in SUBSET Counters, CNTR_Increment(m) PROVE TypeOK'
    BY <2>7 DEF CNTR_Increment, locals, ideal
  <2>8. ASSUME NEW p \in Preset, Set_CCNTR(p) PROVE TypeOK'
    BY <2>8 DEF Set_CCNTR, locals, ideal
  <2>9. ASSUME NEW e \in Events, NEW n \in 0..EventMax, Set_EVCNTR(e, n) PROVE TypeOK'
    BY <2>9 DEF Set_EVCNTR, locals, ideal
  <2> QED BY <1>2, <2>1, <2>2, <2>3, <2>4, <2>5, <2>6, <2>7, <2>8, <2>9, <2>10 DEF ApiCall
<1>3. CASE CallStep
  <2>1. CASE GetHigh
    BY <2>1 DEF GetHigh, locals, ideal
  <2>2. CASE Got
    BY <2>2 DEF Got, locals, ideal
  <2>3. CASE SetStop
    BY <2>3 DEF SetStop, locals, ideal
  <2>4. CASE SetLow
    BY <2>4 DEF SetLow, locals, ideal
  <2>5. CASE SetHigh
    BY <2>5 DEF SetHigh, locals, ideal
  <2>6. CASE Restart
    BY <2>6 DEF Restart, locals, ideal
  <2>7. CASE IncrementStop
    BY <2>7 DEF IncrementStop, locals, ideal
  <2>8. CASE IncrementReadLow
    BY <2>8 DEF IncrementReadLow, locals, ideal
  <2>9. CASE IncrementReadHigh
    BY <2>9 DEF IncrementReadHigh, locals, ideal
  <2>10. CASE IncrementWriteLow
    BY <2>10 DEF IncrementWriteLow, locals, ideal
  <2>11. CASE IncrementWriteHigh
    BY <2>11 DEF IncrementWriteHigh, locals, ideal
  <2>12. ASSUME NEW e \in Events, IncrementReadEvent(e) PROVE TypeOK'
    BY <2>12 DEF IncrementReadEvent, locals, ideal
  <2>13. CASE IncrementWriteEvent
    <3>1. which \in Events
      BY <2>13 DEF Ledger, StoppedWhileChanged, IncrementWriteEvent
    <3>2. Next1(num) \in 0..EventMax /\ Next1(counts[which]) \in 0..EventMax
      BY <3>1
    <3> QED BY <2>13, <3>1, <3>2 DEF IncrementWriteEvent
  <2> QED BY <1>3, <2>1, <2>2, <2>3, <2>4, <2>5, <2>6, <2>7, <2>8, <2>9, <2>10, <2>11, <2>12, <2>13 DEF CallStep
<1>4. CASE Count
  <2>1. CASE CountCycle
    BY <2>1 DEF CountCycle, locals, ideal
  <2>2. ASSUME NEW e \in Events, CountEvent(e) PROVE TypeOK'
    BY <2>2 DEF CountEvent, locals, ideal
  <2> QED BY <1>4, <2>1, <2>2 DEF Count
<1> QED BY <1>1, <1>2, <1>3, <1>4 DEF Next

\* Every step keeps the registers equal to the counts they stand for.
LEMMA LedgerStep == PmuInv /\ [Next]_vars => Ledger'
<1> SUFFICES ASSUME PmuInv, [Next]_vars PROVE Ledger'
  OBVIOUS
<1> USE PmuAssumption DEF PmuInv, Ledger, WantedIsKept, StoppedWhileChanged,
        ShownIsDue, OnCycle, OnMask, TypeOK, Counters, Pairs, Goto
<1>1. CASE UNCHANGED vars
  BY <1>1 DEF vars, locals, ideal
<1>2. CASE ApiCall
  <2>1. CASE Enable
    BY <2>1, Zenon DEF Enable, locals, ideal
  <2>10. CASE Disable
    BY <2>10, Zenon DEF Disable, locals, ideal
  <2>2. CASE CYCCNT_Reset
    BY <2>2 DEF CYCCNT_Reset, locals, ideal
  <2>3. CASE EVCNTR_ALL_Reset
    BY <2>3 DEF EVCNTR_ALL_Reset, locals, ideal
  <2>4. CASE Get_CCNTR
    BY <2>4 DEF Get_CCNTR, locals, ideal
  <2>5. ASSUME NEW m \in SUBSET Counters, CNTR_Enable(m) PROVE Ledger'
    BY <2>5 DEF CNTR_Enable, locals, ideal
  <2>6. ASSUME NEW m \in SUBSET Counters, CNTR_Disable(m) PROVE Ledger'
    BY <2>6 DEF CNTR_Disable, locals, ideal
  <2>7. ASSUME NEW m \in SUBSET Counters, CNTR_Increment(m) PROVE Ledger'
    BY <2>7 DEF CNTR_Increment, locals, ideal
  <2>8. ASSUME NEW p \in Preset, Set_CCNTR(p) PROVE Ledger'
    BY <2>8 DEF Set_CCNTR, locals, ideal
  <2>9. ASSUME NEW e \in Events, NEW n \in 0..EventMax, Set_EVCNTR(e, n) PROVE Ledger'
    BY <2>9 DEF Set_EVCNTR, locals, ideal
  <2> QED BY <1>2, <2>1, <2>2, <2>3, <2>4, <2>5, <2>6, <2>7, <2>8, <2>9, <2>10 DEF ApiCall
<1>3. CASE CallStep
  <2>1. CASE GetHigh
    BY <2>1 DEF GetHigh, locals, ideal
  <2>2. CASE Got
    BY <2>2 DEF Got, locals, ideal
  <2>3. CASE SetStop
    BY <2>3 DEF SetStop, locals, ideal
  <2>4. CASE SetLow
    BY <2>4 DEF SetLow, locals, ideal
  <2>5. CASE SetHigh
    BY <2>5 DEF SetHigh, locals, ideal
  <2>6. CASE Restart
    BY <2>6 DEF Restart, locals, ideal
  <2>7. CASE IncrementStop
    BY <2>7 DEF IncrementStop, locals, ideal
  <2>8. CASE IncrementReadLow
    BY <2>8 DEF IncrementReadLow, locals, ideal
  <2>9. CASE IncrementReadHigh
    BY <2>9 DEF IncrementReadHigh, locals, ideal
  <2>10. CASE IncrementWriteLow
    BY <2>10 DEF IncrementWriteLow, locals, ideal
  <2>11. CASE IncrementWriteHigh
    BY <2>11 DEF IncrementWriteHigh, locals, ideal
  <2>12. ASSUME NEW e \in Events, IncrementReadEvent(e) PROVE Ledger'
    BY <2>12 DEF IncrementReadEvent, locals, ideal
  <2>13. CASE IncrementWriteEvent
    BY <2>13 DEF IncrementWriteEvent, locals, ideal
  <2> QED BY <1>3, <2>1, <2>2, <2>3, <2>4, <2>5, <2>6, <2>7, <2>8, <2>9, <2>10, <2>11, <2>12, <2>13 DEF CallStep
<1>4. CASE Count
  <2>1. CASE CountCycle
    <3>1. <<high', low'>> = Succ(<<high, low>>)
      BY <2>1, SuccType DEF CountCycle
    <3> QED BY <2>1, <3>1 DEF CountCycle, locals
  <2>2. ASSUME NEW e \in Events, CountEvent(e) PROVE Ledger'
    BY <2>2 DEF CountEvent, locals, ideal
  <2> QED BY <1>4, <2>1, <2>2 DEF Count
<1> QED BY <1>1, <1>2, <1>3, <1>4 DEF Next

-----------------------------------------------------------------------------
\* Types and ledger hold whatever the application calls and the NPU counts.
THEOREM PmuInvariant == Spec => []PmuInv
<1>1. PmuInv /\ [Next]_vars => PmuInv'
  BY TypeStep, LedgerStep DEF PmuInv
<1> QED BY <1>1, InitPmu, PTL DEF Spec

\* Registers, locals and sums stay within their widths.
THEOREM PmuTypeCorrect == Spec => []TypeOK
<1>1. PmuInv => TypeOK
  BY DEF PmuInv
<1> QED BY <1>1, PmuInvariant, PTL

\* No count is lost or made up by ETHOSU_PMU_Set_CCNTR or
\* ETHOSU_PMU_CNTR_Increment, whatever the NPU counts between their accesses.
THEOREM CountsAreExact == Spec => []CountersExact
<1>1. PmuInv => CountersExact
  BY DEF PmuInv, Ledger, ShownIsDue, CountersExact
<1> QED BY <1>1, PmuInvariant, PTL

\* Counters are enabled after each call exactly as the application wants them.
THEOREM EnabledIsKept == Spec => []EnabledSurvives
<1>1. PmuInv => EnabledSurvives
  BY DEF PmuInv, Ledger, WantedIsKept, EnabledSurvives
<1> QED BY <1>1, PmuInvariant, PTL

-----------------------------------------------------------------------------
\* During a read of the cycle counter, each word read is one of a value that
\* the counter has had since the read began.
ReadInv ==
    /\ pc = "get_high" => /\ <<high, low>> \in seen
                         /\ \E p \in seen : p[2] = val[2]
    /\ pc = "got" => \E p, q \in seen : val = <<q[1], p[2]>>

\* Reads keep the two words accounted for; no other step comes into a read.
LEMMA ReadStep == PmuInv /\ ReadInv /\ [Next]_vars => ReadInv'
<1> SUFFICES ASSUME PmuInv, ReadInv, [Next]_vars PROVE ReadInv'
  OBVIOUS
<1> USE DEF ReadInv, Goto
<1>1. CASE UNCHANGED vars
  BY <1>1 DEF vars, locals, ideal
<1>2. CASE ApiCall
  <2>1. CASE Get_CCNTR
    BY <2>1 DEF Get_CCNTR
  <2>2. CASE ~Get_CCNTR
    <3>1. pc' \notin {"get_high", "got"}
      BY <1>2, <2>2 DEF ApiCall, Enable, Disable, CYCCNT_Reset, EVCNTR_ALL_Reset, CNTR_Enable,
                        CNTR_Disable, CNTR_Increment, Set_CCNTR, Set_EVCNTR
    <3> QED BY <3>1
  <2> QED BY <2>1, <2>2
<1>3. CASE CallStep
  <2>1. CASE GetHigh
    <3>1. PICK p \in seen : p[2] = val[2]
      BY <2>1 DEF GetHigh
    <3>2. val' = << <<high, low>>[1], p[2] >> /\ <<high, low>> \in seen
      BY <2>1, <3>1 DEF GetHigh
    <3>3. seen' = seen /\ pc' = "got"
      BY <2>1 DEF GetHigh
    <3> QED BY <3>2, <3>3
  <2>2. CASE ~GetHigh
    <3>1. pc' \notin {"get_high", "got"}
      BY <1>3, <2>2 DEF CallStep, Got, SetStop, SetLow, SetHigh, Restart, IncrementStop,
                        IncrementReadLow, IncrementReadHigh, IncrementWriteLow,
                        IncrementWriteHigh, IncrementReadEvent, IncrementWriteEvent
    <3> QED BY <3>1
  <2> QED BY <2>1, <2>2
<1>4. CASE Count
  <2>1. CASE CountCycle
    BY <2>1 DEF CountCycle, locals
  <2>2. ASSUME NEW e \in Events, CountEvent(e) PROVE ReadInv'
    BY <2>2 DEF CountEvent, locals
  <2> QED BY <1>4, <2>1, <2>2 DEF Count
<1> QED BY <1>1, <1>2, <1>3, <1>4 DEF Next

\* A read of the cycle counter is torn only by a carry: if every value the
\* counter had during it has the same high word, the value read is one of them.
THEOREM SteadyRead == Spec => []SteadyReadIsReal
<1>1. Init => ReadInv
  BY DEF Init, ReadInv
<1>2. ReadInv /\ PmuInv => SteadyReadIsReal
  <2> SUFFICES ASSUME ReadInv, PmuInv, pc = "got", \A p \in seen : p[1] = high
               PROVE  val \in seen
    BY DEF SteadyReadIsReal
  <2>1. PICK p \in seen, q \in seen : val = <<q[1], p[2]>>
    BY DEF ReadInv
  <2>2. p \in Pairs
    BY DEF PmuInv, TypeOK
  <2>3. p = <<p[1], p[2]>>
    BY <2>2 DEF Pairs
  <2> QED BY <2>1, <2>3
<1> QED BY <1>1, <1>2, PmuInvariant, ReadStep, PTL DEF Spec
=============================================================================
