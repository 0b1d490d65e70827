----------------------------- MODULE EthosuPmu -----------------------------
(***************************************************************************)
(* The counters of the Ethos-U PMU and the calls of ethosu_pmu.c that      *)
(* touch them, cut at every register access: the NPU counts in between.    *)
(*                                                                         *)
(* The cycle counter is two registers, a low and a high word; a value of   *)
(* it is a pair <<high, low>>, which is what the masks and shifts of the   *)
(* code take a 64-bit number apart into.  One thread makes the calls.      *)
(* Event selection, overflow flags and interrupt enables are single        *)
(* register accesses that no call combines, and are left out; so is the    *)
(* power request of ETHOSU_PMU_Enable, which EthosuJob has.                *)
(*                                                                         *)
(* A definition headed "Slip" is the operation after it with one plausible *)
(* mistake; no specification uses it.                                      *)
(***************************************************************************)
EXTENDS Integers

CONSTANTS
    Events,   \* the event counters
    Cycle,    \* the cycle counter
    LowMax,   \* largest value of PMCCNTR.CYCLE_CNT_LO
    HighMax,  \* largest value of PMCCNTR.CYCLE_CNT_HI
    EventMax, \* largest value of PMEVCNTR[i]
    Preset    \* pairs the application sets the cycle counter to

ASSUME PmuAssumption ==
    /\ Cycle \notin Events
    /\ LowMax \in Nat /\ HighMax \in Nat /\ EventMax \in Nat
    /\ Preset \subseteq (0..HighMax) \X (0..LowMax)

Counters == Events \cup {Cycle}
Pairs == (0..HighMax) \X (0..LowMax)

VARIABLES
    pc,      \* next register access of the call; "idle" between two calls
    mask,    \* argument of ETHOSU_PMU_CNTR_Increment, less what is done
    active,  \* counters the call is going to enable again
    val,     \* local value of the cycle counter
    num,     \* local value of an event counter
    which,   \* the event counter num was read from
    on,      \* PMCR.cnt_en
    enabled, \* PMCNTENSET
    low,     \* PMCCNTR.CYCLE_CNT_LO
    high,    \* PMCCNTR.CYCLE_CNT_HI
    event,   \* PMEVCNTR
    wanted,  \* counters the application has enabled and not disabled
    cycles,  \* what the cycle counter has to show
    counts,  \* what each event counter has to show
    seen     \* values the cycle counter has had since a read of it began

locals == <<mask, active, val, num, which>>
ideal  == <<wanted, cycles, counts>>
vars   == <<pc, mask, active, val, num, which, on, enabled, low, high, event,
            wanted, cycles, counts, seen>>

PCs == {"idle", "get_high", "got", "set_stop", "set_low", "set_high", "set_start",
        "inc_stop", "inc_cycle", "inc_high", "inc_write_low", "inc_write_high",
        "inc_event", "inc_write_event"}

TypeOK ==
    /\ pc \in PCs
    /\ mask \in SUBSET Counters /\ active \in SUBSET Counters
    /\ val \in Pairs /\ num \in 0..EventMax /\ which \in Counters
    /\ on \in BOOLEAN
    /\ enabled \in SUBSET Counters
    /\ low \in 0..LowMax /\ high \in 0..HighMax
    /\ event \in [Events -> 0..EventMax]
    /\ wanted \in SUBSET Counters
    /\ cycles \in Pairs
    /\ counts \in [Events -> 0..EventMax]
    /\ seen \in SUBSET Pairs

Init ==
    /\ pc = "idle" /\ mask = {} /\ active = {} /\ val = <<0, 0>>
    /\ num = 0 /\ which = Cycle
    /\ on = FALSE /\ enabled = {} /\ low = 0 /\ high = 0
    /\ event = [e \in Events |-> 0]
    /\ wanted = {} /\ cycles = <<0, 0>> /\ counts = [e \in Events |-> 0]
    /\ seen = {}

-----------------------------------------------------------------------------
\* One more, as the counters count and as the code adds; both drop the carry
\* out of the high word.
Succ(p) ==
    IF p[2] < LowMax THEN <<p[1], p[2] + 1>>
    ELSE <<IF p[1] < HighMax THEN p[1] + 1 ELSE 0, 0>>

\* Slip: a sum wider than the register.
Next1Unbounded(n) == n + 1

Next1(n) == IF n < EventMax THEN n + 1 ELSE 0

Goto(l) == pc' = l

-----------------------------------------------------------------------------
(* The NPU counts.                                                         *)

CountCycle ==
    /\ on /\ Cycle \in enabled
    /\ high' = Succ(<<high, low>>)[1] /\ low' = Succ(<<high, low>>)[2]
    /\ cycles' = Succ(cycles)
    /\ seen' = IF pc = "get_high" THEN seen \cup {<<high', low'>>} ELSE seen
    /\ UNCHANGED <<pc, locals, on, enabled, event, wanted, counts>>

CountEvent(e) ==
    /\ on /\ e \in enabled
    /\ event' = [event EXCEPT ![e] = Next1(@)]
    /\ counts' = [counts EXCEPT ![e] = Next1(@)]
    /\ UNCHANGED <<pc, locals, on, enabled, low, high, wanted, cycles, seen>>

-----------------------------------------------------------------------------
(* Calls that are one access, as far as the counters are concerned.  A      *)
(* read-modify-write of PMCR meets nobody else's write.                     *)

Enable ==
    /\ pc = "idle"
    /\ on' = TRUE
    /\ UNCHANGED <<pc, locals, enabled, low, high, event, ideal, seen>>

Disable ==
    /\ pc = "idle"
    /\ on' = FALSE
    /\ UNCHANGED <<pc, locals, enabled, low, high, event, ideal, seen>>

CNTR_Enable(m) ==
    /\ pc = "idle"
    /\ enabled' = enabled \cup m /\ wanted' = wanted \cup m
    /\ UNCHANGED <<pc, locals, on, low, high, event, cycles, counts, seen>>

CNTR_Disable(m) ==
    /\ pc = "idle"
    /\ enabled' = enabled \ m /\ wanted' = wanted \ m
    /\ UNCHANGED <<pc, locals, on, low, high, event, cycles, counts, seen>>

CYCCNT_Reset ==
    /\ pc = "idle"
    /\ low' = 0 /\ high' = 0 /\ cycles' = <<0, 0>>
    /\ UNCHANGED <<pc, locals, on, enabled, event, wanted, counts, seen>>

EVCNTR_ALL_Reset ==
    /\ pc = "idle"
    /\ event' = [e \in Events |-> 0] /\ counts' = [e \in Events |-> 0]
    /\ UNCHANGED <<pc, locals, on, enabled, low, high, wanted, cycles, seen>>

Set_EVCNTR(e, n) ==
    /\ pc = "idle"
    /\ event' = [event EXCEPT ![e] = n] /\ counts' = [counts EXCEPT ![e] = n]
    /\ UNCHANGED <<pc, locals, on, enabled, low, high, wanted, cycles, seen>>

-----------------------------------------------------------------------------
(* ETHOSU_PMU_Get_CCNTR: the low word, then the high word, once each.       *)

Get_CCNTR ==
    /\ pc = "idle"
    /\ val' = <<0, low>> /\ seen' = {<<high, low>>}
    /\ Goto("get_high")
    /\ UNCHANGED <<mask, active, num, which, on, enabled, low, high, event, ideal>>

\* Slip: the words of the result are swapped.
GetHighSwapped ==
    /\ pc = "get_high"
    /\ val' = <<val[2], high>>
    /\ Goto("got")
    /\ UNCHANGED <<mask, active, num, which, on, enabled, low, high, event, ideal, seen>>

GetHigh ==
    /\ pc = "get_high"
    /\ val' = <<high, val[2]>>
    /\ Goto("got")
    /\ UNCHANGED <<mask, active, num, which, on, enabled, low, high, event, ideal, seen>>

Got ==
    /\ pc = "got"
    /\ seen' = {} /\ val' = <<0, 0>>
    /\ Goto("idle")
    /\ UNCHANGED <<mask, active, num, which, on, enabled, low, high, event, ideal>>

-----------------------------------------------------------------------------
(* ETHOSU_PMU_Set_CCNTR: a counter that is enabled is disabled meanwhile.   *)

Set_CCNTR(p) ==
    /\ pc = "idle"
    /\ val' = p
    /\ active' = enabled \cap {Cycle}
    /\ Goto("set_stop")
    /\ UNCHANGED <<mask, num, which, on, enabled, low, high, event, ideal, seen>>

\* Slip: the counter runs on.
SetWithoutStop ==
    /\ pc = "set_stop"
    /\ Goto("set_low")
    /\ UNCHANGED <<locals, on, enabled, low, high, event, ideal, seen>>

SetStop ==
    /\ pc = "set_stop"
    /\ enabled' = enabled \ active
    /\ Goto("set_low")
    /\ UNCHANGED <<locals, on, low, high, event, ideal, seen>>

SetLow ==
    /\ pc = "set_low"
    /\ low' = val[2]
    /\ Goto("set_high")
    /\ UNCHANGED <<locals, on, enabled, high, event, ideal, seen>>

SetHigh ==
    /\ pc = "set_high"
    /\ high' = val[1] /\ cycles' = val
    /\ Goto("set_start")
    /\ UNCHANGED <<locals, on, enabled, low, event, wanted, counts, seen>>

\* Both calls end with the counters that were active enabled again.
Restart ==
    /\ pc = "set_start" \/ (pc = "inc_event" /\ mask \cap Events = {})
    /\ enabled' = enabled \cup active
    /\ mask' = {} /\ active' = {} /\ val' = <<0, 0>>
    /\ Goto("idle")
    /\ UNCHANGED <<num, which, on, low, high, event, ideal, seen>>

-----------------------------------------------------------------------------
(* ETHOSU_PMU_CNTR_Increment.                                              *)

\* Slip: what is enabled again is what the call was asked to increment.
IncrementRestartsMask(m) ==
    /\ pc = "idle"
    /\ mask' = m /\ active' = m
    /\ Goto("inc_stop")
    /\ UNCHANGED <<val, num, which, on, enabled, low, high, event, ideal, seen>>

CNTR_Increment(m) ==
    /\ pc = "idle"
    /\ mask' = m /\ active' = enabled
    /\ Goto("inc_stop")
    /\ UNCHANGED <<val, num, which, on, enabled, low, high, event, ideal, seen>>

\* Slip: the counters run on.
IncrementWithoutStop ==
    /\ pc = "inc_stop"
    /\ Goto(IF Cycle \in mask THEN "inc_cycle" ELSE "inc_event")
    /\ UNCHANGED <<locals, on, enabled, low, high, event, ideal, seen>>

IncrementStop ==
    /\ pc = "inc_stop"
    /\ enabled' = enabled \ mask
    /\ Goto(IF Cycle \in mask THEN "inc_cycle" ELSE "inc_event")
    /\ UNCHANGED <<locals, on, low, high, event, ideal, seen>>

\* The two reads of ETHOSU_PMU_Get_CCNTR, the sum, and the two writes.
IncrementReadLow ==
    /\ pc = "inc_cycle"
    /\ val' = <<0, low>>
    /\ Goto("inc_high")
    /\ UNCHANGED <<mask, active, num, which, on, enabled, low, high, event, ideal, seen>>

IncrementReadHigh ==
    /\ pc = "inc_high"
    /\ val' = Succ(<<high, val[2]>>)
    /\ Goto("inc_write_low")
    /\ UNCHANGED <<mask, active, num, which, on, enabled, low, high, event, ideal, seen>>

IncrementWriteLow ==
    /\ pc = "inc_write_low"
    /\ low' = val[2]
    /\ Goto("inc_write_high")
    /\ UNCHANGED <<locals, on, enabled, high, event, ideal, seen>>

\* Slip: the carry into the high word is not written.
IncrementLowOnly ==
    /\ pc = "inc_write_high"
    /\ cycles' = Succ(cycles)
    /\ Goto("inc_event")
    /\ UNCHANGED <<locals, on, enabled, low, high, event, wanted, counts, seen>>

IncrementWriteHigh ==
    /\ pc = "inc_write_high"
    /\ high' = val[1] /\ cycles' = Succ(cycles)
    /\ Goto("inc_event")
    /\ UNCHANGED <<locals, on, enabled, low, event, wanted, counts, seen>>

\* The loop over the event counters; nothing depends on its order.
IncrementReadEvent(e) ==
    /\ pc = "inc_event" /\ e \in mask \cap Events
    /\ which' = e /\ num' = event[e]
    /\ Goto("inc_write_event")
    /\ UNCHANGED <<mask, active, val, on, enabled, low, high, event, ideal, seen>>

IncrementWriteEvent ==
    /\ pc = "inc_write_event"
    /\ event' = [event EXCEPT ![which] = Next1(num)]
    /\ counts' = [counts EXCEPT ![which] = Next1(@)]
    /\ mask' = mask \ {which}
    /\ which' = Cycle /\ num' = 0
    /\ Goto("inc_event")
    /\ UNCHANGED <<active, val, on, enabled, low, high, wanted, cycles, seen>>

-----------------------------------------------------------------------------
ApiCall ==
    \/ Enable \/ Disable \/ CYCCNT_Reset \/ EVCNTR_ALL_Reset \/ Get_CCNTR
    \/ \E m \in SUBSET Counters : CNTR_Enable(m) \/ CNTR_Disable(m) \/ CNTR_Increment(m)
    \/ \E p \in Preset : Set_CCNTR(p)
    \/ \E e \in Events, n \in 0..EventMax : Set_EVCNTR(e, n)

CallStep ==
    \/ GetHigh \/ Got
    \/ SetStop \/ SetLow \/ SetHigh \/ Restart
    \/ IncrementStop \/ IncrementReadLow \/ IncrementReadHigh
    \/ IncrementWriteLow \/ IncrementWriteHigh
    \/ (\E e \in Events : IncrementReadEvent(e)) \/ IncrementWriteEvent

Count == CountCycle \/ \E e \in Events : CountEvent(e)

Next == ApiCall \/ CallStep \/ Count

Spec == Init /\ [][Next]_vars

-----------------------------------------------------------------------------
\* No count is lost or made up: between two calls every counter shows what it
\* was last set or reset to, plus what the NPU counted while it was enabled,
\* plus what ETHOSU_PMU_CNTR_Increment added (carry into the high word included).
CountersExact == pc = "idle" => <<high, low>> = cycles /\ event = counts

\* Setting or incrementing counters neither stops a counter the application
\* has running nor starts one that it has not.
EnabledSurvives == pc = "idle" => enabled = wanted

\* A read of the cycle counter during which the high word did not change is a
\* value the counter had.
SteadyReadIsReal ==
    pc = "got" /\ (\A p \in seen : p[1] = high) => val \in seen

\* pmu_ethosu.h promises more of ETHOSU_PMU_Get_CCNTR: "To work-around raciness
\* [...] both are read as one value twice", so that every value read is one the
\* counter had.
ReadIsReal == pc = "got" => val \in seen
=============================================================================
