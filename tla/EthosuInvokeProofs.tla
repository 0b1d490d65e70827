------------------------- MODULE EthosuInvokeProofs -------------------------
(***************************************************************************)
(* From any payload to the registers of any NPU: the parser stays in step, *)
(* a running NPU executes the stream of the payload on the application's   *)
(* memory, configured, compatible and coherent with the cache; and the     *)
(* driver above the device layer calls it as NpuDevice wants to be called. *)
(***************************************************************************)
EXTENDS EthosuInvoke, EthosuDeviceProofs

-----------------------------------------------------------------------------
(* The invariant, from the thread down to the registers.                   *)

\* The driver has begun to start the stream it found in the payload; or is on its
\* way there.
Begun  == pc \in {"power", "powered", "start"} \/ state # "IDLE"
Called == pc \in {"header", "parse"} \/ Begun

\* Which call of the device layer can be under way at which place.
CallsFit ==
    /\ dev # "none" =>
        \/ pc = "init" /\ task = "init"
        \/ pc \in {"powered", "request", "clear"} /\ task = "reset"
        \/ pc = "started" /\ task = "run"
        \/ pc = "verdict" /\ task = "gating"
        \/ pc = "return" /\ task \in {"reset", "gating"}
    /\ answer \in {"none", "ok", "failed"}

\* Which job state and result are possible at which place.
StateFits ==
    /\ pc \in {"off", "init", "idle", "header", "parse", "power", "powered", "start", "started",
               "err", "wait", "end", "unpower", "verdict", "clear", "request", "return"}
    /\ state \in {"IDLE", "RUNNING", "DONE"} /\ result \in {"OK", "ERROR", "TIMEOUT"}
    /\ pc \in {"off", "init", "header", "power", "powered", "start", "err"} => state = "IDLE"
    /\ pc \in {"started", "wait", "end", "unpower", "verdict", "clear"} => state # "IDLE"
    /\ Starting => state = "RUNNING"
    /\ state = "IDLE" => result = "OK"
    /\ result = "ERROR" => state = "DONE"
    /\ result = "TIMEOUT" => pc \in {"end", "unpower", "verdict", "clear"}
    /\ pc \in {"end", "unpower", "verdict", "clear"} /\ result = "OK" => state = "DONE"

\* The NPU runs, or asks for attention, only for a job that is running; once a
\* wait is about to clear the job, it does neither.
NpuFits ==
    /\ npu = "running" \/ irq => state = "RUNNING" /\ ~Starting
    /\ irq => npu # "running"
    /\ pc = "clear" /\ dev = "none" => npu # "running" /\ ~irq

\* The inference holds a power request from its begin to the wait that ends it.
Powers == pc \in {"powered", "start"} \/ (state # "IDLE" /\ pc \notin {"verdict", "clear"})

PowerFits ==
    /\ power \in 0..MaxPower /\ held \in Nat
    /\ power = IF Powers THEN held + 1 ELSE held
    /\ pc = "request" => held > 0
    /\ pc \in {"header", "parse", "power"} /\ state = "IDLE" => power < MaxPower

\* What is clean, and what a wait that answers 0 has seen.
CacheFits ==
    /\ clean \in BOOLEAN /\ unseen \in BOOLEAN /\ collected \in BOOLEAN
    /\ Begun => clean
    /\ pc \in {"unpower", "verdict", "clear"} /\ result = "OK" => ~unseen
    /\ collected => ~unseen /\ result = "OK"
    /\ collected => \/ pc = "clear"
                    \/ pc \in {"idle", "request", "return"} /\ state = "IDLE"

\* The base addresses after AdjustFastMemory.
Adjusted(b) ==
    IF FastMemory # 0 /\ Len(b) > FAST_MEMORY_BASE_ADDR_INDEX
    THEN [b EXCEPT ![FAST_MEMORY_BASE_ADDR_INDEX + 1] = FastMemory] ELSE b

Compatible(a) ==
    a.kind = "OPTIMIZER_CONFIG" => VerifyConfig(product, a.config, a.config)

\* The job of action m.
JobOf(m) ==
    [stream |-> at + BYTES_IN_32_BITS * (op.starts[m] + 1),
     bytes  |-> BYTES_IN_32_BITS * op.actions[m].len,
     bases  |-> Adjusted(asked)]

\* Before action n, with those before it accepted, and with nothing but NOPs to
\* come once there is a stream.
AtAction(n) ==
    /\ pos = op.starts[n]
    /\ \A i \in 1..(n - 1) : Compatible(op.actions[i])
    /\ Begun => \A i \in n..Len(op.actions) : op.actions[i].kind = "NOP"

ParserFits ==
    /\ product \in Products
    /\ Called => op \in Payloads /\ at \in Placements /\ asked \in BaseAddresses[product]
    /\ pc = "header" => pos = 1 /\ base_addr = asked
    /\ pc = "parse" \/ Begun => base_addr = Adjusted(asked)
    /\ pc \in {"parse", "power", "powered", "start", "started"} =>
        \E n \in 1..Len(op.actions) + 1 : AtAction(n)

RequestFits ==
    Begun =>
        /\ request \in Jobs
        /\ \A i \in DOMAIN op.actions : Compatible(op.actions[i])
        /\ \E m \in DOMAIN op.actions :
            op.actions[m].kind = "COMMAND_STREAM" /\ request = JobOf(m)

\* The words an address array is written to, and what is written to word k.
WordsOf(as) == {k \in 0..(2 * Len(as) - 1) : product = "U55" => k % 2 = 0}
WordOf(as, k) ==
    IF k % 2 = 0 THEN as[(k \div 2) + 1] % WordMod ELSE as[(k \div 2) + 1] \div WordMod

\* The registers a start writes, and what it writes to them.
BasesOf(j) == [n \in 1..Len(j.bases) |-> Base(j, n - 1)]
RunRegs(j) ==
    ({"QBASE"} \X WordsOf(<< QBase(j) >>)) \cup ({"QSIZE", "QCONFIG", "REGIONCFG"} \X {0})
        \cup ({"BASEP"} \X WordsOf(BasesOf(j)))
RunValue(j, r) ==
    CASE r[1] = "QBASE"   -> WordOf(<< QBase(j) >>, r[2])
      [] r[1] = "BASEP"   -> WordOf(BasesOf(j), r[2])
      [] r[1] = "QSIZE"   -> j.bytes
      [] r[1] = "QCONFIG" -> ConfigSelect(QBase(j), -1)
      [] OTHER            -> RegionCfg(j)
RunSet(j) == {<<r, RunValue(j, r)>> : r \in RunRegs(j)}

\* The settings a reset brings back.
AxiRegs ==
    IF product = "U85"
    THEN ({"MEM_ATTR"} \X (0..3)) \cup ({"AXI_SRAM", "AXI_EXT", "POWER_CTRL"} \X {0})
    ELSE {"AXI_LIMIT"} \X (0..3)
AxiSet == {<<r, 1>> : r \in AxiRegs}

\* Everything in W has been written; or is about to be.
Elements(s) == {s[k] : k \in DOMAIN s}
Written(W) == \A w \in W : regs[w[1]] = w[2]
Drains(W)  == \A w \in W : regs[w[1]] = w[2] \/ w \in Elements(todo)

\* Only what a start or a reset writes is ever written.
WritesFit ==
    /\ regs \in [Registers -> Nat]
    /\ cmd \subseteq CmdBits /\ word \subseteq CmdBits
    /\ dev # "write" => todo = << >>
    /\ todo \in Seq(Registers \X Nat)
    /\ Starting => Elements(todo) \subseteq RunSet(request)
    /\ Resetting => Elements(todo) \subseteq AxiSet
    /\ state # "IDLE" => AddressesFit(request)
    /\ product = "U55" => \A r \in Registers :
            r[1] \in {"QBASE", "BASEP"} /\ r[2] % 2 = 1 => regs[r] = 0

\* A soft reset in its last part, and an NPU whose last reset succeeded, have the
\* access state and the settings; the NPU runs with what the start has written.
SettingsFit ==
    /\ sound \in BOOLEAN
    /\ Resetting /\ dev \in {"write", "cmdwrite"} => prot /\ Drains(AxiSet)
    /\ sound => ~Resetting /\ npu # "resetting" /\ prot /\ Written(AxiSet)
    /\ sound /\ Starting => Drains(RunSet(request))
    /\ sound /\ npu = "running" => Written(RunSet(request))

DriverInv == CallsFit /\ StateFits /\ NpuFits /\ PowerFits /\ CacheFits
PayloadInv == ParserFits /\ RequestFits
RegisterInv == WritesFit /\ SettingsFit
InvokeInv == DevInv /\ DriverInv /\ PayloadInv /\ RegisterInv
-----------------------------------------------------------------------------
(* Numbers and sequences.                                                  *)

\* A number is what its low and its high part say together.
LEMMA Parts ==
    ASSUME NEW a \in Nat, NEW m \in Nat \ {0}
    PROVE  /\ a % m \in Nat /\ a \div m \in Nat
           /\ (a % m) + ((a \div m) * m) = a
           /\ a < m => a % m = a
OBVIOUS

\* Dividing by what a number was shifted with.
LEMMA Shifted4 ==
    ASSUME NEW low \in Nat, NEW high \in Nat, NEW r
    PROVE  /\ low < 4 /\ r = low + (high * 4) => r \div 4 = high
           /\ low < 16 /\ r = low + (high * 16) => r \div 16 = high
           /\ low < 64 /\ r = low + (high * 64) => r \div 64 = high
           /\ low < 256 /\ r = low + (high * 256) => r \div 256 = high
           /\ low < 1024 /\ r = low + (high * 1024) => r \div 1024 = high
           /\ low < 4096 /\ r = low + (high * 4096) => r \div 4096 = high
           /\ low < 16384 /\ r = low + (high * 16384) => r \div 16384 = high
<1>1. low < 4 /\ r = low + (high * 4) => r \div 4 = high
  OBVIOUS
<1>2. low < 16 /\ r = low + (high * 16) => r \div 16 = high
  OBVIOUS
<1>3. low < 64 /\ r = low + (high * 64) => r \div 64 = high
  OBVIOUS
<1>4. low < 256 /\ r = low + (high * 256) => r \div 256 = high
  OBVIOUS
<1>5. low < 1024 /\ r = low + (high * 1024) => r \div 1024 = high
  OBVIOUS
<1>6. low < 4096 /\ r = low + (high * 4096) => r \div 4096 = high
  OBVIOUS
<1>7. low < 16384 /\ r = low + (high * 16384) => r \div 16384 = high
  OBVIOUS
<1> QED BY <1>1, <1>2, <1>3, <1>4, <1>5, <1>6, <1>7

\* Each region finds its own two bits in what the loop composes.
LEMMA Digits ==
    ASSUME NEW p \in [0..7 -> 0..3], NEW r
    PROVE  r = p[0] + (4 * p[1]) + (16 * p[2]) + (64 * p[3])
                + (256 * p[4]) + (1024 * p[5]) + (4096 * p[6]) + (16384 * p[7])
            => r \in Nat /\ \A i \in 0..7 : (r \div RegionWeight[i + 1]) % 4 = p[i]
<1>s. SUFFICES ASSUME r = p[0] + (4 * p[1]) + (16 * p[2]) + (64 * p[3])
                           + (256 * p[4]) + (1024 * p[5]) + (4096 * p[6]) + (16384 * p[7])
               PROVE  r \in Nat /\ \A i \in 0..7 : (r \div RegionWeight[i + 1]) % 4 = p[i]
  OBVIOUS
<1> DEFINE c0 == p[0]  c1 == p[1]  c2 == p[2]  c3 == p[3]
           c4 == p[4]  c5 == p[5]  c6 == p[6]  c7 == p[7]
<1>a. /\ c0 \in 0..3 /\ c1 \in 0..3 /\ c2 \in 0..3 /\ c3 \in 0..3
      /\ c4 \in 0..3 /\ c5 \in 0..3 /\ c6 \in 0..3 /\ c7 \in 0..3
  OBVIOUS
<1>b. r = c0 + (4 * c1) + (16 * c2) + (64 * c3)
            + (256 * c4) + (1024 * c5) + (4096 * c6) + (16384 * c7)
  BY <1>s
<1> HIDE DEF c0, c1, c2, c3, c4, c5, c6, c7
<1>0. r \in Nat
  BY <1>a, <1>b
<1>1. (r \div 1) % 4 = c0
  <2> DEFINE high == c0 + (4 * c1) + (16 * c2) + (64 * c3)
                        + (256 * c4) + (1024 * c5) + (4096 * c6) + (16384 * c7)
  <2>1. high \in Nat /\ high % 4 = c0
    BY <1>a, <1>b
  <2>2. r = high
    BY <1>a, <1>b
  <2> HIDE DEF high
  <2>3. r \div 1 = high
    BY <2>1, <2>2
  <2> QED BY <2>1, <2>3
<1>2. (r \div 4) % 4 = c1
  <2> DEFINE high == c1 + (4 * c2) + (16 * c3) + (64 * c4) + (256 * c5) + (1024 * c6) + (4096 * c7)
             low  == c0
  <2>1. high \in Nat /\ high % 4 = c1
    BY <1>a, <1>b
  <2>2. low \in Nat /\ low < 4 /\ r = low + (high * 4)
    BY <1>a, <1>b
  <2> HIDE DEF low, high
  <2>3. r \div 4 = high
    BY <2>1, <2>2, Shifted4
  <2> QED BY <2>1, <2>3
<1>3. (r \div 16) % 4 = c2
  <2> DEFINE high == c2 + (4 * c3) + (16 * c4) + (64 * c5) + (256 * c6) + (1024 * c7)
             low  == c0 + (4 * c1)
  <2>1. high \in Nat /\ high % 4 = c2
    BY <1>a, <1>b
  <2>2. low \in Nat /\ low < 16 /\ r = low + (high * 16)
    BY <1>a, <1>b
  <2> HIDE DEF low, high
  <2>3. r \div 16 = high
    BY <2>1, <2>2, Shifted4
  <2> QED BY <2>1, <2>3
<1>4. (r \div 64) % 4 = c3
  <2> DEFINE high == c3 + (4 * c4) + (16 * c5) + (64 * c6) + (256 * c7)
             low  == c0 + (4 * c1) + (16 * c2)
  <2>1. high \in Nat /\ high % 4 = c3
    BY <1>a, <1>b
  <2>2. low \in Nat /\ low < 64 /\ r = low + (high * 64)
    BY <1>a, <1>b
  <2> HIDE DEF low, high
  <2>3. r \div 64 = high
    BY <2>1, <2>2, Shifted4
  <2> QED BY <2>1, <2>3
<1>5. (r \div 256) % 4 = c4
  <2> DEFINE high == c4 + (4 * c5) + (16 * c6) + (64 * c7)
             low  == c0 + (4 * c1) + (16 * c2) + (64 * c3)
  <2>1. high \in Nat /\ high % 4 = c4
    BY <1>a, <1>b
  <2>2. low \in Nat /\ low < 256 /\ r = low + (high * 256)
    BY <1>a, <1>b
  <2> HIDE DEF low, high
  <2>3. r \div 256 = high
    BY <2>1, <2>2, Shifted4
  <2> QED BY <2>1, <2>3
<1>6. (r \div 1024) % 4 = c5
  <2> DEFINE high == c5 + (4 * c6) + (16 * c7)
             low  == c0 + (4 * c1) + (16 * c2) + (64 * c3) + (256 * c4)
  <2>1. high \in Nat /\ high % 4 = c5
    BY <1>a, <1>b
  <2>2. low \in Nat /\ low < 1024 /\ r = low + (high * 1024)
    BY <1>a, <1>b
  <2> HIDE DEF low, high
  <2>3. r \div 1024 = high
    BY <2>1, <2>2, Shifted4
  <2> QED BY <2>1, <2>3
<1>7. (r \div 4096) % 4 = c6
  <2> DEFINE high == c6 + (4 * c7)
             low  == c0 + (4 * c1) + (16 * c2) + (64 * c3) + (256 * c4) + (1024 * c5)
  <2>1. high \in Nat /\ high % 4 = c6
    BY <1>a, <1>b
  <2>2. low \in Nat /\ low < 4096 /\ r = low + (high * 4096)
    BY <1>a, <1>b
  <2> HIDE DEF low, high
  <2>3. r \div 4096 = high
    BY <2>1, <2>2, Shifted4
  <2> QED BY <2>1, <2>3
<1>8. (r \div 16384) % 4 = c7
  <2> DEFINE high == c7
             low  == c0 + (4 * c1) + (16 * c2) + (64 * c3) + (256 * c4) + (1024 * c5) + (4096 * c6)
  <2>1. high \in Nat /\ high % 4 = c7
    BY <1>a, <1>b
  <2>2. low \in Nat /\ low < 16384 /\ r = low + (high * 16384)
    BY <1>a, <1>b
  <2> HIDE DEF low, high
  <2>3. r \div 16384 = high
    BY <2>1, <2>2, Shifted4
  <2> QED BY <2>1, <2>3
<1>9. ASSUME NEW i \in 0..7 PROVE (r \div RegionWeight[i + 1]) % 4 = p[i]
  <2>1. CASE i = 0
    BY <1>1, <2>1 DEF RegionWeight, c0
  <2>2. CASE i = 1
    BY <1>2, <2>2 DEF RegionWeight, c1
  <2>3. CASE i = 2
    BY <1>3, <2>3 DEF RegionWeight, c2
  <2>4. CASE i = 3
    BY <1>4, <2>4 DEF RegionWeight, c3
  <2>5. CASE i = 4
    BY <1>5, <2>5 DEF RegionWeight, c4
  <2>6. CASE i = 5
    BY <1>6, <2>6 DEF RegionWeight, c5
  <2>7. CASE i = 6
    BY <1>7, <2>7 DEF RegionWeight, c6
  <2>8. CASE i = 7
    BY <1>8, <2>8 DEF RegionWeight, c7
  <2> QED BY <1>9, <2>1, <2>2, <2>3, <2>4, <2>5, <2>6, <2>7, <2>8
<1> QED BY <1>0, <1>9

\* The elements of a concatenation.
LEMMA ElementsConcat ==
    ASSUME NEW S, NEW s \in Seq(S), NEW t \in Seq(S)
    PROVE  Elements(s \o t) = Elements(s) \cup Elements(t)
<1>1. DOMAIN (s \o t) = 1..(Len(s) + Len(t)) /\ DOMAIN s = 1..Len(s) /\ DOMAIN t = 1..Len(t)
      /\ Len(s) \in Nat /\ Len(t) \in Nat
  BY ConcatProperties, LenProperties
<1>2. ASSUME NEW k \in DOMAIN (s \o t) PROVE (s \o t)[k] \in Elements(s) \cup Elements(t)
  <2>1. CASE k <= Len(s)
    BY <1>1, <2>1, ConcatProperties DEF Elements
  <2>2. CASE k > Len(s)
    <3>1. k - Len(s) \in DOMAIN t /\ (s \o t)[k] = t[k - Len(s)]
      BY <1>1, <2>2, ConcatProperties
    <3> QED BY <3>1 DEF Elements
  <2> QED BY <1>1, <2>1, <2>2
<1>3. ASSUME NEW k \in DOMAIN s PROVE s[k] \in Elements(s \o t)
  <2>1. k \in DOMAIN (s \o t) /\ (s \o t)[k] = s[k]
    BY <1>1, <1>3, ConcatProperties
  <2> QED BY <2>1 DEF Elements
<1>4. ASSUME NEW k \in DOMAIN t PROVE t[k] \in Elements(s \o t)
  <2>1. Len(s) + k \in DOMAIN (s \o t) /\ (s \o t)[Len(s) + k] = t[k]
    BY <1>1, <1>4, ConcatProperties
  <2> QED BY <2>1 DEF Elements
<1> QED BY <1>2, <1>3, <1>4 DEF Elements

\* The first element and the rest.
LEMMA ElementsHeadTail ==
    ASSUME NEW S, NEW s \in Seq(S), s # << >>
    PROVE  Elements(s) = {Head(s)} \cup Elements(Tail(s))
<1>1. Len(s) \in Nat \ {0} /\ DOMAIN s = 1..Len(s)
  BY EmptySeq, LenProperties
<1>2. DOMAIN Tail(s) = 1..Len(s) - 1 /\ \A i \in 1..Len(s) - 1 : Tail(s)[i] = s[i + 1]
  BY <1>1, HeadTailProperties, LenProperties
<1>3. Head(s) = s[1]
  BY <1>1
<1>4. ASSUME NEW k \in DOMAIN s PROVE s[k] = Head(s) \/ s[k] \in Elements(Tail(s))
  <2>1. CASE k = 1
    BY <1>3, <2>1
  <2>2. CASE k # 1
    <3>1. k - 1 \in DOMAIN Tail(s) /\ Tail(s)[k - 1] = s[k]
      BY <1>1, <1>2, <2>2
    <3> QED BY <3>1 DEF Elements
  <2> QED BY <2>1, <2>2
<1>5. ASSUME NEW k \in DOMAIN Tail(s) PROVE Tail(s)[k] \in Elements(s)
  BY <1>1, <1>2, <1>5 DEF Elements
<1>6. Head(s) \in Elements(s)
  BY <1>1, <1>3 DEF Elements
<1> QED BY <1>4, <1>5, <1>6 DEF Elements

-----------------------------------------------------------------------------
(* The writes of a start.                                                  *)

\* What is written for an array of addresses, in which registers.
LEMMA AddressElements ==
    ASSUME NEW name, NEW as, Len(as) \in Nat, product \in {"U55", "U65", "U85"}
    PROVE  /\ Elements(AddressWrites(name, as)) = {<<<<name, k>>, WordOf(as, k)>> : k \in WordsOf(as)}
           /\ AddressWrites(name, as) \in Seq(Elements(AddressWrites(name, as)))
<1> DEFINE ws == AddressWrites(name, as)
           W  == {<<<<name, k>>, WordOf(as, k)>> : k \in WordsOf(as)}
<1>0. PICK len \in Nat : len = Len(as)
  OBVIOUS
<1>1. CASE product = "U55"
  <2>1. /\ DOMAIN ws = 1..len
        /\ \A n \in 1..len : ws[n] = <<<<name, 2 * (n - 1)>>, as[n] % WordMod>>
    <3>1. ws = [n \in 1..1 * len |->
                  <<<<name, 2 * ((n - 1) \div 1) + ((n - 1) % 1)>>,
                    IF (n - 1) % 1 = 0 THEN as[((n - 1) \div 1) + 1] % WordMod
                    ELSE as[((n - 1) \div 1) + 1] \div WordMod>>]
      BY <1>0, <1>1 DEF AddressWrites, WordsPerAddress
    <3>2. 1 * len = len
      OBVIOUS
    <3>3. ASSUME NEW n \in 1..len
          PROVE  /\ (n - 1) % 1 = 0 /\ ((n - 1) \div 1) + 1 = n
                 /\ 2 * ((n - 1) \div 1) + ((n - 1) % 1) = 2 * (n - 1)
      <4>1. (n - 1) \div 1 = n - 1 /\ (n - 1) % 1 = 0 /\ n - 1 \in Nat
        BY <3>3
      <4> QED BY <4>1
    <3> QED BY <3>1, <3>2, <3>3
  <2>2. ASSUME NEW n \in 1..len PROVE ws[n] \in W
    <3>1. 2 * (n - 1) \in WordsOf(as) /\ WordOf(as, 2 * (n - 1)) = as[n] % WordMod
      <4>1. 2 * (n - 1) \in 0..(2 * len - 1) /\ (2 * (n - 1)) % 2 = 0
        BY <2>2
      <4>2. ((2 * (n - 1)) \div 2) + 1 = n
        BY <2>2
      <4> QED BY <1>0, <1>1, <4>1, <4>2 DEF WordsOf, WordOf
    <3> QED BY <2>1, <3>1
  <2>3. ASSUME NEW k \in WordsOf(as) PROVE <<<<name, k>>, WordOf(as, k)>> \in Elements(ws)
    <3>1. (k \div 2) + 1 \in 1..len /\ 2 * (((k \div 2) + 1) - 1) = k /\ k % 2 = 0
      <4>1. k \in 0..(2 * len - 1) /\ k % 2 = 0
        BY <1>0, <1>1, <2>3 DEF WordsOf
      <4> QED BY <4>1
    <3>2. WordOf(as, k) = as[(k \div 2) + 1] % WordMod
      BY <3>1 DEF WordOf
    <3>3. ws[(k \div 2) + 1] = <<<<name, k>>, WordOf(as, k)>>
      BY <2>1, <3>1, <3>2
    <3> QED BY <2>1, <3>1, <3>3 DEF Elements
  <2>4. Elements(ws) = W
    BY <2>1, <2>2, <2>3 DEF Elements
  <2>5. ws \in [1..len -> Elements(ws)]
    BY <2>1 DEF Elements, AddressWrites
  <2>6. ws \in Seq(Elements(ws))
    BY <2>5, SeqDef
  <2> QED BY <2>4, <2>6
<1>2. CASE product # "U55"
  <2>1. /\ DOMAIN ws = 1..2 * len
        /\ \A n \in 1..2 * len : ws[n] = <<<<name, n - 1>>, WordOf(as, n - 1)>>
    <3>1. ws = [n \in 1..2 * len |->
                  <<<<name, 2 * ((n - 1) \div 2) + ((n - 1) % 2)>>,
                    IF (n - 1) % 2 = 0 THEN as[((n - 1) \div 2) + 1] % WordMod
                    ELSE as[((n - 1) \div 2) + 1] \div WordMod>>]
      BY <1>0, <1>2 DEF AddressWrites, WordsPerAddress
    <3>2. \A n \in 1..2 * len : 2 * ((n - 1) \div 2) + ((n - 1) % 2) = n - 1
      OBVIOUS
    <3> QED BY <3>1, <3>2 DEF WordOf
  <2>2. WordsOf(as) = 0..(2 * len - 1)
    BY <1>0, <1>2 DEF WordsOf
  <2>3. ASSUME NEW n \in 1..2 * len PROVE ws[n] \in W
    <3>1. n - 1 \in WordsOf(as)
      BY <2>2, <2>3
    <3> QED BY <2>1, <3>1
  <2>4. ASSUME NEW k \in WordsOf(as) PROVE <<<<name, k>>, WordOf(as, k)>> \in Elements(ws)
    <3>1. k + 1 \in 1..2 * len /\ (k + 1) - 1 = k
      BY <2>2, <2>4
    <3>2. ws[k + 1] = <<<<name, k>>, WordOf(as, k)>>
      BY <2>1, <3>1
    <3> QED BY <2>1, <3>1, <3>2 DEF Elements
  <2>5. Elements(ws) = W
    BY <2>1, <2>3, <2>4 DEF Elements
  <2>6. ws \in [1..2 * len -> Elements(ws)]
    BY <2>1 DEF Elements, AddressWrites
  <2>7. 2 * len \in Nat
    OBVIOUS
  <2>8. ws \in Seq(Elements(ws))
    BY <2>6, <2>7, SeqDef
  <2> QED BY <2>5, <2>8
<1> QED BY <1>1, <1>2

\* What the layer is asked to do with a job that fits.
LEMMA JobTypes ==
    ASSUME NEW j \in Jobs, product \in Products, AddressesFit(j)
    PROVE  /\ product \in {"U55", "U65", "U85"}
           /\ Len(j.bases) \in 0..8 /\ Len(BasesOf(j)) = Len(j.bases)
           /\ QBase(j) \in Nat /\ ConfigSelect(QBase(j), -1) \in 0..3
           /\ \A i \in 0..Len(j.bases) - 1 :
                Base(j, i) \in Nat /\ ConfigSelect(Base(j, i), i) \in 0..3 /\ BasesOf(j)[i + 1] = Base(j, i)
<1>1. product \in {"U55", "U65", "U85"}
  BY DeviceLayerAssumption DEF DeviceLayerAssumption
<1>2. Len(j.bases) \in 0..8
  <2>1. j.bases \in Seq(Addresses)
    BY DEF Jobs
  <2>2. Len(j.bases) <= 8
    BY DEF AddressesFit, NPU_REG_BASEP_ARRLEN
  <2>3. Len(j.bases) \in Nat
    BY <2>1, LenProperties
  <2>4. \A l \in Nat : l <= 8 => l \in 0..8
    OBVIOUS
  <2> QED BY <2>2, <2>3, <2>4
<1>3. Len(BasesOf(j)) = Len(j.bases)
  BY <1>2 DEF BasesOf
<1>4. QBase(j) \in Nat /\ ConfigSelect(QBase(j), -1) \in 0..3
  <2>1. j.stream \in Addresses /\ -1 \in -1..7
    BY DEF Jobs
  <2> QED BY <2>1, DeviceLayerAssumption DEF DeviceLayerAssumption, QBase
<1>5. ASSUME NEW i \in 0..Len(j.bases) - 1
      PROVE  Base(j, i) \in Nat /\ ConfigSelect(Base(j, i), i) \in 0..3 /\ BasesOf(j)[i + 1] = Base(j, i)
  <2>1. i + 1 \in 1..Len(j.bases) /\ i \in -1..7 /\ (i + 1) - 1 = i
    <3>1. PICK len \in 0..8 : len = Len(j.bases)
      BY <1>2
    <3>2. i \in 0..len - 1
      BY <3>1
    <3>3. i + 1 \in 1..len /\ i \in -1..7 /\ (i + 1) - 1 = i
      BY <3>2
    <3> QED BY <3>1, <3>3
  <2>2. j.bases[i + 1] \in Addresses
    BY <2>1, ElementOfSeq DEF Jobs
  <2> QED BY <2>1, <2>2, DeviceLayerAssumption DEF DeviceLayerAssumption, Base, BasesOf
<1> QED BY <1>1, <1>2, <1>3, <1>4, <1>5

\* The writes of a start are those of RunSet.
LEMMA RunElements ==
    ASSUME NEW j \in Jobs, product \in Products, AddressesFit(j)
    PROVE  /\ Elements(RunWrites(j)) = RunSet(j)
           /\ RunWrites(j) \in Seq(RunSet(j))
<1> DEFINE a == AddressWrites("QBASE", << QBase(j) >>)
           b == << <<<<"QSIZE", 0>>, j.bytes>>, <<<<"QCONFIG", 0>>, ConfigSelect(QBase(j), -1)>> >>
           c == AddressWrites("BASEP", BasesOf(j))
           d == << <<<<"REGIONCFG", 0>>, RegionCfg(j)>> >>
           S == Elements(a) \cup Elements(b) \cup Elements(c) \cup Elements(d)
<1>1. Len(<< QBase(j) >>) \in Nat /\ Len(BasesOf(j)) \in Nat /\ product \in {"U55", "U65", "U85"}
  BY JobTypes
<1>2. /\ Elements(a) = {<<<<"QBASE", k>>, WordOf(<< QBase(j) >>, k)>> : k \in WordsOf(<< QBase(j) >>)}
      /\ a \in Seq(Elements(a))
  BY <1>1, AddressElements
<1>3. /\ Elements(c) = {<<<<"BASEP", k>>, WordOf(BasesOf(j), k)>> : k \in WordsOf(BasesOf(j))}
      /\ c \in Seq(Elements(c))
  BY <1>1, AddressElements
<1>4. /\ Elements(b) = {<<<<"QSIZE", 0>>, j.bytes>>, <<<<"QCONFIG", 0>>, ConfigSelect(QBase(j), -1)>>}
      /\ b \in Seq(Elements(b))
  BY DEF Elements
<1>5. /\ Elements(d) = {<<<<"REGIONCFG", 0>>, RegionCfg(j)>>}
      /\ d \in Seq(Elements(d))
  BY DEF Elements
<1>6. RunWrites(j) = ((a \o b) \o c) \o d
  BY DEF RunWrites, BasesOf
<1> HIDE DEF a, b, c, d
<1>7. S = RunSet(j)
  <2>1. ASSUME NEW w \in S PROVE w \in RunSet(j)
    BY <1>2, <1>3, <1>4, <1>5 DEF RunSet, RunRegs, RunValue
  <2>2. ASSUME NEW r \in RunRegs(j) PROVE <<r, RunValue(j, r)>> \in S
    BY <1>2, <1>3, <1>4, <1>5 DEF RunRegs, RunValue
  <2> QED BY <2>1, <2>2 DEF RunSet
<1>8. a \in Seq(S) /\ b \in Seq(S) /\ c \in Seq(S) /\ d \in Seq(S)
  BY <1>2, <1>3, <1>4, <1>5, SeqMonotonic
<1> HIDE DEF S
<1>9. a \o b \in Seq(S) /\ Elements(a \o b) = Elements(a) \cup Elements(b)
  BY <1>8, ElementsConcat, ConcatProperties
<1>10. (a \o b) \o c \in Seq(S) /\ Elements((a \o b) \o c) = Elements(a \o b) \cup Elements(c)
  <2> DEFINE ab == a \o b
  <2>1. ab \in Seq(S) /\ ab = a \o b
    BY <1>9
  <2> HIDE DEF ab
  <2>2. ab \o c \in Seq(S) /\ Elements(ab \o c) = Elements(ab) \cup Elements(c)
    BY <1>8, <2>1, ElementsConcat, ConcatProperties
  <2> QED BY <2>1, <2>2
<1>11. ((a \o b) \o c) \o d \in Seq(S)
       /\ Elements(((a \o b) \o c) \o d) = Elements((a \o b) \o c) \cup Elements(d)
  <2> DEFINE abc == (a \o b) \o c
  <2>1. abc \in Seq(S) /\ abc = (a \o b) \o c
    BY <1>10
  <2> HIDE DEF abc
  <2>2. abc \o d \in Seq(S) /\ Elements(abc \o d) = Elements(abc) \cup Elements(d)
    BY <1>8, <2>1, ElementsConcat, ConcatProperties
  <2> QED BY <2>1, <2>2
<1> QED BY <1>6, <1>7, <1>9, <1>10, <1>11 DEF S

\* What the loop composes is read back region by region.
LEMMA RegionPorts ==
    ASSUME NEW j \in Jobs, product \in Products, AddressesFit(j)
    PROVE  /\ RegionCfg(j) \in Nat
           /\ \A i \in 0..Len(j.bases) - 1 :
                (RegionCfg(j) \div RegionWeight[i + 1]) % 4 = ConfigSelect(Base(j, i), i)
<1> DEFINE port == [i \in 0..7 |-> IF i < Len(j.bases) THEN ConfigSelect(Base(j, i), i) ELSE 0]
           r    == RegionCfg(j)
<1>1. PICK len \in 0..8 : len = Len(j.bases)
  BY JobTypes
<1>2. port \in [0..7 -> 0..3]
  <2>1. ASSUME NEW i \in 0..7, i < Len(j.bases) PROVE ConfigSelect(Base(j, i), i) \in 0..3
    <3>1. i < len
      BY <1>1, <2>1
    <3>2. i \in 0..len - 1
      BY <3>1
    <3>3. i \in 0..Len(j.bases) - 1
      BY <1>1, <3>2
    <3> QED BY <3>3, JobTypes
  <2> QED BY <2>1
<1>3. r = port[0] + (4 * port[1]) + (16 * port[2]) + (64 * port[3])
           + (256 * port[4]) + (1024 * port[5]) + (4096 * port[6]) + (16384 * port[7])
  <2>1. \A i \in 0..7, w \in Nat :
          (IF i < Len(j.bases) THEN ConfigSelect(Base(j, i), i) * w ELSE 0) = port[i] * w
    OBVIOUS
  <2>2. r = (port[0] * 1) + (port[1] * 4) + (port[2] * 16) + (port[3] * 64)
             + (port[4] * 256) + (port[5] * 1024) + (port[6] * 4096) + (port[7] * 16384)
    BY <2>1 DEF RegionCfg, Composed, RegionWeight
  <2> HIDE DEF port, r
  <2> QED BY <1>2, <2>2
<1> HIDE DEF port, r
<1>4. r \in Nat /\ \A i \in 0..7 : (r \div RegionWeight[i + 1]) % 4 = port[i]
  BY <1>2, <1>3, Digits
<1>5. ASSUME NEW i \in 0..Len(j.bases) - 1
      PROVE  (r \div RegionWeight[i + 1]) % 4 = ConfigSelect(Base(j, i), i)
  <2>1. i \in 0..7 /\ i < Len(j.bases)
    <3>1. i \in 0..len - 1
      BY <1>1
    <3>2. i \in 0..7 /\ i < len
      BY <3>1
    <3> QED BY <1>1, <3>2
  <2>2. port[i] = ConfigSelect(Base(j, i), i)
    BY <2>1 DEF port
  <2> QED BY <1>4, <2>1, <2>2
<1> QED BY <1>4, <1>5 DEF r

\* A start writes numbers to registers of its own, each once; on U55 none of
\* them is the upper half of an address.
LEMMA RunSetFacts ==
    ASSUME NEW j \in Jobs, product \in Products, AddressesFit(j), NEW w \in RunSet(j)
    PROVE  /\ w \in Registers \X Nat /\ w = <<w[1], RunValue(j, w[1])>>
           /\ w[1] \notin AxiRegs
           /\ product = "U55" /\ w[1][1] \in {"QBASE", "BASEP"} => w[1][2] % 2 = 0
<1>1. PICK r \in RunRegs(j) : w = <<r, RunValue(j, r)>>
  BY DEF RunSet
<1>2. PICK len \in 0..8 : len = Len(j.bases) /\ len = Len(BasesOf(j))
  BY JobTypes
<1>3. product \in {"U55", "U65", "U85"} /\ WordMod \in Nat \ {0}
  BY JobTypes, DeviceLayerAssumption DEF DeviceLayerAssumption
<1>4. CASE r[1] = "QBASE"
  <2>1. PICK k \in WordsOf(<< QBase(j) >>) : r = <<"QBASE", k>>
    BY <1>4 DEF RunRegs
  <2>2. k \in {0, 1} /\ (product = "U55" => k % 2 = 0)
    BY <2>1 DEF WordsOf
  <2>3. RunValue(j, r) \in Nat
    <3>1. QBase(j) \in Nat
      BY JobTypes
    <3>2. (k \div 2) + 1 = 1
      BY <2>2
    <3> QED BY <1>3, <2>1, <3>1, <3>2, Parts DEF RunValue, WordOf
  <2> QED BY <1>1, <2>1, <2>2, <2>3 DEF Registers, AxiRegs
<1>5. CASE r[1] = "BASEP"
  <2>1. PICK k \in WordsOf(BasesOf(j)) : r = <<"BASEP", k>>
    BY <1>5 DEF RunRegs
  <2>2. k \in 0..(2 * len - 1) /\ (product = "U55" => k % 2 = 0)
    BY <1>2, <2>1 DEF WordsOf
  <2>3. k \in 0..15 /\ k \div 2 \in 0..len - 1
    BY <2>2
  <2>4. RunValue(j, r) \in Nat
    <3>1. BasesOf(j)[(k \div 2) + 1] \in Nat
      BY <1>2, <2>3, JobTypes
    <3> QED BY <1>3, <2>1, <3>1, Parts DEF RunValue, WordOf
  <2>5. r \in Registers
    BY <2>1, <2>3 DEF Registers, NPU_REG_BASEP_ARRLEN
  <2> QED BY <1>1, <2>1, <2>2, <2>4, <2>5 DEF AxiRegs
<1>6. CASE r[1] \notin {"QBASE", "BASEP"}
  <2>1. r \in {"QSIZE", "QCONFIG", "REGIONCFG"} \X {0}
    BY <1>6 DEF RunRegs
  <2>2. j.bytes \in Nat /\ ConfigSelect(QBase(j), -1) \in Nat /\ RegionCfg(j) \in Nat
    BY JobTypes, RegionPorts DEF Jobs
  <2>3. RunValue(j, r) \in Nat
    BY <2>1, <2>2 DEF RunValue
  <2>4. r \in Registers
    BY <2>1 DEF Registers
  <2> QED BY <1>1, <2>1, <2>3, <2>4 DEF AxiRegs
<1> QED BY <1>4, <1>5, <1>6

\* The writes that follow a reset are those of AxiSet.
LEMMA AxiElements ==
    ASSUME product \in Products
    PROVE  /\ Elements(AxiInit) = AxiSet /\ AxiInit \in Seq(AxiSet)
           /\ AxiSet \subseteq Registers \X Nat
           /\ \A w \in AxiSet : w[1] \in AxiRegs /\ w[1][1] \notin {"QBASE", "BASEP"}
           /\ \A v, w \in AxiSet : v[1] = w[1] => v = w
           /\ \A i \in DOMAIN AxiInit : AxiInit[i] \in AxiSet
<1>1. product \in {"U55", "U65", "U85"}
  BY DeviceLayerAssumption DEF DeviceLayerAssumption
<1>2. /\ AxiSet \subseteq Registers \X Nat
      /\ \A w \in AxiSet : w[1] \in AxiRegs /\ w[1][1] \notin {"QBASE", "BASEP"}
      /\ \A v, w \in AxiSet : v[1] = w[1] => v = w
  BY DEF AxiSet, AxiRegs, Registers
<1>3. Elements(AxiInit) = AxiSet /\ AxiInit \in Seq(AxiSet)
  <2>1. CASE product # "U85"
    <3>1. AxiInit = AxiInitU55 /\ DOMAIN AxiInitU55 = 1..4
      BY <2>1 DEF AxiInit, AxiInitU55
    <3>2. AxiSet = {<<<<"AXI_LIMIT", 0>>, 1>>, <<<<"AXI_LIMIT", 1>>, 1>>,
                    <<<<"AXI_LIMIT", 2>>, 1>>, <<<<"AXI_LIMIT", 3>>, 1>>}
      BY <2>1 DEF AxiSet, AxiRegs
    <3>3. Elements(AxiInitU55) = AxiSet
      BY <3>1, <3>2 DEF Elements, AxiInitU55, Configured
    <3>4. AxiInitU55 \in [1..4 -> AxiSet]
      BY <3>1, <3>2 DEF AxiInitU55, Configured
    <3> QED BY <3>1, <3>3, <3>4, SeqDef
  <2>2. CASE product = "U85"
    <3> DEFINE s == [i \in 1..4 |-> Configured(<<"MEM_ATTR", i - 1>>)]
               t == << Configured(<<"AXI_SRAM", 0>>), Configured(<<"AXI_EXT", 0>>),
                       Configured(<<"POWER_CTRL", 0>>) >>
    <3>1. AxiInit = s \o t
      BY <2>2 DEF AxiInit, AxiInitU85
    <3>2. Elements(s) = {<<r, 1>> : r \in {"MEM_ATTR"} \X (0..3)}
      BY DEF Elements, Configured
    <3>3. /\ Elements(t) = {<<<<"AXI_SRAM", 0>>, 1>>, <<<<"AXI_EXT", 0>>, 1>>, <<<<"POWER_CTRL", 0>>, 1>>}
          /\ t \in Seq(Elements(t))
      BY DEF Elements, Configured
    <3>4. Elements(s) \cup Elements(t) = AxiSet
      BY <2>2, <3>2, <3>3 DEF AxiSet, AxiRegs
    <3>5. s \in [1..4 -> Elements(s)]
      BY DEF Elements
    <3>6. s \in Seq(AxiSet) /\ t \in Seq(AxiSet)
      <4>1. s \in Seq(Elements(s))
        BY <3>5, SeqDef
      <4>2. Elements(s) \subseteq AxiSet /\ Elements(t) \subseteq AxiSet
        BY <3>4
      <4> HIDE DEF s, t
      <4> QED BY <3>3, <4>1, <4>2, SeqMonotonic
    <3> HIDE DEF s, t
    <3> QED BY <3>1, <3>4, <3>6, ElementsConcat, ConcatProperties
  <2> QED BY <1>1, <2>1, <2>2
<1> QED BY <1>2, <1>3 DEF Elements

\* A write leaves every register of W written or about to be.
LEMMA DrainStep ==
    ASSUME NEW W, W \subseteq Registers \X Nat, \A v, w \in W : v[1] = w[1] => v = w,
           regs \in [Registers -> Nat], todo \in Seq(Registers \X Nat),
           Elements(todo) \subseteq W, Drains(W),
           Write, npu # "resetting"
    PROVE  Drains(W)'
<1>1. todo # << >> /\ todo' = Tail(todo) /\ regs' = [regs EXCEPT ![Head(todo)[1]] = Head(todo)[2]]
  BY DEF Write
<1>2. Elements(todo) = {Head(todo)} \cup Elements(Tail(todo))
  BY <1>1, ElementsHeadTail
<1> DEFINE h == Head(todo)
<1>3. h \in W /\ h[1] \in Registers
  BY <1>2
<1>4. ASSUME NEW w \in W PROVE regs'[w[1]] = w[2] \/ w \in Elements(Tail(todo))
  <2>1. CASE w[1] = h[1]
    <3>1. w = h
      BY <1>3, <2>1
    <3> QED BY <1>1, <1>3, <3>1
  <2>2. CASE w[1] # h[1]
    <3>1. w[1] \in Registers /\ regs'[w[1]] = regs[w[1]]
      BY <1>1, <1>3, <2>2
    <3> QED BY <1>2, <2>2, <3>1 DEF Drains
  <2> QED BY <2>1, <2>2
<1>5. Elements(todo)' = Elements(Tail(todo))
  BY <1>1 DEF Elements
<1> QED BY <1>4, <1>5 DEF Drains

-----------------------------------------------------------------------------
(* The parser.                                                             *)

\* What an action looks like in the payload.
LEMMA ActionCode ==
    ASSUME NEW a \in Actions
    PROVE  LET code == EncodeAction(a)
           IN  /\ Len(code) \in Nat \ {0} /\ DOMAIN code = 1..Len(code)
               /\ code[1].action = a.kind /\ Len(code) = ActionWords(code[1])
               /\ a.kind = "OPTIMIZER_CONFIG" =>
                    Len(code) = 3 /\ code[2].config = a.config /\ code[3].config = a.config
               /\ a.kind = "COMMAND_STREAM" => a.len \in Nat /\ StreamLength(code[1]) = a.len
<1>1. CASE a.kind = "OPTIMIZER_CONFIG"
  <2>1. EncodeAction(a) = << Word(a.kind, 0, 0), ConfigWord(a.config), ConfigWord(a.config) >>
    BY <1>1 DEF EncodeAction
  <2>2. Word(a.kind, 0, 0).action = a.kind /\ ConfigWord(a.config).config = a.config
    BY DEF Word, ConfigWord
  <2>3. ActionWords(Word(a.kind, 0, 0)) = 3
    BY <1>1, <2>2 DEF ActionWords
  <2> QED BY <1>1, <2>1, <2>2, <2>3
<1>2. CASE a.kind = "COMMAND_STREAM"
  <2> DEFINE head == Word(a.kind, a.len \div LengthMod, a.len % LengthMod)
             body == [i \in 1..a.len |-> StreamWord]
             S    == {head, StreamWord}
  <2>1. a.len \in Nat /\ LengthMod \in Nat \ {0}
    BY <1>2, PayloadAssumption DEF Actions, PayloadAssumption
  <2>2. head.action = a.kind /\ head.reserved = a.len \div LengthMod /\ head.length = a.len % LengthMod
    BY DEF Word
  <2>3. StreamLength(head) = a.len
    <3>1. (a.len % LengthMod) + ((a.len \div LengthMod) * LengthMod) = a.len
          /\ a.len % LengthMod \in Nat /\ a.len \div LengthMod \in Nat
      BY <2>1, Parts
    <3>2. StreamLength(head) = ((a.len \div LengthMod) * LengthMod) + (a.len % LengthMod)
      BY <2>2 DEF StreamLength
    <3>3. (a.len \div LengthMod) * LengthMod \in Nat
      BY <2>1, <3>1
    <3> QED BY <3>1, <3>2, <3>3
  <2>4. << head >> \in Seq(S) /\ body \in Seq(S) /\ Len(<< head >>) = 1 /\ Len(body) = a.len
    <3>1. body \in [1..a.len -> S]
      OBVIOUS
    <3>2. body \in Seq(S)
      BY <2>1, <3>1, SeqDef
    <3> QED BY <2>1, <3>2
  <2>5. EncodeAction(a) = << head >> \o body
    BY <1>2 DEF EncodeAction
  <2> HIDE DEF head, body
  <2>6. /\ << head >> \o body \in Seq(S) /\ Len(<< head >> \o body) = 1 + a.len
        /\ (<< head >> \o body)[1] = head
    BY <2>1, <2>4, ConcatProperties
  <2>7. ActionWords(head) = 1 + a.len
    BY <1>2, <2>2, <2>3 DEF ActionWords
  <2>8. DOMAIN (<< head >> \o body) = 1..Len(<< head >> \o body)
    BY <2>6, LenProperties
  <2> QED BY <1>2, <2>1, <2>2, <2>3, <2>5, <2>6, <2>7, <2>8
<1>3. CASE a.kind = "NOP"
  <2>1. EncodeAction(a) = << Word(a.kind, 0, 0) >>
    BY <1>3 DEF EncodeAction
  <2>2. Word(a.kind, 0, 0).action = a.kind
    BY DEF Word
  <2>3. ActionWords(Word(a.kind, 0, 0)) = 1
    BY <1>3, <2>2 DEF ActionWords
  <2> QED BY <1>3, <2>1, <2>2, <2>3
<1> QED BY <1>1, <1>2, <1>3 DEF Actions

\* What the parser sees before action n, and where it goes from there.
LEMMA ParserSees ==
    ASSUME op \in Payloads, NEW n \in 1..Len(op.actions) + 1, pos = op.starts[n], pos < Len(op.words)
    PROVE  /\ n \in DOMAIN op.actions /\ op.actions[n] \in Actions
           /\ n + 1 \in 1..Len(op.actions) + 1
           /\ pos \in Nat
           /\ Here.action = op.actions[n].kind
           /\ pos + ActionWords(Here) = op.starts[n + 1]
           /\ op.actions[n].kind = "OPTIMIZER_CONFIG" =>
                op.words[pos + 2].config = op.actions[n].config
                /\ op.words[pos + 3].config = op.actions[n].config
           /\ op.actions[n].kind = "COMMAND_STREAM" =>
                op.actions[n].len \in Nat /\ StreamLength(Here) = op.actions[n].len
<1>1. IsPayload(op)
  BY InvokeAssumption DEF InvokeAssumption
<1>2. op.actions \in Seq(Actions) /\ Len(op.actions) \in Nat /\ DOMAIN op.actions = 1..Len(op.actions)
  BY <1>1, LenProperties DEF IsPayload
<1>3. n \in DOMAIN op.actions /\ n + 1 \in 1..Len(op.actions) + 1
  <2>1. n # Len(op.actions) + 1
    <3>1. op.starts[Len(op.actions) + 1] = Len(op.words) /\ op.starts[n] \in Nat
      BY <1>1 DEF IsPayload
    <3> QED BY <3>1
  <2>2. \A l \in Nat : n \in 1..l + 1 /\ n # l + 1 => n \in 1..l /\ n + 1 \in 1..l + 1
    OBVIOUS
  <2> QED BY <1>2, <2>1, <2>2
<1>4. op.actions[n] \in Actions
  BY <1>2, <1>3, ElementOfSeq
<1> DEFINE code == EncodeAction(op.actions[n])
<1>5. /\ op.starts[n + 1] = op.starts[n] + Len(code)
      /\ \A k \in DOMAIN code : op.words[op.starts[n] + k] = code[k]
  BY <1>1, <1>3 DEF IsPayload
<1>6. /\ Len(code) \in Nat \ {0} /\ DOMAIN code = 1..Len(code)
      /\ code[1].action = op.actions[n].kind /\ Len(code) = ActionWords(code[1])
      /\ op.actions[n].kind = "OPTIMIZER_CONFIG" =>
            Len(code) = 3 /\ code[2].config = op.actions[n].config
            /\ code[3].config = op.actions[n].config
      /\ op.actions[n].kind = "COMMAND_STREAM" =>
            op.actions[n].len \in Nat /\ StreamLength(code[1]) = op.actions[n].len
  BY <1>4, ActionCode
<1>7. pos \in Nat
  BY <1>1 DEF IsPayload
<1> HIDE DEF code
<1>8. 1 \in DOMAIN code
  BY <1>6
<1>9. Here = code[1]
  BY <1>5, <1>8 DEF Here
<1>10. op.actions[n].kind = "OPTIMIZER_CONFIG" =>
            op.words[pos + 2].config = op.actions[n].config
            /\ op.words[pos + 3].config = op.actions[n].config
  <2>1. ASSUME Len(code) = 3 PROVE op.words[pos + 2] = code[2] /\ op.words[pos + 3] = code[3]
    <3>1. 2 \in DOMAIN code /\ 3 \in DOMAIN code
      BY <1>6, <2>1
    <3> QED BY <1>5, <3>1
  <2> QED BY <1>6, <2>1
<1> QED BY <1>3, <1>4, <1>5, <1>6, <1>7, <1>9, <1>10

\* An action that can be refused, or starts a stream, is met before any stream.
LEMMA NotBegunYet ==
    ASSUME StateFits, ParserFits, pc = "parse", pos < Len(op.words), Here.action # "NOP"
    PROVE  state = "IDLE" /\ ~Begun
<1>1. ASSUME Begun PROVE FALSE
  <2>1. op \in Payloads
    BY <1>1 DEF ParserFits, Called, Begun
  <2>2. PICK n \in 1..Len(op.actions) + 1 : AtAction(n)
    BY DEF ParserFits
  <2>3. pos = op.starts[n] /\ \A i \in n..Len(op.actions) : op.actions[i].kind = "NOP"
    BY <1>1, <2>2 DEF AtAction
  <2>4. n \in DOMAIN op.actions /\ Here.action = op.actions[n].kind
    BY <2>1, <2>3, ParserSees
  <2>5. Len(op.actions) \in Nat /\ DOMAIN op.actions = 1..Len(op.actions)
    BY <2>1, InvokeAssumption, LenProperties DEF InvokeAssumption, IsPayload
  <2>6. n \in n..Len(op.actions)
    BY <2>4, <2>5
  <2> QED BY <2>3, <2>4, <2>6
<1> QED BY <1>1 DEF Begun

-----------------------------------------------------------------------------
(* The thread.                                                             *)

\* Before the first call nothing is under way.
LEMMA InvokeInvInit == InvokeInit => InvokeInv
<1> SUFFICES ASSUME InvokeInit PROVE InvokeInv
  OBVIOUS
<1>1. DevInv
  BY DevInvInit DEF InvokeInit
<1>2. DriverInv
  <2>1. /\ dev = "none" /\ npu = "stopped" /\ irq = FALSE /\ answer = "none"
        /\ pc = "off" /\ state = "IDLE" /\ result = "OK" /\ power = 0 /\ held = 0
        /\ collected = FALSE /\ clean = FALSE /\ unseen = FALSE
    BY DEF InvokeInit, DeviceInit
  <2>2. power \in 0..MaxPower
    BY <2>1, InvokeAssumption DEF InvokeAssumption
  <2> QED BY <2>1, <2>2
        DEF DriverInv, CallsFit, StateFits, NpuFits, PowerFits, CacheFits, Starting, Powers, Begun
<1>3. PayloadInv
  BY DEF InvokeInit, DeviceInit, PayloadInv, ParserFits, RequestFits, Called, Begun
<1>4. RegisterInv
  <2>1. regs \in [Registers -> Nat] /\ \A r \in Registers : regs[r] = 0
    BY DEF InvokeInit, DeviceInit, ResetRegs
  <2>2. cmd \subseteq CmdBits /\ word \subseteq CmdBits /\ todo = << >> /\ ~Starting /\ ~Resetting
        /\ state = "IDLE" /\ sound = FALSE
    BY DEF InvokeInit, DeviceInit, CmdBits, PwrClkMask, Starting, Resetting
  <2>3. todo \in Seq(Registers \X Nat)
    BY <2>2
  <2>4. WritesFit
    BY <2>1, <2>2, <2>3 DEF WritesFit
  <2>5. SettingsFit
    BY <2>2 DEF SettingsFit
  <2> QED BY <2>4, <2>5 DEF RegisterInv
<1> QED BY <1>1, <1>2, <1>3, <1>4 DEF InvokeInv

\* Steps of the driver above the device layer that call nothing of it.
LocalStep ==
    \/ InitReturn \/ (\E p \in Payloads, a \in Placements, b \in BaseAddresses[product] : Invoke(p, a, b))
    \/ AdjustFastMemory \/ ParseEnd \/ ParseConfig \/ ParseNop \/ ParseStream
    \/ Powered \/ Started \/ Err \/ Wait \/ WaitDone \/ WaitTimeout \/ Invalidate \/ Clear
    \/ RequestReturn \/ Return

\* Steps that may call it.
CallStep ==
    \/ InitCall \/ PowerForRun \/ Start \/ PowerAfterRun \/ Verdict
    \/ RequestPower \/ ReleasePower \/ SoftReset

\* Steps that call nothing keep what is known of thread, job and power.
LEMMA LocalKeepsDriver ==
    ASSUME DevInv, DriverInv, ParserFits, LocalStep
    PROVE  DriverInv'
<1>m. MaxPower \in Nat
  BY InvokeAssumption DEF InvokeAssumption
<1> USE DEF DriverInv, CallsFit, StateFits, NpuFits, PowerFits, CacheFits, Starting, Powers, Begun,
            Local, Idle, Goto, deviceVars, npuVars, callVars, driverVars, jobVars, payload, memory
<1>0. UNCHANGED <<npu, irq, dev, task, answer>> /\ dev = "none"
  BY DEF LocalStep, InitReturn, Invoke, AdjustFastMemory, ParseEnd, ParseConfig, ParseNop, ParseStream,
         Powered, Started, Err, Wait, WaitDone, WaitTimeout, Invalidate, Clear, RequestReturn, Return
<1>1. CASE InitReturn
  BY <1>0, <1>1 DEF InitReturn
<1>2. ASSUME NEW p, NEW a, NEW b, Invoke(p, a, b) PROVE DriverInv'
  <2>1. /\ pc = "idle" /\ state = "IDLE" /\ power < MaxPower /\ pc' = "header"
        /\ clean' = FALSE /\ collected' = FALSE /\ UNCHANGED <<state, result, power, held, unseen>>
    BY <1>2 DEF Invoke
  <2> QED BY <1>0, <2>1
<1>3. CASE AdjustFastMemory
  BY <1>0, <1>3 DEF AdjustFastMemory
<1>4. CASE ParseEnd
  BY <1>0, <1>4 DEF ParseEnd
<1>5. CASE ParseConfig
  <2>1. state = "IDLE"
    BY <1>5, NotBegunYet DEF ParseConfig
  <2> QED BY <1>0, <1>5, <2>1 DEF ParseConfig
<1>6. CASE ParseNop
  BY <1>0, <1>6 DEF ParseNop
<1>7. CASE ParseStream
  <2>1. state = "IDLE"
    BY <1>7, NotBegunYet DEF ParseStream
  <2>2. pc = "parse" /\ UNCHANGED <<state, result, power, held, collected, unseen>>
    BY <1>7 DEF ParseStream
  <2>3. (pc' = "power" /\ clean' = TRUE) \/ (pc' = "err" /\ clean' = clean)
    BY <1>7 DEF ParseStream
  <2> QED BY <1>0, <2>1, <2>2, <2>3
<1>8. CASE Powered
  <2>1. /\ pc = "powered" /\ UNCHANGED <<state, result, held, clean, unseen, collected>>
        /\ (pc' = "start" /\ power' = power) \/ (pc' = "err" /\ power' = power - 1)
    BY <1>8 DEF Powered
  <2>2. power = held + 1 /\ state = "IDLE"
    BY <2>1
  <2>3. PowerFits'
    <3>1. CASE pc' = "start"
      BY <2>1, <2>2, <3>1
    <3>2. CASE pc' = "err" /\ power' = power - 1
      BY <1>m, <2>1, <2>2, <3>2
    <3> QED BY <2>1, <3>1, <3>2
  <2> QED BY <1>0, <2>1, <2>2, <2>3
<1>9. CASE Started
  BY <1>0, <1>9 DEF Started
<1>10. CASE Err
  BY <1>0, <1>10 DEF Err
<1>11. CASE Wait
  BY <1>0, <1>11 DEF Wait
<1>12. CASE WaitDone
  BY <1>0, <1>12 DEF WaitDone
<1>13. CASE WaitTimeout
  BY <1>0, <1>13 DEF WaitTimeout
<1>14. CASE Invalidate
  <2>1. /\ pc = "end" /\ pc' = "unpower" /\ unseen' = FALSE
        /\ UNCHANGED <<state, result, power, held, collected, clean>>
    BY <1>14 DEF Invalidate
  <2> QED BY <1>0, <2>1
<1>15. CASE Clear
  BY <1>0, <1>15 DEF Clear
<1>16. CASE RequestReturn
  <2>1. /\ pc = "request" /\ pc' = "idle"
        /\ UNCHANGED <<state, result, clean, unseen, collected>>
        /\ UNCHANGED <<power, held>> \/ (power' = power - 1 /\ held' = held - 1)
    BY <1>16 DEF RequestReturn
  <2>2. PowerFits'
    BY <1>m, <2>1
  <2> QED BY <1>0, <2>1, <2>2
<1>17. CASE Return
  BY <1>0, <1>17 DEF Return
<1> QED
  BY <1>1, <1>2, <1>3, <1>4, <1>5, <1>6, <1>7, <1>8, <1>9, <1>10, <1>11, <1>12, <1>13, <1>14, <1>15,
     <1>16, <1>17 DEF LocalStep

\* So do the calls.
LEMMA CallKeepsDriver ==
    ASSUME DevInv, DriverInv, CallStep
    PROVE  DriverInv'
<1> USE InvokeAssumption
    DEF InvokeAssumption, DriverInv, CallsFit, StateFits, NpuFits, PowerFits, CacheFits, Starting,
        Powers, Begun, Idle, Goto, CallInit, CallSoftReset, CallRun, CallGating, Begin,
        deviceVars, npuVars, callVars, driverVars, jobVars, payload, memory
<1>1. CASE InitCall
  BY <1>1 DEF InitCall
<1>2. CASE PowerForRun
  BY <1>2 DEF PowerForRun
<1>3. CASE Start
  BY <1>3 DEF Start
<1>4. CASE PowerAfterRun
  BY <1>4 DEF PowerAfterRun
<1>5. CASE Verdict
  BY <1>5 DEF Verdict
<1>6. CASE RequestPower
  BY <1>6 DEF RequestPower
<1>7. CASE ReleasePower
  BY <1>7 DEF ReleasePower
<1>8. CASE SoftReset
  BY <1>8 DEF SoftReset
<1> QED BY <1>1, <1>2, <1>3, <1>4, <1>5, <1>6, <1>7, <1>8 DEF CallStep

\* What a step of the layer can change of what the thread sees.
LEMMA LayerEffect ==
    ASSUME DevInv, DeviceStep
    PROVE  /\ dev # "none" /\ UNCHANGED <<product, task>>
           /\ answer' \in {answer, "ok", "failed"}
           /\ Starting' => Starting
           /\ irq' => irq
           /\ npu' = "running" => npu = "running" \/ (Starting /\ ~Starting')
           /\ task = "reset" /\ dev' = "none" => npu' # "running" /\ ~irq'
<1> USE DEF DevInv, PlacesInv, ResetInv, StartInv, CmdInv, Resetting, Starting, npuVars, Finish, PwrClkMask
<1>1. CASE WriteReset
  BY <1>1 DEF WriteReset
<1>2. CASE PollDone
  BY <1>2 DEF PollDone
<1>3. CASE PollTimeout
  BY <1>3 DEF PollTimeout
<1>4. CASE Verify
  BY <1>4 DEF Verify
<1>5. CASE Write
  BY <1>5 DEF Write
<1>6. CASE InitDone
  BY <1>6 DEF InitDone
<1>7. CASE CmdRead
  BY <1>7 DEF CmdRead
<1>8. CASE CmdWrite
  BY <1>8 DEF CmdWrite, WriteCmd
<1> QED BY <1>1, <1>2, <1>3, <1>4, <1>5, <1>6, <1>7, <1>8 DEF DeviceStep

\* The layer, the handler and the NPU keep what is known of thread, job and power.
LEMMA OthersKeepDriver ==
    ASSUME DevInv, DriverInv, LayerStep \/ IrqHandler \/ Hardware
    PROVE  DriverInv'
<1> USE DEF DriverInv, CallsFit, StateFits, NpuFits, PowerFits, CacheFits, Powers, Begun,
            npuVars, callVars, driverVars, jobVars, payload, memory
<1>1. CASE LayerStep
  <2>1. /\ dev # "none" /\ UNCHANGED task
        /\ answer' \in {answer, "ok", "failed"}
        /\ Starting' => Starting
        /\ irq' => irq
        /\ npu' = "running" => npu = "running" \/ (Starting /\ ~Starting')
        /\ task = "reset" /\ dev' = "none" => npu' # "running" /\ ~irq'
    BY <1>1, LayerEffect DEF LayerStep
  <2>2. UNCHANGED <<pc, state, result, power, held, collected, clean, unseen>>
    BY <1>1 DEF LayerStep
  <2>3. pc = "clear" => task = "reset"
    BY <2>1
  <2> QED BY <2>1, <2>2, <2>3
<1>2. CASE IrqHandler
  <2>1. irq /\ npu # "resetting"
    BY <1>2 DEF IrqHandler, DevInv, ResetInv
  <2>2. UNCHANGED <<npu, dev, task, answer>> /\ irq' = FALSE
    BY <1>2, <2>1 DEF IrqHandler, ClearInterrupt, WriteCmd, PwrClkMask
  <2>3. UNCHANGED <<pc, power, held, collected, clean, unseen>>
    BY <1>2 DEF IrqHandler
  <2>4. IF result = "TIMEOUT" THEN UNCHANGED <<state, result>>
        ELSE state' = "DONE" /\ result' \in {"OK", "ERROR"}
    BY <1>2 DEF IrqHandler
  <2>5. state = "RUNNING" /\ ~Starting /\ ~Starting'
    BY <2>1, <2>2 DEF Starting
  <2>6. irq' = FALSE /\ npu' = npu
    BY <2>2
  <2>7. NpuFits'
    BY <2>1, <2>2, <2>3, <2>4, <2>5
  <2>8. ~collected /\ (pc \in {"unpower", "verdict", "clear"} => result = "TIMEOUT")
    BY <2>5
  <2>9. CacheFits'
    BY <2>3, <2>4, <2>5, <2>8
  <2>10. StateFits'
    BY <2>3, <2>4, <2>5
  <2>11. PowerFits' /\ CallsFit'
    BY <2>2, <2>3, <2>4, <2>5
  <2> QED BY <2>7, <2>9, <2>10, <2>11
<1>3. CASE Hardware
  <2>1. /\ UNCHANGED <<pc, state, result, power, held, collected, clean>>
        /\ unseen' = (unseen \/ npu = "running")
    BY <1>3 DEF Hardware
  <2>2. UNCHANGED <<dev, task, answer>> /\ npu' = "stopped" /\ (irq' => irq \/ npu = "running")
    <3>1. CASE Stop
      BY <3>1 DEF Stop
    <3>2. CASE ResetEnds
      BY <3>2 DEF ResetEnds
    <3> QED BY <1>3, <3>1, <3>2 DEF Hardware, NpuStep
  <2> QED BY <2>1, <2>2 DEF Starting
<1> QED BY <1>1, <1>2, <1>3

\* Whatever the driver calls, it calls as EthosuDevice allows: one call at a time,
\* and a start only of a job, on an NPU that does not run.
LEMMA DrivesDevice ==
    ASSUME DriverInv, RequestFits, [InvokeNext]_allVars
    PROVE  [DeviceNext]_deviceVars
<1>1. CASE LocalStep
  BY <1>1 DEF LocalStep, InitReturn, Invoke, AdjustFastMemory, ParseEnd, ParseConfig, ParseNop, ParseStream,
      Powered, Started, Err, Wait, WaitDone, WaitTimeout, Invalidate, Clear, RequestReturn, Return, Local
<1>2. ASSUME NEW g \in BOOLEAN, Idle /\ CallSoftReset(g) PROVE DeviceNext
  BY <1>2 DEF DeviceNext, AnyCall
<1>3. CASE Start
  <2>1. request \in Jobs
    BY <1>3 DEF Start, RequestFits, Begun
  <2>2. npu # "running"
    BY <1>3 DEF Start, DriverInv, StateFits, NpuFits
  <2>3. Idle /\ CallRun(request)
    BY <1>3 DEF Start
  <2> QED BY <2>1, <2>2, <2>3 DEF DeviceNext, AnyCall
<1>4. CASE CallStep /\ ~Start
  <2>1. CASE InitCall
    BY <2>1 DEF InitCall, DeviceNext, AnyCall
  <2>2. CASE PowerForRun
    BY <1>2, <2>2 DEF PowerForRun
  <2>3. CASE PowerAfterRun
    BY <2>3 DEF PowerAfterRun, DeviceNext, AnyCall
  <2>4. CASE Verdict
    <3>1. (power = 0) \in BOOLEAN
      OBVIOUS
    <3> QED BY <1>2, <2>4, <3>1 DEF Verdict
  <2>5. CASE RequestPower
    BY <1>2, <2>5 DEF RequestPower
  <2>6. CASE ReleasePower
    BY <2>6 DEF ReleasePower, DeviceNext, AnyCall
  <2>7. CASE SoftReset
    <3>1. (power = 0) \in BOOLEAN
      OBVIOUS
    <3> QED BY <1>2, <2>7, <3>1 DEF SoftReset
  <2> QED BY <1>4, <2>1, <2>2, <2>3, <2>4, <2>5, <2>6, <2>7 DEF CallStep
<1>5. CASE LayerStep \/ IrqHandler \/ Hardware
  BY <1>5 DEF LayerStep, IrqHandler, Hardware, DeviceNext
<1>6. CASE UNCHANGED allVars
  BY <1>6 DEF allVars
<1>7. CASE InvokeNext
  BY <1>1, <1>3, <1>4, <1>5, <1>7
      DEF InvokeNext, ApplicationStep, DriverStep, LocalStep, CallStep
<1> QED BY <1>6, <1>7

-----------------------------------------------------------------------------
(* The payload.                                                            *)

\* Nothing is forgotten as long as the call goes on with the same payload.
LEMMA PayloadStays ==
    ASSUME PayloadInv, UNCHANGED <<product, payload, request>>,
           Begun' => Begun, pc' = "header" => pc = "header",
           pc' = "parse" => pc \in {"parse", "started"},
           pc' \in {"power", "powered", "start", "started"} =>
                pc \in {"power", "powered", "start", "started"},
           pc = "started" => Begun
    PROVE  PayloadInv'
<1> USE DEF PayloadInv, Called, payload
<1>1. Called' => Called
  OBVIOUS
<1>2. ASSUME NEW n \in 1..Len(op.actions) + 1, AtAction(n) PROVE AtAction(n)'
  BY <1>2 DEF AtAction, Compatible
<1>3. ParserFits'
  <2>1. pc' \in {"parse", "power", "powered", "start", "started"} =>
            \E n \in 1..Len(op.actions) + 1 : AtAction(n)
    BY DEF ParserFits
  <2>2. Adjusted(asked)' = Adjusted(asked)
    BY DEF Adjusted
  <2>3. product' \in Products
    BY DEF ParserFits
  <2>4. Called' => op' \in Payloads /\ at' \in Placements /\ asked' \in BaseAddresses[product']
    BY <1>1 DEF ParserFits
  <2>5. pc' = "header" => pos' = 1 /\ base_addr' = asked'
    BY DEF ParserFits
  <2>6. pc' = "parse" \/ Begun' => base_addr' = Adjusted(asked)'
    BY <2>2 DEF ParserFits
  <2>7. pc' \in {"parse", "power", "powered", "start", "started"} =>
            (\E n \in 1..Len(op.actions) + 1 : AtAction(n))'
    <3> SUFFICES ASSUME pc' \in {"parse", "power", "powered", "start", "started"}
                 PROVE  (\E n \in 1..Len(op.actions) + 1 : AtAction(n))'
      OBVIOUS
    <3>1. PICK n \in 1..Len(op.actions) + 1 : AtAction(n)
      BY <2>1
    <3>2. AtAction(n)' /\ n \in 1..Len(op'.actions) + 1
      BY <1>2, <3>1
    <3> QED BY <3>2
  <2> QED BY <2>3, <2>4, <2>5, <2>6, <2>7 DEF ParserFits
<1>4. RequestFits'
  BY DEF RequestFits, JobOf, Adjusted, Compatible
<1> QED BY <1>3, <1>4

\* The base addresses as the driver passes them on.
LEMMA AdjustedSeq ==
    ASSUME NEW b \in Seq(Addresses)
    PROVE  Adjusted(b) \in Seq(Addresses) /\ Len(Adjusted(b)) = Len(b)
           /\ \A i \in 0..Len(b) - 1 :
                Adjusted(b)[i + 1] = IF i = 2 /\ FastMemory # 0 THEN FastMemory ELSE b[i + 1]
<1>1. PICK len \in Nat : len = Len(b)
  BY LenProperties
<1>2. FastMemory \in Addresses
  BY InvokeAssumption DEF InvokeAssumption
<1>3. CASE FastMemory # 0 /\ Len(b) > 2
  <2>1. 3 \in 1..Len(b)
    <3>1. len > 2
      BY <1>1, <1>3
    <3>2. 3 \in 1..len
      BY <3>1
    <3> QED BY <1>1, <3>2
  <2>2. Adjusted(b) = [b EXCEPT ![3] = FastMemory]
    BY <1>3 DEF Adjusted, FAST_MEMORY_BASE_ADDR_INDEX
  <2>3. /\ Adjusted(b) \in Seq(Addresses) /\ Len(Adjusted(b)) = Len(b)
        /\ \A k \in 1..Len(b) : Adjusted(b)[k] = IF k = 3 THEN FastMemory ELSE b[k]
    BY <1>2, <2>1, <2>2, ExceptSeq
  <2>4. \A i \in 0..len - 1 : i + 1 \in 1..len /\ (i + 1 = 3 <=> i = 2)
    OBVIOUS
  <2> QED BY <1>1, <1>3, <2>3, <2>4
<1>4. CASE ~(FastMemory # 0 /\ Len(b) > 2)
  <2>1. Adjusted(b) = b
    BY <1>4 DEF Adjusted, FAST_MEMORY_BASE_ADDR_INDEX
  <2>2. \A i \in 0..len - 1 : i = 2 => len > 2
    OBVIOUS
  <2> QED BY <1>1, <1>4, <2>1, <2>2
<1> QED BY <1>3, <1>4

\* A stream that is found becomes a request for that stream.
LEMMA StreamFound ==
    ASSUME StateFits, PayloadInv, ParseStream, pc' = "power"
    PROVE  PayloadInv'
<1> USE DEF PayloadInv
<1>1. /\ pc = "parse" /\ pos < Len(op.words) /\ Here.action = "COMMAND_STREAM"
      /\ UNCHANGED <<product, op, at, asked, base_addr, state>>
      /\ pos' = pos + ActionWords(Here)
      /\ request' = [stream |-> at + BYTES_IN_32_BITS * (pos + 1),
                     bytes |-> BYTES_IN_32_BITS * StreamLength(Here), bases |-> base_addr]
  BY DEF ParseStream, Local, deviceVars, Goto, jobVars
<1>2. op \in Payloads /\ at \in Placements /\ asked \in BaseAddresses[product]
      /\ base_addr = Adjusted(asked) /\ product \in Products
  BY <1>1 DEF ParserFits, Called
<1>3. state = "IDLE" /\ ~Begun
  BY <1>1, NotBegunYet
<1>4. PICK n \in 1..Len(op.actions) + 1 : AtAction(n)
  BY <1>1 DEF ParserFits
<1>5. pos = op.starts[n] /\ \A i \in 1..(n - 1) : Compatible(op.actions[i])
  BY <1>4 DEF AtAction
<1>6. /\ n \in DOMAIN op.actions /\ n + 1 \in 1..Len(op.actions) + 1 /\ pos \in Nat
      /\ op.actions[n].kind = "COMMAND_STREAM" /\ pos' = op.starts[n + 1]
      /\ op.actions[n].len \in Nat /\ StreamLength(Here) = op.actions[n].len
  BY <1>1, <1>2, <1>5, ParserSees
<1>7. Len(op.actions) \in Nat /\ DOMAIN op.actions = 1..Len(op.actions)
  BY <1>2, InvokeAssumption, LenProperties DEF InvokeAssumption, IsPayload
<1>8. \A i \in (n + 1)..Len(op.actions) : i \in DOMAIN op.actions /\ n < i
  BY <1>6, <1>7
<1>9. \A i \in (n + 1)..Len(op.actions) : op.actions[i].kind = "NOP"
  BY <1>2, <1>6, <1>8, InvokeAssumption DEF InvokeAssumption, OneStream
<1>10. \A i \in DOMAIN op.actions : Compatible(op.actions[i])
  <2>1. \A i \in DOMAIN op.actions : i \in 1..(n - 1) \/ i = n \/ i \in (n + 1)..Len(op.actions)
    BY <1>6, <1>7
  <2> QED BY <1>5, <1>6, <1>9, <2>1 DEF Compatible
<1>11. request' \in Jobs
  <2>1. Len(op.words) \in Nat
    BY <1>2, <1>7, InvokeAssumption DEF InvokeAssumption, IsPayload
  <2>2. pos + 1 \in 0..Len(op.words)
    <3>1. \A l \in Nat : pos < l => pos + 1 \in 0..l
      BY <1>6
    <3> QED BY <1>1, <2>1, <3>1
  <2>3. at + BYTES_IN_32_BITS * (pos + 1) \in Addresses
    BY <1>2, <2>2, InvokeAssumption DEF InvokeAssumption
  <2>4. BYTES_IN_32_BITS * StreamLength(Here) \in Nat
    <3>1. \A l \in Nat : 4 * l \in Nat
      OBVIOUS
    <3> QED BY <1>6, <3>1 DEF BYTES_IN_32_BITS
  <2>5. base_addr \in Seq(Addresses)
    <3>1. asked \in Seq(Addresses)
      BY <1>2, InvokeAssumption DEF InvokeAssumption
    <3> QED BY <1>2, <3>1, AdjustedSeq
  <2> QED BY <1>1, <2>3, <2>4, <2>5 DEF Jobs
<1>12. request' = JobOf(n)
  BY <1>1, <1>2, <1>5, <1>6 DEF JobOf
<1>13. JobOf(n)' = JobOf(n) /\ Adjusted(asked)' = Adjusted(asked)
       /\ \A i \in DOMAIN op.actions : Compatible(op.actions[i])' = Compatible(op.actions[i])
  BY <1>1 DEF JobOf, Adjusted, Compatible
<1>14. RequestFits'
  BY <1>1, <1>6, <1>10, <1>11, <1>12, <1>13 DEF RequestFits
<1>15. AtAction(n + 1)'
  <2>1. \A i \in 1..((n + 1) - 1) : i \in DOMAIN op.actions
    BY <1>6, <1>7
  <2> QED BY <1>1, <1>6, <1>9, <1>10, <1>13, <2>1 DEF AtAction
<1>16. ParserFits'
  BY <1>1, <1>2, <1>6, <1>13, <1>15 DEF ParserFits
<1> QED BY <1>14, <1>16

\* The NPU is not exchanged.
LEMMA ProductFixed == ASSUME [DeviceNext]_deviceVars PROVE UNCHANGED product
<1>1. CASE AnyCall
  BY <1>1 DEF AnyCall, CallInit, CallGating, CallSoftReset, CallRun, Begin
<1>2. CASE DeviceStep
  BY <1>2 DEF DeviceStep, WriteReset, PollDone, PollTimeout, Verify, Write, InitDone, CmdRead, CmdWrite
<1>3. CASE ClearInterrupt \/ NpuStep
  BY <1>3 DEF ClearInterrupt, NpuStep, Stop, ResetEnds
<1> QED BY <1>1, <1>2, <1>3 DEF DeviceNext, deviceVars

\* A call begins with its header word, and the base addresses as they were passed.
LEMMA InvokeKeepsPayload ==
    ASSUME PayloadInv, UNCHANGED product,
           NEW p \in Payloads, NEW a \in Placements, NEW b \in BaseAddresses[product], Invoke(p, a, b)
    PROVE  PayloadInv'
<1>1. /\ state = "IDLE" /\ state' = "IDLE" /\ pc' = "header"
      /\ op' = p /\ at' = a /\ pos' = 1 /\ asked' = b /\ base_addr' = b
  BY DEF Invoke, Goto, jobVars
<1>2. ~Begun'
  BY <1>1 DEF Begun
<1>3. ParserFits'
  BY <1>1, <1>2 DEF ParserFits, PayloadInv
<1>4. RequestFits'
  BY <1>2 DEF RequestFits
<1> QED BY <1>3, <1>4 DEF PayloadInv

\* Then the parser is before the first action.
LEMMA AdjustKeepsPayload ==
    ASSUME StateFits, PayloadInv, UNCHANGED product, AdjustFastMemory
    PROVE  PayloadInv'
<1>1. /\ pc = "header" /\ UNCHANGED <<state, op, at, pos, asked>>
      /\ \/ pc' = "err"
         \/ ~UsesFastMemory /\ pc' = "parse" /\ base_addr' = base_addr
         \/ UsesFastMemory /\ pc' = "parse"
            /\ base_addr' = [base_addr EXCEPT ![FAST_MEMORY_BASE_ADDR_INDEX + 1] = FastMemory]
  BY DEF AdjustFastMemory, Goto, jobVars
<1>2. op \in Payloads /\ at \in Placements /\ asked \in BaseAddresses[product]
      /\ base_addr = asked /\ pos = 1 /\ product \in Products
  BY <1>1 DEF PayloadInv, ParserFits, Called
<1>3. ~Begun /\ ~Begun'
  BY <1>1 DEF StateFits, Begun
<1>4. pc' = "parse" => base_addr' = Adjusted(asked)'
  <2>1. Adjusted(asked)' = Adjusted(asked)
    BY <1>1 DEF Adjusted
  <2>2. pc' = "parse" => base_addr' = Adjusted(asked)
    BY <1>1, <1>2 DEF Adjusted, UsesFastMemory
  <2> QED BY <2>1, <2>2
<1>5. AtAction(1)' /\ 1 \in 1..Len(op.actions) + 1
  <2>1. IsPayload(op)
    BY <1>2, InvokeAssumption DEF InvokeAssumption
  <2>2. op.starts[1] = 1 /\ Len(op.actions) \in Nat
    BY <2>1, LenProperties DEF IsPayload
  <2>3. 1..(1 - 1) = {} /\ \A l \in Nat : 1 \in 1..l + 1
    OBVIOUS
  <2> QED BY <1>1, <1>2, <1>3, <2>2, <2>3 DEF AtAction
<1>6. (\E n \in 1..Len(op.actions) + 1 : AtAction(n))'
  <2>1. 1 \in 1..Len(op'.actions) + 1
    BY <1>1, <1>5
  <2> QED BY <1>5, <2>1
<1>7. ParserFits'
  BY <1>1, <1>2, <1>3, <1>4, <1>6 DEF ParserFits
<1>8. RequestFits'
  BY <1>3 DEF RequestFits
<1> QED BY <1>7, <1>8 DEF PayloadInv

\* After a configuration the NPU has, and after a NOP, the parser is before the
\* next action.
LEMMA ParseKeepsPayload ==
    ASSUME StateFits, PayloadInv, UNCHANGED product, ParseConfig \/ ParseNop, pc' = "parse"
    PROVE  PayloadInv'
<1>1. /\ pc = "parse" /\ pos < Len(op.words) /\ Here.action \in {"OPTIMIZER_CONFIG", "NOP"}
      /\ UNCHANGED <<op, at, asked, base_addr, state, request>>
      /\ pos' = pos + ActionWords(Here)
  BY DEF ParseConfig, ParseNop, jobVars
<1>2. op \in Payloads /\ at \in Placements /\ asked \in BaseAddresses[product]
      /\ base_addr = Adjusted(asked) /\ product \in Products
  BY <1>1 DEF PayloadInv, ParserFits, Called
<1>3. PICK n \in 1..Len(op.actions) + 1 : AtAction(n)
  BY <1>1 DEF PayloadInv, ParserFits
<1>4. /\ pos = op.starts[n] /\ \A i \in 1..(n - 1) : Compatible(op.actions[i])
      /\ Begun => \A i \in n..Len(op.actions) : op.actions[i].kind = "NOP"
  BY <1>3 DEF AtAction
<1>5. /\ n \in DOMAIN op.actions /\ n + 1 \in 1..Len(op.actions) + 1
      /\ Here.action = op.actions[n].kind /\ pos' = op.starts[n + 1]
      /\ op.actions[n].kind = "OPTIMIZER_CONFIG" =>
            op.words[pos + 2].config = op.actions[n].config
            /\ op.words[pos + 3].config = op.actions[n].config
  BY <1>1, <1>2, <1>4, ParserSees
<1>6. Compatible(op.actions[n])
  <2>1. CASE ParseNop
    BY <1>5, <2>1 DEF ParseNop, Compatible
  <2>2. CASE ParseConfig
    <3>1. VerifyConfig(product, op.words[pos + 2].config, op.words[pos + 3].config)
      BY <2>2 DEF ParseConfig, Goto
    <3>2. Here.action = "OPTIMIZER_CONFIG"
      BY <2>2 DEF ParseConfig
    <3> QED BY <1>5, <3>1, <3>2 DEF Compatible
  <2> QED BY <2>1, <2>2
<1>7. \A i \in 1..((n + 1) - 1) : Compatible(op.actions[i])
  <2>1. \A i \in 1..((n + 1) - 1) : i \in 1..(n - 1) \/ i = n
    OBVIOUS
  <2> QED BY <1>4, <1>6, <2>1
<1>8. Begun' = Begun
  BY <1>1 DEF Begun
<1>9. Begun => \A i \in (n + 1)..Len(op.actions) : op.actions[i].kind = "NOP"
  <2>1. Len(op.actions) \in Nat
    BY <1>2, LenProperties, InvokeAssumption DEF InvokeAssumption, IsPayload
  <2>2. \A i \in (n + 1)..Len(op.actions) : i \in n..Len(op.actions)
    BY <2>1
  <2> QED BY <1>4, <2>2
<1>10. /\ \A i : Compatible(op.actions[i])' = Compatible(op.actions[i])
       /\ Adjusted(asked)' = Adjusted(asked)
  BY <1>1 DEF Compatible, Adjusted
<1>11. AtAction(n + 1)'
  BY <1>1, <1>5, <1>7, <1>8, <1>9, <1>10 DEF AtAction
<1>12. (\E m \in 1..Len(op.actions) + 1 : AtAction(m))'
  <2>1. n + 1 \in 1..Len(op'.actions) + 1
    BY <1>1, <1>5
  <2> QED BY <1>11, <2>1
<1>13. ParserFits'
  BY <1>1, <1>2, <1>8, <1>10, <1>12 DEF ParserFits
<1>14. RequestFits'
  BY <1>1, <1>8 DEF RequestFits, PayloadInv, JobOf, Adjusted, Compatible
<1> QED BY <1>13, <1>14 DEF PayloadInv

\* An invocation that fails holds nothing.
LEMMA FailKeepsPayload ==
    ASSUME PayloadInv, UNCHANGED product, pc' = "err", state' = "IDLE"
    PROVE  PayloadInv'
<1>1. ~Begun' /\ ~Called'
  BY DEF Begun, Called
<1>2. ParserFits'
  BY <1>1 DEF PayloadInv, ParserFits
<1> QED BY <1>1, <1>2 DEF PayloadInv, RequestFits

\* Every step keeps what is known of the payload and of the request made of it.
LEMMA PayloadInvStep ==
    ASSUME DriverInv, PayloadInv, [InvokeNext]_allVars
    PROVE  PayloadInv'
<1>0. UNCHANGED product
  BY DrivesDevice, ProductFixed DEF PayloadInv
<1>1. ASSUME UNCHANGED <<payload, request>>,
             Begun' => Begun, pc' = "header" => pc = "header",
             pc' = "parse" => pc \in {"parse", "started"},
             pc' \in {"power", "powered", "start", "started"} =>
                pc \in {"power", "powered", "start", "started"}
      PROVE  PayloadInv'
  <2>1. pc = "started" => Begun
    BY DEF DriverInv, StateFits, Begun
  <2> QED BY <1>0, <1>1, <2>1, PayloadStays
<1>2. CASE LocalStep
  <2>1. ASSUME NEW p \in Payloads, NEW a \in Placements, NEW b \in BaseAddresses[product], Invoke(p, a, b)
        PROVE  PayloadInv'
    BY <1>0, <2>1, InvokeKeepsPayload
  <2>2. CASE AdjustFastMemory
    BY <1>0, <2>2, AdjustKeepsPayload DEF DriverInv
  <2>3. CASE ParseConfig \/ ParseNop \/ ParseStream
    <3>1. CASE pc' = "parse" /\ ~ParseStream
      BY <1>0, <2>3, <3>1, ParseKeepsPayload DEF DriverInv
    <3>2. CASE ParseStream /\ pc' = "power"
      BY <3>2, StreamFound DEF DriverInv
    <3>3. CASE pc' = "err"
      <4>1. pc = "parse" /\ pos < Len(op.words) /\ Here.action # "NOP" /\ state' = state
        BY <2>3, <3>3 DEF ParseConfig, ParseNop, ParseStream, jobVars
      <4>2. state = "IDLE"
        BY <4>1, NotBegunYet DEF DriverInv, PayloadInv
      <4> QED BY <1>0, <3>3, <4>1, <4>2, FailKeepsPayload
    <3>4. \/ pc' = "parse" /\ ~ParseStream
          \/ ParseStream /\ pc' = "power"
          \/ pc' = "err"
      BY <2>3 DEF ParseConfig, ParseNop, ParseStream, Goto
    <3> QED BY <3>1, <3>2, <3>3, <3>4
  <2>4. CASE \/ InitReturn \/ ParseEnd \/ Powered \/ Started \/ Err \/ Wait \/ WaitDone \/ WaitTimeout
             \/ Invalidate \/ Clear \/ RequestReturn \/ Return
    BY <1>1, <2>4
        DEF InitReturn, ParseEnd, Powered, Started, Err, Wait, WaitDone, WaitTimeout,
            Invalidate, Clear, RequestReturn, Return, Goto, Begun, jobVars
  <2> QED BY <1>2, <2>1, <2>2, <2>3, <2>4 DEF LocalStep
<1>3. CASE CallStep
  BY <1>1, <1>3
      DEF CallStep, InitCall, PowerForRun, Start, PowerAfterRun, Verdict, RequestPower, ReleasePower,
          SoftReset, Goto, Begun, jobVars
<1>4. CASE LayerStep \/ Hardware \/ UNCHANGED allVars
  BY <1>1, <1>4 DEF LayerStep, Hardware, allVars, driverVars, Begun, jobVars
<1>5. CASE IrqHandler
  <2>1. UNCHANGED <<pc, payload, request>> /\ Begun
    BY <1>5 DEF IrqHandler, DriverInv, NpuFits, Begun
  <2> QED BY <1>1, <2>1
<1>6. CASE InvokeNext
  BY <1>2, <1>3, <1>4, <1>5, <1>6
      DEF InvokeNext, ApplicationStep, DriverStep, LocalStep, CallStep
<1> QED BY <1>4, <1>6

-----------------------------------------------------------------------------
(* The registers.                                                          *)

\* What a start and a reset write is the same as long as product and request are.
LEMMA SetsFixed ==
    ASSUME UNCHANGED <<product, request>>
    PROVE  /\ RunSet(request)' = RunSet(request) /\ AxiSet' = AxiSet
           /\ AddressesFit(request)' = AddressesFit(request)
<1>1. AxiSet' = AxiSet
  BY DEF AxiSet, AxiRegs
<1>2. AddressesFit(request)' = AddressesFit(request)
  BY DEF AddressesFit, QBase, Base
<1>3. RegionCfg(request)' = RegionCfg(request)
  BY DEF RegionCfg, Composed, Base
<1>4. QBase(request)' = QBase(request) /\ BasesOf(request)' = BasesOf(request)
  BY DEF QBase, BasesOf, Base
<1>5. RunRegs(request)' = RunRegs(request)
  BY <1>4 DEF RunRegs, WordsOf
<1>6. \A r : RunValue(request, r)' = RunValue(request, r)
  BY <1>3, <1>4 DEF RunValue, WordOf
<1>7. RunSet(request)' = RunSet(request)
  BY <1>5, <1>6 DEF RunSet
<1> QED BY <1>1, <1>2, <1>7

\* Steps above the layer that keep a running job's request do not disturb the
\* registers.
LEMMA RegistersStay ==
    ASSUME DriverInv', RegisterInv, UNCHANGED <<deviceVars, sound>>,
           state' # "IDLE" => state # "IDLE" /\ UNCHANGED request,
           dev = "none" \/ UNCHANGED request
    PROVE  RegisterInv'
<1>1. UNCHANGED <<product, npu, prot, cmd, regs, dev, task, todo, word>>
  BY DEF deviceVars, npuVars, callVars
<1>2. Starting' = Starting /\ Resetting' = Resetting /\ (dev = "none" => ~Starting /\ ~Resetting)
  BY <1>1 DEF Starting, Resetting
<1>3. Starting' \/ state' # "IDLE" => UNCHANGED request
  BY <1>2
<1>4. UNCHANGED request =>
        RunSet(request)' = RunSet(request) /\ AddressesFit(request)' = AddressesFit(request)
  BY <1>1, SetsFixed
<1>5. AxiSet' = AxiSet
  BY <1>1 DEF AxiSet, AxiRegs
<1>6. WritesFit'
  BY <1>1, <1>2, <1>3, <1>4, <1>5 DEF RegisterInv, WritesFit, Elements
<1>7. npu' = "running" => UNCHANGED request
  <2>1. npu' = "running" => state' = "RUNNING"
    BY DEF DriverInv, NpuFits
  <2> QED BY <1>3, <2>1
<1>8. SettingsFit'
  BY <1>1, <1>2, <1>3, <1>4, <1>5, <1>7 DEF RegisterInv, SettingsFit, Written, Drains, Elements
<1> QED BY <1>6, <1>8 DEF RegisterInv

\* Calls other than the start have no writes to make yet.
LEMMA CallsKeepRegisters ==
    ASSUME DevInv, DriverInv', RegisterInv, CallStep, ~Start
    PROVE  RegisterInv'
<1>1. /\ dev = "none" /\ UNCHANGED <<request, state, sound>>
      /\ \/ UNCHANGED deviceVars
         \/ /\ todo' = << >> /\ UNCHANGED <<product, npu, prot, cmd, regs, word>>
            /\ \/ task' \in {"init", "reset"} /\ dev' = "reset"
               \/ task' = "gating"
  BY DEF CallStep, InitCall, PowerForRun, PowerAfterRun, Verdict, RequestPower, ReleasePower, SoftReset,
         Idle, CallInit, CallSoftReset, CallGating, Begin, npuVars, jobVars
<1>2. CASE UNCHANGED deviceVars
  BY <1>1, <1>2, RegistersStay
<1>3. CASE ~UNCHANGED deviceVars
  <2>1. ~Starting' /\ ~Resetting' /\ ~Starting
    BY <1>1, <1>3 DEF Starting, Resetting
  <2>2. RunSet(request)' = RunSet(request) /\ AxiSet' = AxiSet
        /\ AddressesFit(request)' = AddressesFit(request)
    BY <1>1, <1>3, SetsFixed
  <2>3. todo' = << >> /\ UNCHANGED <<product, npu, prot, cmd, regs, word>>
    BY <1>1, <1>3
  <2>4. WritesFit'
    <3>1. << >> \in Seq(Registers \X Nat)
      OBVIOUS
    <3> QED BY <1>1, <2>1, <2>2, <2>3, <3>1 DEF RegisterInv, WritesFit
  <2>5. SettingsFit'
    BY <1>1, <2>1, <2>2, <2>3 DEF RegisterInv, SettingsFit, Written
  <2> QED BY <2>4, <2>5 DEF RegisterInv
<1> QED BY <1>2, <1>3

\* The start has all of its writes to make.
LEMMA StartKeepsRegisters ==
    ASSUME DevInv, DriverInv, PayloadInv, RegisterInv, Start
    PROVE  RegisterInv'
<1>1. /\ pc = "start" /\ AddressesFit(request) /\ dev' = "write" /\ task' = "run"
      /\ todo' = RunWrites(request) /\ UNCHANGED <<product, npu, prot, cmd, regs, word, request, sound>>
      /\ dev = "none"
  BY DEF Start, Idle, CallRun, Begin, npuVars
<1>2. request \in Jobs /\ product \in Products
  BY <1>1 DEF PayloadInv, RequestFits, ParserFits, Begun
<1>3. Elements(todo') = RunSet(request) /\ todo' \in Seq(RunSet(request))
  BY <1>1, <1>2, RunElements
<1>4. todo' \in Seq(Registers \X Nat)
  <2>1. RunSet(request) \subseteq Registers \X Nat
    BY <1>1, <1>2, RunSetFacts
  <2> QED BY <1>3, <2>1, SeqMonotonic
<1>5. Starting' /\ ~Resetting'
  BY <1>1 DEF Starting, Resetting
<1>6. RunSet(request)' = RunSet(request) /\ AxiSet' = AxiSet
      /\ AddressesFit(request)' = AddressesFit(request)
  BY <1>1, SetsFixed
<1>7. npu # "running"
  BY <1>1 DEF DriverInv, StateFits, NpuFits
<1>8. WritesFit'
  BY <1>1, <1>3, <1>4, <1>5, <1>6 DEF RegisterInv, WritesFit, Elements
<1>9. SettingsFit'
  BY <1>1, <1>3, <1>5, <1>6, <1>7 DEF RegisterInv, SettingsFit, Written, Drains, Elements
<1> QED BY <1>8, <1>9 DEF RegisterInv

\* Before its writes, a reset has lost all settings, and brings none of them back.
LEMMA ResetKeepsRegisters ==
    ASSUME DevInv, PayloadInv, RegisterInv, LayerStep,
           WriteReset \/ PollDone \/ PollTimeout \/ Verify
    PROVE  RegisterInv'
<1> USE DEF RegisterInv
<1>1. /\ dev \in {"reset", "poll", "verify"} /\ task' = task /\ task \in {"init", "reset"}
      /\ UNCHANGED <<product, request, state, word>>
  BY DEF WriteReset, PollDone, PollTimeout, Verify, DevInv, PlacesInv, LayerStep, driverVars, jobVars
<1>2. ~Starting /\ ~Starting' /\ todo = << >>
  BY <1>1 DEF Starting, WritesFit
<1>3. RunSet(request)' = RunSet(request) /\ AxiSet' = AxiSet
      /\ AddressesFit(request)' = AddressesFit(request)
  BY <1>1, SetsFixed
<1>4. /\ sound' = FALSE
      /\ \/ dev' \in {"poll", "verify"} /\ todo' = << >>
         \/ dev' = "none" /\ todo' = << >>
         \/ dev = "verify" /\ dev' = "write" /\ prot' /\ todo' = AxiInit /\ UNCHANGED regs
  <2>1. CASE WriteReset
    BY <1>2, <2>1 DEF WriteReset, LayerStep
  <2>2. ASSUME dev # "reset" PROVE Resetting /\ sound = FALSE
    BY <1>1, <2>2 DEF Resetting, SettingsFit
  <2>3. CASE PollDone
    BY <1>2, <2>2, <2>3 DEF PollDone, LayerStep
  <2>4. CASE PollTimeout
    BY <1>2, <2>2, <2>4 DEF PollTimeout, LayerStep, Finish
  <2>5. CASE Verify
    BY <1>2, <2>2, <2>5 DEF Verify, LayerStep, Finish, npuVars
  <2> QED BY <2>1, <2>3, <2>4, <2>5
<1>5. cmd' \subseteq CmdBits /\ (UNCHANGED regs \/ regs' = ResetRegs)
  <2>1. cmd \subseteq CmdBits
    BY DEF WritesFit
  <2> QED BY <2>1
        DEF WriteReset, PollDone, PollTimeout, Verify, npuVars, CmdBits
<1>6. regs' \in [Registers -> Nat]
      /\ (product = "U55" => \A r \in Registers :
             r[1] \in {"QBASE", "BASEP"} /\ r[2] % 2 = 1 => regs'[r] = 0)
  <2>1. CASE UNCHANGED regs
    BY <2>1 DEF WritesFit
  <2>2. CASE regs' = ResetRegs
    BY <2>2 DEF ResetRegs
  <2> QED BY <1>5, <2>1, <2>2
<1>7. /\ Elements(AxiInit) = AxiSet /\ AxiInit \in Seq(Registers \X Nat)
  <2>1. product \in Products
    BY DEF PayloadInv, ParserFits
  <2>2. Elements(AxiInit) = AxiSet /\ AxiInit \in Seq(AxiSet) /\ AxiSet \subseteq Registers \X Nat
    BY <2>1, AxiElements
  <2> QED BY <2>2, SeqMonotonic
<1>8. << >> \in Seq(Registers \X Nat) /\ Elements(<< >>) = {}
  BY DEF Elements
<1>9. todo' \in Seq(Registers \X Nat) /\ Elements(todo') \subseteq AxiSet
      /\ (dev' # "write" => todo' = << >>)
  BY <1>4, <1>7, <1>8
<1>10. WritesFit'
  BY <1>1, <1>2, <1>3, <1>5, <1>6, <1>9 DEF WritesFit, Elements
<1>11. Resetting' /\ dev' \in {"write", "cmdwrite"} => prot' /\ Drains(AxiSet)'
  <2>1. ASSUME dev' = "write" PROVE Drains(AxiSet)'
    <3>1. todo' = AxiInit
      BY <1>4, <2>1
    <3> QED BY <1>3, <1>7, <3>1 DEF Drains, Elements
  <2> QED BY <1>4, <2>1
<1>12. SettingsFit'
  BY <1>4, <1>11 DEF SettingsFit
<1> QED BY <1>10, <1>12

\* The writes of a start disturb no setting, those of a reset no address.
LEMMA WriteKeepsRegisters ==
    ASSUME DevInv, DriverInv, PayloadInv, RegisterInv, LayerStep, Write
    PROVE  RegisterInv'
<1> USE DEF RegisterInv
<1> DEFINE h == Head(todo)
<1>1. /\ dev = "write" /\ dev' = "write" /\ task' = task /\ todo # << >> /\ todo' = Tail(todo)
      /\ UNCHANGED <<product, request, state, word, npu, prot, cmd>>
      /\ regs' = IF npu = "resetting" THEN regs ELSE [regs EXCEPT ![h[1]] = h[2]]
      /\ sound' = sound
  <2>1. sound \in BOOLEAN
    BY DEF SettingsFit
  <2> QED BY <2>1 DEF Write, LayerStep, driverVars, jobVars
<1>2. Starting' = Starting /\ Resetting' = Resetting /\ (Starting \/ Resetting)
  <2>1. task # "gating" /\ task \in {"init", "reset", "run", "gating"}
    BY <1>1 DEF DevInv, PlacesInv
  <2> QED BY <1>1, <2>1 DEF Starting, Resetting
<1>3. RunSet(request)' = RunSet(request) /\ AxiSet' = AxiSet
      /\ AddressesFit(request)' = AddressesFit(request)
  BY <1>1, SetsFixed
<1>4. product \in Products /\ (Starting => request \in Jobs /\ AddressesFit(request))
  <2>1. Starting => state = "RUNNING"
    BY DEF DriverInv, StateFits
  <2> QED BY <2>1 DEF PayloadInv, ParserFits, RequestFits, Begun, WritesFit
<1>5. todo \in Seq(Registers \X Nat) /\ regs \in [Registers -> Nat]
  BY DEF WritesFit
<1>6. /\ h \in Registers \X Nat /\ Tail(todo) \in Seq(Registers \X Nat)
      /\ Elements(todo) = {h} \cup Elements(Tail(todo))
  BY <1>1, <1>5, ElementsHeadTail, HeadTailProperties
<1>7. Starting => h \in RunSet(request)
  BY <1>6 DEF WritesFit
<1>8. Resetting => h \in AxiSet
  BY <1>6 DEF WritesFit
<1>9. product = "U55" /\ h[1][1] \in {"QBASE", "BASEP"} => h[1][2] % 2 = 0
  <2>1. CASE Starting
    BY <1>4, <1>7, <2>1, RunSetFacts
  <2>2. CASE Resetting
    BY <1>4, <1>8, <2>2, AxiElements
  <2> QED BY <1>2, <2>1, <2>2
<1>10. WritesFit'
  <2>1. regs' \in [Registers -> Nat]
    BY <1>1, <1>5, <1>6
  <2>2. Starting' => Elements(todo)' \subseteq RunSet(request)'
    BY <1>1, <1>2, <1>3, <1>6 DEF WritesFit, Elements
  <2>3. Resetting' => Elements(todo)' \subseteq AxiSet'
    BY <1>1, <1>2, <1>3, <1>6 DEF WritesFit, Elements
  <2>4. product' = "U55" => \A r \in Registers :
            r[1] \in {"QBASE", "BASEP"} /\ r[2] % 2 = 1 => regs'[r] = 0
    <3> SUFFICES ASSUME product = "U55", NEW r \in Registers,
                        r[1] \in {"QBASE", "BASEP"}, r[2] % 2 = 1
                 PROVE  regs'[r] = 0
      BY <1>1
    <3>1. regs[r] = 0
      BY DEF WritesFit
    <3>2. r # h[1]
      BY <1>9
    <3> QED BY <1>1, <1>5, <3>1, <3>2
  <2>5. /\ cmd' \subseteq CmdBits /\ word' \subseteq CmdBits /\ todo' \in Seq(Registers \X Nat)
        /\ state' # "IDLE" => AddressesFit(request)'
    BY <1>1, <1>3, <1>6 DEF WritesFit
  <2> QED BY <1>1, <2>1, <2>2, <2>3, <2>4, <2>5 DEF WritesFit
<1>11. CASE Resetting
  <2>1. npu # "resetting"
    BY <1>1, <1>11 DEF DevInv, ResetInv
  <2>2. PICK W : W = AxiSet
    OBVIOUS
  <2>3. W \subseteq Registers \X Nat /\ \A v, w \in W : v[1] = w[1] => v = w
    BY <1>4, <2>2, AxiElements
  <2>4. Elements(todo) \subseteq W /\ Drains(W)
    BY <1>1, <1>11, <2>2 DEF WritesFit, SettingsFit
  <2>5. Drains(W)'
    BY <1>5, <2>1, <2>3, <2>4, DrainStep
  <2>6. Drains(AxiSet)'
    BY <1>3, <2>2, <2>5 DEF Drains
  <2> QED BY <1>1, <1>2, <1>10, <1>11, <2>6 DEF SettingsFit
<1>12. CASE Starting /\ ~Resetting
  <2> SUFFICES ASSUME sound PROVE SettingsFit'
    BY <1>1, <1>2, <1>10, <1>12 DEF SettingsFit
  <2>1. npu # "resetting" /\ prot /\ Written(AxiSet) /\ Drains(RunSet(request))
    BY <1>12 DEF SettingsFit
  <2>2. npu # "running"
    BY <1>12 DEF DevInv, StartInv
  <2>3. Written(AxiSet)'
    <3>1. \A w \in AxiSet : w[1] \in Registers /\ w[1] \in AxiRegs
      BY <1>4, AxiElements
    <3>2. h[1] \notin AxiRegs
      BY <1>4, <1>7, <1>12, RunSetFacts
    <3>3. \A w \in AxiSet : regs'[w[1]] = regs[w[1]]
      BY <1>1, <1>5, <3>1, <3>2
    <3> QED BY <1>3, <2>1, <3>3 DEF Written
  <2>4. PICK W : W = RunSet(request)
    OBVIOUS
  <2>5. W \subseteq Registers \X Nat /\ \A v, w \in W : v[1] = w[1] => v = w
    <3>1. \A w \in W : w \in Registers \X Nat /\ w = <<w[1], RunValue(request, w[1])>>
      BY <1>4, <1>12, <2>4, RunSetFacts
    <3> QED BY <3>1
  <2>6. Elements(todo) \subseteq W /\ Drains(W)
    BY <1>12, <2>1, <2>4 DEF WritesFit
  <2>7. Drains(W)'
    BY <1>5, <2>1, <2>5, <2>6, DrainStep
  <2>8. Drains(RunSet(request))'
    BY <1>3, <2>4, <2>7 DEF Drains
  <2> QED BY <1>1, <1>2, <1>12, <2>1, <2>2, <2>3, <2>8 DEF SettingsFit
<1> QED BY <1>2, <1>11, <1>12

\* Reading CMD makes no write; writing it, or leaving it alone, ends a call that
\* has made them all.
LEMMA EndKeepsRegisters ==
    ASSUME DevInv, RegisterInv, LayerStep, InitDone \/ CmdRead \/ CmdWrite
    PROVE  RegisterInv'
<1> USE DEF RegisterInv
<1>1. /\ todo = << >> /\ todo' = << >> /\ task' = task /\ dev \in {"write", "cmdwrite"}
      /\ UNCHANGED <<product, request, state, regs, prot>>
  BY DEF InitDone, CmdRead, CmdWrite, LayerStep, driverVars, jobVars, Finish, npuVars, WritesFit
<1>2. RunSet(request)' = RunSet(request) /\ AxiSet' = AxiSet
      /\ AddressesFit(request)' = AddressesFit(request)
  BY <1>1, SetsFixed
<1>3. << >> \in Seq(Registers \X Nat) /\ Elements(<< >>) = {}
  BY DEF Elements
<1>4. cmd' \subseteq CmdBits /\ word' \subseteq CmdBits
  <2>1. cmd \subseteq CmdBits /\ word \subseteq CmdBits
    BY DEF WritesFit
  <2>2. CASE InitDone
    BY <2>1, <2>2 DEF InitDone, npuVars
  <2>3. CASE CmdRead
    BY <2>1, <2>3 DEF CmdRead, CmdBits, PwrClkMask, npuVars
  <2>4. CASE CmdWrite
    BY <2>1, <2>4 DEF CmdWrite, WriteCmd
  <2> QED BY <2>2, <2>3, <2>4
<1>5. WritesFit'
  BY <1>1, <1>2, <1>3, <1>4 DEF WritesFit, Elements
<1>6. /\ Drains(AxiSet) => Written(AxiSet)
      /\ Drains(RunSet(request)) => Written(RunSet(request))
      /\ Written(AxiSet)' = Written(AxiSet) /\ Written(RunSet(request))' = Written(RunSet(request))
      /\ Drains(AxiSet)' = Drains(AxiSet) /\ Drains(RunSet(request))' = Drains(RunSet(request))
  BY <1>1, <1>2, <1>3 DEF Drains, Written, Elements
<1>7. dev = "cmdwrite" => task # "init"
  BY DEF DevInv, PlacesInv
<1>8. CASE Resetting
  <2>1. prot /\ Written(AxiSet) /\ sound = FALSE /\ npu = "stopped"
    BY <1>1, <1>6, <1>8 DEF SettingsFit, DevInv, ResetInv
  <2>2. CASE CmdRead
    <3>1. sound' = FALSE /\ dev' = "cmdwrite"
      BY <2>1, <2>2 DEF CmdRead, LayerStep
    <3> QED BY <1>1, <1>5, <1>6, <1>8, <2>1, <3>1 DEF SettingsFit, Drains, Written
  <2>3. CASE InitDone \/ CmdWrite
    <3>1. dev' = "none"
      BY <2>3 DEF InitDone, CmdWrite, Finish
    <3>2. npu' = "stopped"
      <4>1. dev = "cmdwrite" => "transition_to_running_state" \notin word
        BY <1>7, <1>8 DEF DevInv, CmdInv, Resetting, PwrClkMask
      <4>2. CASE CmdWrite
        BY <2>1, <4>1, <4>2 DEF CmdWrite, WriteCmd
      <4>3. CASE InitDone
        BY <2>1, <4>3 DEF InitDone, npuVars
      <4> QED BY <2>3, <4>2, <4>3
    <3>3. ~Resetting' /\ ~Starting'
      BY <3>1 DEF Resetting, Starting
    <3>4. sound' \in BOOLEAN
      BY <2>1 DEF LayerStep
    <3> QED BY <1>1, <1>5, <1>6, <2>1, <3>1, <3>2, <3>3, <3>4 DEF SettingsFit
  <2> QED BY <2>2, <2>3
<1>9. CASE ~Resetting
  <2>1. sound' = sound /\ sound \in BOOLEAN
    BY <1>1, <1>9 DEF LayerStep, SettingsFit
  <2>2. CASE CmdRead
    <3>1. dev = "write" /\ dev' = "cmdwrite" /\ npu' = npu /\ Starting' = Starting /\ ~Resetting'
      BY <1>1, <1>9, <2>2 DEF CmdRead, npuVars, Starting, Resetting
    <3> QED BY <1>1, <1>5, <1>6, <1>9, <2>1, <3>1 DEF SettingsFit
  <2>3. CASE InitDone
    BY <1>9, <2>3 DEF InitDone, Resetting
  <2>4. CASE CmdWrite
    <3>1. dev = "cmdwrite" /\ dev' = "none" /\ ~Resetting' /\ ~Starting'
      BY <2>4 DEF CmdWrite, Finish, Resetting, Starting
    <3>2. task \in {"run", "gating"}
      BY <1>7, <1>9, <3>1 DEF DevInv, PlacesInv, Resetting
    <3>3. npu' = npu \/ (npu' = "running" /\ Starting)
      <4>1. CASE task = "run"
        BY <2>4, <3>1, <4>1 DEF CmdWrite, WriteCmd, Starting
      <4>2. CASE task = "gating"
        <5>1. "transition_to_running_state" \notin word
          BY <3>1, <4>2 DEF DevInv, CmdInv, PwrClkMask
        <5> QED BY <2>4, <5>1 DEF CmdWrite, WriteCmd
      <4> QED BY <3>2, <4>1, <4>2
    <3> QED BY <1>1, <1>5, <1>6, <1>9, <2>1, <3>1, <3>3 DEF SettingsFit
  <2> QED BY <2>2, <2>3, <2>4
<1> QED BY <1>8, <1>9

\* The handler and the NPU change no register that a start or a reset writes.
LEMMA OthersKeepRegisters ==
    ASSUME DevInv, DriverInv, RegisterInv, IrqHandler \/ Hardware
    PROVE  RegisterInv'
<1> USE DEF RegisterInv
<1>1. UNCHANGED <<product, request, regs, dev, task, todo, word, sound>>
  <2>1. CASE Hardware
    BY <2>1 DEF Hardware, NpuStep, Stop, ResetEnds, callVars
  <2>2. CASE IrqHandler
    BY <2>2 DEF IrqHandler, ClearInterrupt, callVars
  <2> QED BY <2>1, <2>2
<1>2. state' # "IDLE" => state # "IDLE"
  BY DEF IrqHandler, Hardware, jobVars, DriverInv, NpuFits
<1>3. cmd' \subseteq CmdBits
  <2>1. cmd \subseteq CmdBits
    BY DEF WritesFit
  <2>2. CASE IrqHandler
    BY <2>1, <2>2 DEF IrqHandler, ClearInterrupt, WriteCmd, ReadCmd, CmdBits, PwrClkMask
  <2>3. CASE Hardware
    BY <2>1, <2>3 DEF Hardware, NpuStep, Stop, ResetEnds
  <2> QED BY <2>2, <2>3
<1>4. /\ RunSet(request)' = RunSet(request) /\ AxiSet' = AxiSet
      /\ AddressesFit(request)' = AddressesFit(request)
  BY <1>1, SetsFixed
<1>5. Starting' = Starting /\ Resetting' = Resetting
  BY <1>1 DEF Starting, Resetting
<1>6. WritesFit'
  BY <1>1, <1>2, <1>3, <1>4, <1>5 DEF WritesFit, Elements
<1>7. \/ npu' \in {npu, "stopped"} /\ prot' = prot
      \/ npu = "resetting"
  <2>1. CASE IrqHandler
    <3>1. npu # "resetting"
      BY <2>1 DEF IrqHandler, DevInv, ResetInv
    <3> QED BY <2>1, <3>1 DEF IrqHandler, ClearInterrupt, WriteCmd, ReadCmd, PwrClkMask
  <2>2. CASE Hardware
    BY <2>2 DEF Hardware, NpuStep, Stop, ResetEnds
  <2> QED BY <2>1, <2>2
<1>8. npu = "resetting" => ~sound /\ ~(Resetting /\ dev \in {"write", "cmdwrite"})
  BY DEF SettingsFit, DevInv, ResetInv
<1>9. SettingsFit'
  BY <1>1, <1>4, <1>5, <1>7, <1>8 DEF SettingsFit, Written, Drains, Elements, DevInv, PlacesInv
<1> QED BY <1>6, <1>9

\* Every step keeps what is known of the registers.
LEMMA RegisterInvStep ==
    ASSUME DevInv, DriverInv, PayloadInv, RegisterInv, DriverInv', [InvokeNext]_allVars
    PROVE  RegisterInv'
<1>1. CASE LocalStep
  <2>1. UNCHANGED <<deviceVars, sound>> /\ dev = "none"
    BY <1>1 DEF LocalStep, InitReturn, Invoke, AdjustFastMemory, ParseEnd, ParseConfig, ParseNop,
        ParseStream, Powered, Started, Err, Wait, WaitDone, WaitTimeout, Invalidate, Clear,
        RequestReturn, Return, Local, Idle
  <2>2. state' # "IDLE" => state # "IDLE" /\ UNCHANGED request
    <3>1. CASE ParseStream
      <4>1. state = "IDLE"
        BY <3>1, NotBegunYet DEF ParseStream, DriverInv, PayloadInv
      <4> QED BY <3>1, <4>1 DEF ParseStream, jobVars
    <3>2. CASE LocalStep /\ ~ParseStream
      BY <3>2 DEF LocalStep, InitReturn, Invoke, AdjustFastMemory, ParseEnd, ParseConfig, ParseNop,
          Powered, Started, Err, Wait, WaitDone, WaitTimeout, Invalidate, Clear,
          RequestReturn, Return, jobVars
    <3> QED BY <1>1, <3>1, <3>2
  <2> QED BY <2>1, <2>2, RegistersStay
<1>2. CASE CallStep
  BY <1>2, CallsKeepRegisters, StartKeepsRegisters
<1>3. CASE LayerStep
  BY <1>3, ResetKeepsRegisters, WriteKeepsRegisters, EndKeepsRegisters DEF LayerStep, DeviceStep
<1>4. CASE IrqHandler \/ Hardware
  BY <1>4, OthersKeepRegisters
<1>5. CASE UNCHANGED allVars
  BY <1>5, RegistersStay DEF allVars, driverVars, jobVars
<1>6. CASE InvokeNext
  BY <1>1, <1>2, <1>3, <1>4, <1>6
      DEF InvokeNext, ApplicationStep, DriverStep, LocalStep, CallStep
<1> QED BY <1>5, <1>6

-----------------------------------------------------------------------------
(* What follows.                                                           *)

\* Every step keeps what is known of thread, job and power.
LEMMA DriverInvStep ==
    ASSUME DevInv, DriverInv, PayloadInv, [InvokeNext]_allVars
    PROVE  DriverInv'
<1>1. CASE LocalStep
  BY <1>1, LocalKeepsDriver DEF PayloadInv
<1>2. CASE CallStep
  BY <1>2, CallKeepsDriver
<1>3. CASE LayerStep \/ IrqHandler \/ Hardware
  BY <1>3, OthersKeepDriver
<1>4. CASE UNCHANGED allVars
  BY <1>4 DEF allVars, driverVars, jobVars, memory, deviceVars, npuVars, callVars, DriverInv,
      CallsFit, StateFits, NpuFits, PowerFits, CacheFits, Starting, Powers, Begun
<1>5. CASE InvokeNext
  BY <1>1, <1>2, <1>3, <1>5
      DEF InvokeNext, ApplicationStep, DriverStep, LocalStep, CallStep
<1> QED BY <1>4, <1>5

\* Every step keeps the invariant.
LEMMA InvokeInvStep == InvokeInv /\ [InvokeNext]_allVars => InvokeInv'
<1> SUFFICES ASSUME InvokeInv, [InvokeNext]_allVars PROVE InvokeInv'
  OBVIOUS
<1>1. DevInv /\ DriverInv /\ PayloadInv /\ RegisterInv
  BY DEF InvokeInv
<1>2. DevInv'
  BY <1>1, DrivesDevice, DevInvStep DEF PayloadInv
<1>3. DriverInv'
  BY <1>1, DriverInvStep
<1>4. PayloadInv'
  BY <1>1, PayloadInvStep
<1>5. RegisterInv'
  BY <1>1, <1>3, RegisterInvStep
<1> QED BY <1>2, <1>3, <1>4, <1>5 DEF InvokeInv

\* The invariant holds throughout.
THEOREM InvokeInvariant == InvokeSpec => []InvokeInv
BY InvokeInvInit, InvokeInvStep, PTL DEF InvokeSpec

\* Thread, job, power, NPU and registers stay in their ranges.
THEOREM InvokeTypeOK == InvokeSpec => []TypeOK
<1>1. InvokeInv => TypeOK
  <2> SUFFICES ASSUME InvokeInv PROVE TypeOK
    OBVIOUS
  <2>1. power \in 0..MaxPower /\ held \in 0..power
    BY InvokeAssumption DEF InvokeAssumption, InvokeInv, DriverInv, PowerFits
  <2> QED BY <2>1 DEF TypeOK, InvokeInv, DriverInv, RegisterInv, StateFits, CallsFit, WritesFit,
          DevInv, PlacesInv
<1> QED BY <1>1, InvokeInvariant, PTL

\* The parser stands on driver actions of the compiler and on nothing else, for
\* every payload there is and every length of its command stream.
THEOREM ParserStaysInStep == InvokeSpec => []ParserInStep
<1>1. InvokeInv => ParserInStep
  <2> SUFFICES ASSUME InvokeInv, pc = "parse" PROVE \E n \in DOMAIN op.starts : pos = op.starts[n]
    BY DEF ParserInStep
  <2>1. PICK n \in 1..Len(op.actions) + 1 : AtAction(n)
    BY DEF InvokeInv, PayloadInv, ParserFits
  <2>2. op \in Payloads
    BY DEF InvokeInv, PayloadInv, ParserFits, Called
  <2>3. n \in DOMAIN op.starts
    BY <2>2, InvokeAssumption DEF InvokeAssumption, IsPayload
  <2> QED BY <2>1, <2>3 DEF AtAction
<1> QED BY <1>1, InvokeInvariant, PTL

\* The running NPU has the access state and the settings of the driver.
THEOREM InvokeRunsConfigured == InvokeSpec => []RunsConfigured
<1>1. InvokeInv => RunsConfigured
  <2> SUFFICES ASSUME InvokeInv, npu = "running", sound
               PROVE  prot /\ \A i \in DOMAIN AxiInit : regs[AxiInit[i][1]] = AxiInit[i][2]
    BY DEF RunsConfigured
  <2>1. prot /\ Written(AxiSet)
    BY DEF InvokeInv, RegisterInv, SettingsFit
  <2>2. \A i \in DOMAIN AxiInit : AxiInit[i] \in AxiSet
    BY AxiElements DEF InvokeInv, PayloadInv, ParserFits
  <2> QED BY <2>1, <2>2 DEF Written
<1> QED BY <1>1, InvokeInvariant, PTL

\* The running NPU is one the payload was compiled for.
THEOREM InvokeRunsCompatible == InvokeSpec => []RunsCompatible
<1>1. InvokeInv => RunsCompatible
  <2> SUFFICES ASSUME InvokeInv, npu = "running",
                      NEW i \in DOMAIN op.actions, op.actions[i].kind = "OPTIMIZER_CONFIG"
               PROVE  LET need == op.actions[i].config
                      IN  /\ \A f \in {"product", "macs_per_cc", "cmd_stream_version", "arch_major"} :
                                 need[f] = Hw[f]
                          /\ \A f \in {"custom_dma", "arch_minor"} : need[f] <= Hw[f]
                          /\ product = "U85" => need.axi = Hw.axi
    BY DEF RunsCompatible
  <2>1. state = "RUNNING"
    BY DEF InvokeInv, DriverInv, NpuFits
  <2>2. op \in Payloads /\ Compatible(op.actions[i])
    BY <2>1 DEF InvokeInv, PayloadInv, ParserFits, RequestFits, Begun, Called
  <2> DEFINE need == op.actions[i].config
  <2>3. VerifyConfig(product, need, need)
    BY <2>2 DEF Compatible
  <2>4. need \in Configs
    <3>1. op.actions \in Seq(Actions)
      BY <2>2, InvokeAssumption DEF InvokeAssumption, IsPayload
    <3>2. op.actions[i] \in Actions
      BY <3>1, LenProperties, ElementOfSeq
    <3> QED BY <3>2 DEF Actions
  <2>5. \A f \in ConfigFields : need[f] \in Nat /\ Hw[f] \in Nat
    BY <2>4, PayloadAssumption DEF PayloadAssumption, Configs
  <2> HIDE DEF need
  <2>6. /\ need.product = Hw.product /\ need.macs_per_cc = Hw.macs_per_cc
        /\ need.cmd_stream_version = Hw.cmd_stream_version
        /\ Hw.custom_dma >= need.custom_dma
        /\ product = "U85" => need.axi = Hw.axi
        /\ need.arch_major = Hw.arch_major
        /\ Hw.arch_minor >= need.arch_minor
    BY <2>3 DEF VerifyConfig
  <2>7. need.custom_dma <= Hw.custom_dma /\ need.arch_minor <= Hw.arch_minor
    BY <2>5, <2>6 DEF ConfigFields
  <2> QED BY <2>6, <2>7 DEF need
<1> QED BY <1>1, InvokeInvariant, PTL

\* The running NPU reads what has left the cache, and nothing it wrote is hidden
\* from the application that has collected it.
THEOREM InvokeMemoryCoherent == InvokeSpec => []MemoryCoherent
<1>1. InvokeInv => MemoryCoherent
  BY DEF InvokeInv, DriverInv, NpuFits, CacheFits, Begun, MemoryCoherent
<1> QED BY <1>1, InvokeInvariant, PTL

\* No step but the last of a start makes the NPU run.
THEOREM InvokeStartedByRun == InvokeSpec => StartedByRun
<1>1. InvokeInv /\ [InvokeNext]_allVars => [npu # "running" /\ npu' = "running" => task = "run"]_allVars
  <2> SUFFICES ASSUME InvokeInv, [InvokeNext]_allVars, npu # "running", npu' = "running"
               PROVE  task = "run"
    OBVIOUS
  <2>1. [DeviceNext]_deviceVars /\ DevInv
    BY DrivesDevice DEF InvokeInv, PayloadInv
  <2>2. CASE DeviceStep
    BY <2>1, <2>2, LayerEffect DEF Starting
  <2>3. CASE ClearInterrupt
    BY <2>3 DEF ClearInterrupt, WriteCmd, PwrClkMask
  <2>4. CASE AnyCall \/ NpuStep \/ UNCHANGED deviceVars
    BY <2>4 DEF AnyCall, CallInit, CallGating, CallSoftReset, CallRun, Begin, NpuStep, Stop, ResetEnds,
        deviceVars, npuVars
  <2> QED BY <2>1, <2>2, <2>3, <2>4 DEF DeviceNext
<1> QED BY <1>1, InvokeInvariant, PTL DEF InvokeSpec, StartedByRun

\* The layer under the driver implements NpuDevice: what EthosuJob assumes of it
\* holds for the calls that invocations, waits and power requests really make.
THEOREM InvokeImplementsDevice == InvokeSpec => ImplementsDevice
<1>1. InvokeInit => Npu!DevInit
  BY DEF InvokeInit, DeviceInit, Npu!DevInit, Resetting, Starting, PwrClkMask
<1>2. InvokeInv /\ [InvokeNext]_allVars => [Npu!DevNext]_(Npu!device)
  BY DrivesDevice, DeviceMaps DEF InvokeInv, PayloadInv
<1> QED BY <1>1, <1>2, InvokeInvariant, PTL DEF InvokeSpec, ImplementsDevice, Npu!DevSpec

\* The pair of registers an address was written to says that address again, the
\* upper word of it not being written, nor needed, on U55.
LEMMA AddressBack ==
    ASSUME NEW name, NEW as, NEW len \in Nat, NEW i \in 0..len - 1,
           as[i + 1] \in Nat, product \in {"U55", "U65", "U85"},
           \A k \in WordsOf(as) : regs[<<name, k>>] = WordOf(as, k),
           product = "U55" => as[i + 1] < WordMod /\ regs[<<name, (2 * i) + 1>>] = 0
    PROVE  len = Len(as) => Value(name, i) = as[i + 1]
<1>s. SUFFICES ASSUME len = Len(as) PROVE Value(name, i) = as[i + 1]
  OBVIOUS
<1>1. WordMod \in Nat \ {0}
  BY DeviceLayerAssumption DEF DeviceLayerAssumption
<1>2. /\ 2 * i \in 0..(2 * len - 1) /\ (2 * i) + 1 \in 0..(2 * len - 1)
      /\ (2 * i) % 2 = 0 /\ ((2 * i) + 1) % 2 = 1
      /\ (2 * i) \div 2 = i /\ ((2 * i) + 1) \div 2 = i
  OBVIOUS
<1> DEFINE a == as[i + 1]
<1>3. regs[<<name, 2 * i>>] = a % WordMod
  <2>1. 2 * i \in WordsOf(as)
    BY <1>s, <1>2 DEF WordsOf
  <2>2. WordOf(as, 2 * i) = a % WordMod
    BY <1>2 DEF WordOf
  <2> QED BY <2>1, <2>2
<1>4. regs[<<name, (2 * i) + 1>>] = a \div WordMod
  <2>1. CASE product = "U55"
    <3>1. \A n \in Nat, m \in Nat \ {0} : n < m => n \div m = 0
      OBVIOUS
    <3> QED BY <1>1, <2>1, <3>1
  <2>2. CASE product # "U55"
    <3>1. (2 * i) + 1 \in WordsOf(as)
      BY <1>s, <1>2, <2>2 DEF WordsOf
    <3>2. ASSUME NEW k \in Nat, k % 2 = 1, k \div 2 = i PROVE WordOf(as, k) = a \div WordMod
      <4>1. k % 2 # 0 /\ (k \div 2) + 1 = i + 1
        BY <3>2
      <4> QED BY <4>1 DEF WordOf
    <3>3. PICK k \in Nat : k = (2 * i) + 1
      OBVIOUS
    <3>4. WordOf(as, k) = a \div WordMod
      BY <1>2, <3>2, <3>3
    <3> QED BY <3>1, <3>3, <3>4
  <2> QED BY <2>1, <2>2
<1>5. Value(name, i) = (a % WordMod) + ((a \div WordMod) * WordMod)
  BY <1>3, <1>4 DEF Value
<1> QED BY <1>1, <1>5, Parts

\* Registers that hold what a start writes tell the NPU to execute the stream of
\* the payload on the memory of the application, for every payload, every array of
\* base addresses, every word width and whatever the application's hooks make of
\* addresses and regions.
LEMMA StartedRegisters ==
    ASSUME InvokeInv, state # "IDLE", Written(RunSet(request))
    PROVE  ExecutesThePayload
<1>1. state # "IDLE" /\ Written(RunSet(request))
  OBVIOUS
<1>2. /\ request \in Jobs /\ product \in Products /\ AddressesFit(request)
      /\ asked \in BaseAddresses[product]
  BY <1>1 DEF InvokeInv, PayloadInv, ParserFits, RequestFits, Begun, Called, RegisterInv, WritesFit
<1>3. PICK m \in DOMAIN op.actions :
          op.actions[m].kind = "COMMAND_STREAM" /\ request = JobOf(m)
  BY <1>1 DEF InvokeInv, PayloadInv, RequestFits, Begun
<1>4. /\ request.stream = at + 4 * (op.starts[m] + 1) /\ request.bytes = 4 * op.actions[m].len
      /\ request.bases = Adjusted(asked)
  BY <1>3 DEF JobOf, BYTES_IN_32_BITS
<1> DEFINE j == request
<1> HIDE DEF j
<1>5. \A r \in RunRegs(j) : regs[r] = RunValue(j, r)
  <2>1. ASSUME NEW r \in RunRegs(request) PROVE regs[r] = RunValue(request, r)
    <3>1. <<r, RunValue(request, r)>> \in RunSet(request)
      BY DEF RunSet
    <3> QED BY <1>1, <3>1 DEF Written
  <2> QED BY <2>1 DEF j
<1>6. product = "U55" => \A r \in Registers : r[1] \in {"QBASE", "BASEP"} /\ r[2] % 2 = 1 => regs[r] = 0
  BY DEF InvokeInv, RegisterInv, WritesFit
<1>7. PICK len \in 0..8 : len = Len(j.bases) /\ len = Len(BasesOf(j))
  BY <1>2, JobTypes DEF j
<1>8. /\ product \in {"U55", "U65", "U85"} /\ QBase(j) \in Nat
      /\ \A i \in 0..len - 1 : Base(j, i) \in Nat /\ BasesOf(j)[i + 1] = Base(j, i)
  BY <1>2, <1>7, JobTypes DEF j
<1>9. product = "U55" => QBase(j) < WordMod /\ \A i \in 0..len - 1 : Base(j, i) < WordMod
  BY <1>2, <1>7 DEF AddressesFit, j
<1>10. Value("QBASE", 0) = QBase(j)
  <2> DEFINE as == << QBase(j) >>
  <2>1. 1 = Len(as) /\ as[0 + 1] = QBase(j) /\ 0 \in 0..1 - 1 /\ 1 \in Nat
    OBVIOUS
  <2>2. ASSUME NEW k \in WordsOf(as) PROVE regs[<<"QBASE", k>>] = WordOf(as, k)
    <3>1. <<"QBASE", k>> \in RunRegs(j)
      BY DEF RunRegs
    <3>2. RunValue(j, <<"QBASE", k>>) = WordOf(as, k)
      BY DEF RunValue
    <3> QED BY <1>5, <3>1, <3>2
  <2>3. product = "U55" => regs[<<"QBASE", 2 * 0 + 1>>] = 0
    <3>1. <<"QBASE", 2 * 0 + 1>> \in Registers /\ (2 * 0 + 1) % 2 = 1
      BY DEF Registers
    <3> QED BY <1>6, <3>1
  <2>4. as[0 + 1] \in Nat /\ (product = "U55" => as[0 + 1] < WordMod)
    BY <1>8, <1>9, <2>1
  <2> HIDE DEF as
  <2>5. PICK one \in Nat : one = 1
    OBVIOUS
  <2>6. PICK i \in 0..one - 1 : i = 0
    BY <2>5
  <2>7. i \in 0..one - 1
    BY <2>6
  <2>8. as[i + 1] \in Nat /\ (product = "U55" => as[i + 1] < WordMod /\ regs[<<"QBASE", (2 * i) + 1>>] = 0)
    BY <2>3, <2>4, <2>6
  <2>9. one = Len(as) => Value("QBASE", i) = as[i + 1]
    BY <1>8, <2>2, <2>7, <2>8, AddressBack
  <2> QED BY <2>1, <2>5, <2>6, <2>9
<1>11. /\ regs[<<"QSIZE", 0>>] = j.bytes
       /\ regs[<<"QCONFIG", 0>>] = ConfigSelect(QBase(j), -1)
       /\ regs[<<"REGIONCFG", 0>>] = RegionCfg(j)
  <2>1. /\ <<"QSIZE", 0>> \in RunRegs(j) /\ <<"QCONFIG", 0>> \in RunRegs(j)
        /\ <<"REGIONCFG", 0>> \in RunRegs(j)
    BY DEF RunRegs
  <2>2. /\ RunValue(j, <<"QSIZE", 0>>) = j.bytes
        /\ RunValue(j, <<"QCONFIG", 0>>) = ConfigSelect(QBase(j), -1)
        /\ RunValue(j, <<"REGIONCFG", 0>>) = RegionCfg(j)
    BY DEF RunValue
  <2> QED BY <1>5, <2>1, <2>2
<1>12. ASSUME NEW i \in 0..len - 1
       PROVE  /\ Value("BASEP", i) = Base(j, i)
              /\ (RegionCfg(j) \div RegionWeight[i + 1]) % 4 = ConfigSelect(Base(j, i), i)
  <2> DEFINE as == BasesOf(j)
  <2>1. len \in Nat /\ as[i + 1] = Base(j, i) /\ as[i + 1] \in Nat
    BY <1>8, <1>12
  <2>5. len = Len(as)
    BY <1>7
  <2>2. ASSUME NEW k \in WordsOf(as) PROVE regs[<<"BASEP", k>>] = WordOf(as, k)
    <3>1. <<"BASEP", k>> \in RunRegs(j)
      BY DEF RunRegs
    <3>2. RunValue(j, <<"BASEP", k>>) = WordOf(as, k)
      BY DEF RunValue
    <3> QED BY <1>5, <3>1, <3>2
  <2>3. product = "U55" => regs[<<"BASEP", (2 * i) + 1>>] = 0
    <3>1. (2 * i) + 1 \in 0..15 /\ ((2 * i) + 1) % 2 = 1
      BY <1>12
    <3>2. <<"BASEP", (2 * i) + 1>> \in Registers
      BY <3>1 DEF Registers, NPU_REG_BASEP_ARRLEN
    <3> QED BY <1>6, <3>1, <3>2
  <2>4. (RegionCfg(j) \div RegionWeight[i + 1]) % 4 = ConfigSelect(Base(j, i), i)
    BY <1>2, <1>7, <1>12, RegionPorts DEF j
  <2>6. product = "U55" => as[i + 1] < WordMod
    BY <1>9, <1>12, <2>1
  <2> HIDE DEF as
  <2>7. len = Len(as) => Value("BASEP", i) = as[i + 1]
    BY <1>8, <1>12, <2>1, <2>2, <2>3, <2>6, AddressBack
  <2> QED BY <2>1, <2>4, <2>5, <2>7
<1>13. asked \in Seq(Addresses)
  BY <1>2, InvokeAssumption DEF InvokeAssumption
<1>14. /\ Len(asked) = len
       /\ \A i \in 0..len - 1 : j.bases[i + 1] = Expected(i)
  <2>1. Len(j.bases) = Len(asked) /\ j.bases = Adjusted(asked)
    BY <1>4, <1>13, AdjustedSeq DEF j
  <2> QED BY <1>7, <1>13, <2>1, AdjustedSeq DEF Expected
<1>15. ASSUME NEW i \in 0..Len(asked) - 1
       PROVE  /\ Value("BASEP", i) = AddressRemap(Expected(i), i)
              /\ (regs[<<"REGIONCFG", 0>>] \div RegionWeight[i + 1]) % 4
                      = ConfigSelect(Value("BASEP", i), i)
  BY <1>11, <1>12, <1>14, <1>15 DEF Base
<1>16. /\ Value("QBASE", 0) = AddressRemap(at + 4 * (op.starts[m] + 1), -1)
       /\ regs[<<"QSIZE", 0>>] = 4 * op.actions[m].len
       /\ regs[<<"QCONFIG", 0>>] = ConfigSelect(Value("QBASE", 0), -1)
  BY <1>4, <1>10, <1>11 DEF QBase, j
<1> QED BY <1>3, <1>15, <1>16 DEF ExecutesThePayload

\* A running NPU executes the payload of the last invocation.
THEOREM InvokeRunsThePayload == InvokeSpec => []RunsThePayload
<1>1. InvokeInv => RunsThePayload
  BY StartedRegisters
      DEF InvokeInv, DriverInv, NpuFits, RegisterInv, SettingsFit, RunsThePayload
<1> QED BY <1>1, InvokeInvariant, PTL

-----------------------------------------------------------------------------
(* What a wait hands back.                                                 *)

\* From its stop to the verdict the NPU shows how the stream it was started with
\* has ended; a reset can come between only when the answer is not going to be 0.
Ended == irq \/ (state = "DONE" /\ result = "OK")

CompletionFits ==
    /\ sound /\ Ended => Written(RunSet(request))
    /\ sound /\ state = "DONE" /\ result = "OK" => NpuSucceeded
    /\ dev # "none" /\ task \in {"init", "reset"} /\ state # "IDLE" => result # "OK"

\* Local steps of the driver touch neither the NPU nor, while there is a job, its
\* request; and they make no job done.
LEMMA LocalKeepsCompletion ==
    ASSUME InvokeInv, CompletionFits, LocalStep
    PROVE  CompletionFits'
<1>1. UNCHANGED <<deviceVars, sound>>
  BY DEF LocalStep, InitReturn, Invoke, AdjustFastMemory, ParseEnd, ParseConfig, ParseNop,
      ParseStream, Powered, Started, Err, Wait, WaitDone, WaitTimeout, Invalidate, Clear,
      RequestReturn, Return, Local
<1>2. UNCHANGED <<product, irq, end, fault, regs, dev, task>>
  BY <1>1 DEF deviceVars, npuVars, callVars
<1>3. dev = "none"
  BY DEF LocalStep, InitReturn, Invoke, AdjustFastMemory, ParseEnd, ParseConfig, ParseNop,
      ParseStream, Powered, Started, Err, Wait, WaitDone, WaitTimeout, Invalidate, Clear,
      RequestReturn, Return, Local, Idle
<1>4. state' = "DONE" /\ result' = "OK" => state = "DONE" /\ result = "OK"
  BY DEF LocalStep, InitReturn, Invoke, AdjustFastMemory, ParseEnd, ParseConfig, ParseNop,
      ParseStream, Powered, Started, Err, Wait, WaitDone, WaitTimeout, Invalidate, Clear,
      RequestReturn, Return, jobVars
<1>5. Ended' => Ended
  BY <1>2, <1>4 DEF Ended
<1>6. Ended => UNCHANGED request
  <2>1. Ended => state # "IDLE"
    BY DEF Ended, InvokeInv, DriverInv, NpuFits
  <2>2. CASE ParseStream
    BY <2>1, <2>2, NotBegunYet DEF ParseStream, InvokeInv, DriverInv, PayloadInv
  <2>3. CASE LocalStep /\ ~ParseStream
    BY <2>3 DEF LocalStep, InitReturn, Invoke, AdjustFastMemory, ParseEnd, ParseConfig, ParseNop,
        Powered, Started, Err, Wait, WaitDone, WaitTimeout, Invalidate, Clear,
        RequestReturn, Return
  <2> QED BY <2>2, <2>3
<1>7. Ended' => RunSet(request)' = RunSet(request)
  BY <1>2, <1>5, <1>6, SetsFixed
<1> QED BY <1>1, <1>2, <1>3, <1>4, <1>5, <1>7 DEF CompletionFits, Written, NpuSucceeded

\* A reset is called for an inference that has failed, or for none.
LEMMA CallsKeepCompletion ==
    ASSUME InvokeInv, CompletionFits, CallStep
    PROVE  CompletionFits'
<1>1. UNCHANGED <<product, irq, end, fault, regs, sound, request, result>> /\ dev = "none"
  BY DEF CallStep, InitCall, PowerForRun, Start, PowerAfterRun, Verdict, RequestPower, ReleasePower,
      SoftReset, Idle, CallInit, CallSoftReset, CallRun, CallGating, Begin, npuVars, jobVars, deviceVars
<1>2. state' = "DONE" => state = "DONE"
  BY DEF CallStep, InitCall, PowerForRun, Start, PowerAfterRun, Verdict, RequestPower, ReleasePower,
      SoftReset, jobVars
<1>3. RunSet(request)' = RunSet(request)
  BY <1>1, SetsFixed
<1>4. dev' # "none" /\ task' \in {"init", "reset"} /\ state' # "IDLE" => result # "OK"
  <2>1. CASE Verdict
    BY <1>1, <2>1 DEF Verdict, deviceVars, callVars
  <2>2. CASE RequestPower
    <3>1. power = 0 => state = "IDLE"
      BY <2>2 DEF RequestPower, InvokeInv, DriverInv, PowerFits, Powers
    <3> QED BY <1>1, <2>2, <3>1 DEF RequestPower, deviceVars, callVars, jobVars
  <2>3. CASE InitCall \/ PowerForRun \/ SoftReset
    BY <2>3 DEF InitCall, PowerForRun, SoftReset, InvokeInv, DriverInv, StateFits, jobVars
  <2>4. CASE Start
    BY <2>4 DEF Start, CallRun, Begin
  <2>5. CASE PowerAfterRun \/ ReleasePower
    BY <1>1, <2>5 DEF PowerAfterRun, ReleasePower, CallGating, Begin, deviceVars, callVars
  <2> QED BY <2>1, <2>2, <2>3, <2>4, <2>5 DEF CallStep
<1> QED BY <1>1, <1>2, <1>3, <1>4 DEF CompletionFits, Ended, Written, NpuSucceeded

\* The device layer writes registers for a job that is being started, or in a
\* reset, which leaves the NPU unsound until it has failed or succeeded.
LEMMA LayerKeepsCompletion ==
    ASSUME InvokeInv, CompletionFits, LayerStep
    PROVE  CompletionFits'
<1>1. UNCHANGED <<state, result, request>>
  BY DEF LayerStep, driverVars, jobVars
<1>2. /\ dev # "none" /\ UNCHANGED <<product, task>> /\ (irq' => irq)
      /\ task = "reset" /\ dev' = "none" => ~irq'
  BY LayerEffect DEF LayerStep, InvokeInv
<1>3. RunSet(request)' = RunSet(request)
  BY <1>1, <1>2, SetsFixed
<1>4. ASSUME sound', Ended' PROVE sound /\ Ended
  <2>1. CASE Resetting /\ dev' = "none"
    <3>1. task \in {"init", "reset"} /\ (state = "DONE" => result # "OK")
      BY <1>2, <2>1 DEF Resetting, CompletionFits
    <3>2. irq'
      BY <1>1, <1>4, <3>1 DEF Ended
    <3>3. task = "init"
      BY <1>2, <2>1, <3>1, <3>2
    <3>4. pc = "init" /\ state = "RUNNING"
      BY <1>2, <3>2, <3>3 DEF InvokeInv, DriverInv, CallsFit, NpuFits
    <3> QED BY <3>4 DEF InvokeInv, DriverInv, StateFits
  <2>2. CASE ~(Resetting /\ dev' = "none")
    BY <1>1, <1>2, <1>4, <2>2 DEF LayerStep, Ended
  <2> QED BY <2>1, <2>2
<1>5. ASSUME sound', Ended' PROVE UNCHANGED <<regs, end, fault>>
  <2>1. sound /\ Ended /\ dev # "reset"
    BY <1>4, <1>5 DEF LayerStep
  <2>2. ~Resetting /\ ~Starting
    BY <2>1 DEF InvokeInv, DriverInv, NpuFits, StateFits, RegisterInv, SettingsFit, Ended
  <2>3. ~Write
    <3>1. ASSUME Write PROVE FALSE
      <4>1. dev = "write" /\ todo # << >>
        BY <3>1 DEF Write
      <4>2. task # "gating" /\ task \in {"init", "reset", "run", "gating"}
        BY <4>1 DEF InvokeInv, DevInv, PlacesInv
      <4> QED BY <2>2, <4>1, <4>2 DEF Resetting, Starting
    <3> QED BY <3>1
  <2> QED BY <2>1, <2>3 DEF LayerStep, DeviceStep, WriteReset, PollDone, PollTimeout, Verify,
        InitDone, CmdRead, CmdWrite, npuVars
<1>6. ASSUME dev' # "none", task' \in {"init", "reset"}, state' # "IDLE" PROVE result' # "OK"
  BY <1>1, <1>2, <1>6 DEF CompletionFits
<1>7. sound' /\ Ended' => Written(RunSet(request))'
  BY <1>3, <1>4, <1>5 DEF CompletionFits, Written
<1>8. sound' /\ state' = "DONE" /\ result' = "OK" => NpuSucceeded'
  BY <1>1, <1>4, <1>5 DEF CompletionFits, NpuSucceeded, Ended
<1> QED BY <1>6, <1>7, <1>8 DEF CompletionFits

\* The handler reads the end of the job that is running, and no other.
LEMMA HandlerKeepsCompletion ==
    ASSUME InvokeInv, CompletionFits, IrqHandler
    PROVE  CompletionFits'
<1>1. /\ irq /\ UNCHANGED <<product, end, fault, regs, dev, task, sound, request>>
      /\ IF result = "TIMEOUT" THEN UNCHANGED <<state, result>>
         ELSE state' = "DONE" /\ result' = IF NpuSucceeded THEN "OK" ELSE "ERROR"
  BY DEF IrqHandler, ClearInterrupt, callVars, jobVars
<1>2. RunSet(request)' = RunSet(request)
  BY <1>1, SetsFixed
<1>3. state = "RUNNING"
  BY <1>1 DEF InvokeInv, DriverInv, NpuFits
<1>4. dev # "none" /\ task \in {"init", "reset"} => result = "TIMEOUT"
  BY <1>3 DEF InvokeInv, DriverInv, StateFits, CompletionFits
<1>5. sound => Written(RunSet(request))
  BY <1>1 DEF CompletionFits, Ended
<1>6. sound' /\ state' = "DONE" /\ result' = "OK" => NpuSucceeded'
  BY <1>1, <1>3 DEF NpuSucceeded
<1>7. dev' # "none" /\ task' \in {"init", "reset"} => result' # "OK"
  BY <1>1, <1>3, <1>4
<1> QED BY <1>1, <1>2, <1>5, <1>6, <1>7 DEF CompletionFits, Written

\* The NPU stops with what it was started with.
LEMMA HardwareKeepsCompletion ==
    ASSUME InvokeInv, CompletionFits, Hardware
    PROVE  CompletionFits'
<1>1. UNCHANGED <<product, regs, dev, task, sound, request, state, result>>
  BY DEF Hardware, NpuStep, Stop, ResetEnds, callVars, jobVars
<1>2. RunSet(request)' = RunSet(request)
  BY <1>1, SetsFixed
<1>3. \/ npu = "running"
      \/ npu = "resetting" /\ UNCHANGED <<irq, end, fault>>
  BY DEF Hardware, NpuStep, Stop, ResetEnds
<1>4. npu = "running" => state = "RUNNING" /\ (sound => Written(RunSet(request)))
  BY DEF InvokeInv, DriverInv, NpuFits, RegisterInv, SettingsFit
<1>5. sound => npu = "running"
  BY <1>3 DEF InvokeInv, RegisterInv, SettingsFit
<1> QED BY <1>1, <1>2, <1>4, <1>5 DEF CompletionFits, Written, Ended

\* Every step keeps it.
LEMMA CompletionStep == InvokeInv /\ CompletionFits /\ [InvokeNext]_allVars => CompletionFits'
<1> SUFFICES ASSUME InvokeInv, CompletionFits, [InvokeNext]_allVars PROVE CompletionFits'
  OBVIOUS
<1>1. CASE LocalStep
  BY <1>1, LocalKeepsCompletion
<1>2. CASE CallStep
  BY <1>2, CallsKeepCompletion
<1>3. CASE LayerStep
  BY <1>3, LayerKeepsCompletion
<1>4. CASE IrqHandler
  BY <1>4, HandlerKeepsCompletion
<1>5. CASE Hardware
  BY <1>5, HardwareKeepsCompletion
<1>6. CASE UNCHANGED allVars
  <2>1. UNCHANGED <<product, irq, end, fault, regs, dev, task, sound, request, state, result>>
    BY <1>6 DEF allVars, driverVars, jobVars, deviceVars, npuVars, callVars
  <2>2. RunSet(request)' = RunSet(request)
    BY <2>1, SetsFixed
  <2> QED BY <2>1, <2>2 DEF CompletionFits, Ended, Written, NpuSucceeded
<1>7. CASE InvokeNext
  BY <1>1, <1>2, <1>3, <1>4, <1>5, <1>7
      DEF InvokeNext, ApplicationStep, DriverStep, LocalStep, CallStep
<1> QED BY <1>6, <1>7

\* A wait that returns 0 hands back the payload of the last invocation, executed
\* to the end of its stream: over every interleaving of the thread with the NPU
\* and the handler, of timeouts with late interrupts, of resets that fail.
THEOREM InvokeHandsBackThePayload == InvokeSpec => []HandsBackThePayload
<1>1. InvokeInit => CompletionFits
  BY DEF InvokeInit, DeviceInit, CompletionFits, Ended
<1>2. InvokeInv /\ CompletionFits => HandsBackThePayload
  <2> SUFFICES ASSUME InvokeInv, CompletionFits, pc = "clear", collected, sound
               PROVE  npu = "stopped" /\ NpuSucceeded /\ ExecutesThePayload
    BY DEF HandsBackThePayload
  <2>1. state = "DONE" /\ result = "OK"
    BY DEF InvokeInv, DriverInv, CacheFits, StateFits
  <2>2. NpuSucceeded /\ Written(RunSet(request))
    BY <2>1 DEF CompletionFits, Ended
  <2>3. npu = "stopped"
    BY <2>1 DEF InvokeInv, DriverInv, NpuFits, RegisterInv, SettingsFit, DevInv, PlacesInv
  <2> QED BY <2>1, <2>2, <2>3, StartedRegisters
<1> QED BY <1>1, <1>2, InvokeInvariant, CompletionStep, PTL DEF InvokeSpec
=============================================================================
