--------------------------- MODULE EthosuInvokeMC ---------------------------
(* Payloads, addresses and an NPU for checking EthosuInvoke. *)
EXTENDS EthosuInvoke, SequencesExt

TheNpu ==
    [product |-> 1, macs_per_cc |-> 8, cmd_stream_version |-> 0, axi |-> 1, custom_dma |-> 0,
     arch_major |-> 1, arch_minor |-> 1]

Opt(c) == [kind |-> "OPTIMIZER_CONFIG", config |-> c]
Stream(n) == [kind |-> "COMMAND_STREAM", len |-> n]
Nop == [kind |-> "NOP"]

\* Streams padded to 16 bytes, of lengths below and above LengthMod; compiled
\* for an older architecture, a newer one, with custom DMA, for other ports; and
\* one that is not aligned.
Lists ==
    { << Opt(TheNpu), Nop, Nop, Nop, Stream(3) >>,
      << Nop, Nop, Stream(6), Nop >>,
      << Opt([TheNpu EXCEPT !.arch_minor = 0, !.axi = 2]), Nop, Nop, Nop, Stream(1) >>,
      << Opt([TheNpu EXCEPT !.arch_minor = 2]), Nop, Nop, Nop, Stream(1) >>,
      << Nop, Nop, Opt([TheNpu EXCEPT !.custom_dma = 1]), Nop, Stream(1) >>,
      << Opt(TheNpu), Stream(2) >> }

\* The payload made of a sequence of actions.
Encode(as) == << Word("FOURCC", 0, 0) >> \o FlattenSeq([i \in 1..Len(as) |-> EncodeAction(as[i])])

ThePayloads ==
    { [actions |-> as, words |-> Encode(as),
       starts |-> [n \in 1..Len(as) + 1 |-> Len(Encode(SubSeq(as, 1, n - 1)))]] : as \in Lists }

SomeAddresses == 0..255

\* Three regions, so that the third goes to fast memory; two, of which one is
\* not aligned; where addresses have a high word, one that needs it.
Bases ==
    [p \in Products |->
        { <<IF p = "U55" THEN 32 ELSE 160, 16, 0>>, <<16, 8>> }]

\* The NPU sees command streams 16 bytes further up.
Shifted(a, i) == IF i = -1 THEN a + 16 ELSE a

\* NPU_QCONFIG and NPU_REGIONCFG_0 to 2 of ethosu_config_u65.h.
Ports(a, i) == CASE i = -1 -> 2 [] i = 0 -> 3 [] i = 1 -> 2 [] OTHER -> 1
=============================================================================
