---------------------------- MODULE EthosuPayload ----------------------------
(***************************************************************************)
(* The custom operator payload: what the compiler (Vela) puts into it and  *)
(* how ethosu_invoke_async steps through it.  A payload is a sequence of   *)
(* 32-bit words.  A word is a record of the fields the parser looks at;    *)
(* which of them mean anything depends on where the parser thinks it is,   *)
(* so the words of a command stream look like driver actions too.          *)
(***************************************************************************)
EXTENDS Integers, Sequences

CONSTANTS
    LengthMod,  \* number of values of the 16-bit length field
    Hw          \* CONFIG and ID of the NPU, a member of Configs

\* The fields of config_r and id_r that are compared; axi stands for
\* num_axi_ext and num_axi_sram, which only U85 has.
ConfigFields == {"product", "macs_per_cc", "cmd_stream_version", "axi", "custom_dma",
                 "arch_major", "arch_minor"}
Configs == [ConfigFields -> Nat]

ASSUME PayloadAssumption == LengthMod \in Nat \ {0} /\ Hw \in Configs

NoConfig == [f \in ConfigFields |-> 0]

\* struct cop_data_s: the command, and a length in two parts; a word that is
\* not one but part of an opt_cfg_s has a configuration in it.
Word(a, r, l) == [action |-> a, reserved |-> r, length |-> l, config |-> NoConfig]
ConfigWord(c) == [Word("COMMAND_STREAM", 0, 1) EXCEPT !.config = c]
StreamWord == Word("COMMAND_STREAM", 0, 1)

-----------------------------------------------------------------------------
(* The compiler.                                                           *)

\* What it asks of the driver.  A command stream has a 24-bit length.
Actions ==
    [kind : {"OPTIMIZER_CONFIG"}, config : Configs]
        \cup [kind : {"COMMAND_STREAM"}, len : 0..(256 * LengthMod - 1)]
        \cup [kind : {"NOP"}]

EncodeAction(a) ==
    CASE a.kind = "OPTIMIZER_CONFIG" ->
            << Word(a.kind, 0, 0), ConfigWord(a.config), ConfigWord(a.config) >>
      [] a.kind = "COMMAND_STREAM" ->
            << Word(a.kind, a.len \div LengthMod, a.len % LengthMod) >>
                \o [i \in 1..a.len |-> StreamWord]
      [] a.kind = "NOP" -> << Word(a.kind, 0, 0) >>

\* A payload is a header word, and then its actions one after the other:
\* starts[n] words come before action n, and as many as there are before the end.
IsPayload(p) ==
    /\ p.actions \in Seq(Actions)
    /\ p.starts \in [1..Len(p.actions) + 1 -> Nat]
    /\ p.starts[1] = 1
    /\ Len(p.words) = p.starts[Len(p.actions) + 1]
    /\ \A n \in DOMAIN p.actions :
        LET code == EncodeAction(p.actions[n])
        IN  /\ p.starts[n + 1] = p.starts[n] + Len(code)
            /\ \A k \in DOMAIN code : p.words[p.starts[n] + k] = code[k]

\* "Vela only supports putting one COMMAND_STREAM per op", and nothing that the
\* driver could refuse comes after it.
OneStream(p) ==
    \A m, n \in DOMAIN p.actions :
        m < n /\ p.actions[m].kind = "COMMAND_STREAM" => p.actions[n].kind = "NOP"

-----------------------------------------------------------------------------
(* The parser.                                                             *)

BYTES_IN_32_BITS == 4
Aligned(address) == address % 16 = 0

\* Slip: the upper part of the length is dropped.
StreamLengthLow(w) == w.length

\* cms_length.
StreamLength(w) == w.reserved * LengthMod + w.length

\* Slip: the next action is looked for one word early.
ActionWordsShort(w) ==
    CASE w.action = "OPTIMIZER_CONFIG" -> 2
      [] w.action = "COMMAND_STREAM" -> 1 + StreamLength(w)
      [] OTHER -> 1

\* How far data_ptr moves on.
ActionWords(w) ==
    CASE w.action = "OPTIMIZER_CONFIG" -> 1 + 2
      [] w.action = "COMMAND_STREAM" -> 1 + StreamLength(w)
      [] OTHER -> 1

\* Slip: the architecture is compared the wrong way round.
VerifyConfigSwapped(product, cfg, id) ==
    /\ cfg.product = Hw.product /\ cfg.macs_per_cc = Hw.macs_per_cc
    /\ cfg.cmd_stream_version = Hw.cmd_stream_version
    /\ Hw.custom_dma >= cfg.custom_dma
    /\ product = "U85" => cfg.axi = Hw.axi
    /\ id.arch_major = Hw.arch_major
    /\ Hw.arch_minor <= id.arch_minor

\* ethosu_dev_verify_optimizer_config: the configuration word must agree, but
\* for custom DMA the NPU has and the stream does without; the architecture may
\* be newer than the stream's by its minor number.
VerifyConfig(product, cfg, id) ==
    /\ cfg.product = Hw.product /\ cfg.macs_per_cc = Hw.macs_per_cc
    /\ cfg.cmd_stream_version = Hw.cmd_stream_version
    /\ Hw.custom_dma >= cfg.custom_dma
    /\ product = "U85" => cfg.axi = Hw.axi
    /\ id.arch_major = Hw.arch_major
    /\ Hw.arch_minor >= id.arch_minor
=============================================================================
