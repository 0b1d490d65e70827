---------------------------- MODULE EthosuPmuMC ----------------------------
(* Values the cycle counter is set to: next to a carry out of the low word,  *)
(* and next to the wrap.                                                     *)
EXTENDS EthosuPmu

NearCarry == {<<0, LowMax>>, <<HighMax, LowMax>>}
=============================================================================
