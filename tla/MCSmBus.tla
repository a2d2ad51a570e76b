------------------------------ MODULE MCSmBus ------------------------------
(* Model constants for SmBus: short sections with bytes that carry over.   *)
EXTENDS SmBus

MCSerial == <<49, 200, 191, 7>>
MCUserHead == <<60, 255>>
\* no reason; power down and AV cable; button together with a report of
\* closing: the handler ends with a read, with either, with a write
MCReasons == {{}, {0, 3}, {5, 6}}
\* the next standard differs in one byte, in two bytes
MCSettings == {<<NTSC_M, 0>>, <<PAL_I, 1>>}
=============================================================================
