------------------------------ MODULE MCHdlc -------------------------------
(* Payloads of up to three bytes with a flag, an escape and a check        *)
(* sequence that holds one of them; a buffer that the longest just fits.   *)
EXTENDS Hdlc

MCPayloads == {<<>>, <<42>>, <<125, 126>>}
MCPlain == {<<>>, <<0>>}
=============================================================================
