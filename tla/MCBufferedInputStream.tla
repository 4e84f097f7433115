------------------------ MODULE MCBufferedInputStream ------------------------
(* An instance of BufferedInputStream for TLC: every text of up to Longest   *)
(* bytes.                                                                    *)
EXTENDS BufferedInputStream

CONSTANT Longest

Short == UNION {[1 .. n -> {"char", "cr", "lf"}] : n \in 0 .. Longest}
=============================================================================
