----------------------------- MODULE MCFraming -----------------------------
(***************************************************************************)
(* Framing over one-bit bytes, with lengths modulo 16: all byte strings up *)
(* to a length, so every prefix from 0 to 15 meets every shorter rest, and *)
(* the frames of components up to and beyond the largest length a prefix   *)
(* can carry.                                                              *)
(***************************************************************************)
EXTENDS Framing

CONSTANTS MaxInput, MaxFramed

Strings(n) == [1 .. n -> Bytes]
Zeros(n) == [i \in 1 .. n |-> 0]

MCInputs ==
  UNION {Strings(n) : n \in 0 .. MaxInput}
    \union {Frame(Zeros(m), Zeros(n)) : m, n \in 0 .. MaxFramed}
=============================================================================
