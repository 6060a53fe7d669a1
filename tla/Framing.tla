------------------------------ MODULE Framing ------------------------------
(***************************************************************************)
(* The framing of public keys and ciphertexts in internal/kem/hybrid:      *)
(* frame writes each component after a 4-byte big-endian length, unframe   *)
(* reads two components back from any byte string a peer may send.  Each   *)
(* round of unframe's loop is a step.  Bytes are the digits 0..Radix-1;    *)
(* the code has Radix = 256, and lengths are taken modulo Radix^4.         *)
(* The names keep clear of HybridKEM's, so that proofs can use both.       *)
(***************************************************************************)
EXTENDS Naturals, Sequences

CONSTANTS
  Radix,  \* the number of values of a byte
  Inputs  \* the byte strings given to unframe

Bytes == 0 .. Radix - 1

ASSUME FramingAssumption ==
  /\ Radix \in Nat /\ Radix > 1
  /\ Inputs \subseteq Seq(Bytes)

VARIABLES
  input,    \* the argument of unframe
  data,     \* what is left of it
  parts,    \* the components read so far
  returned  \* "reading", or what unframe returned

unframeVars == <<input, data, parts, returned>>

Errors == {"truncated length prefix", "truncated component", "unexpected trailing data"}

-----------------------------------------------------------------------------
(* frame *)

\* binary.BigEndian.PutUint32 after the conversion to uint32, and Uint32.
PutUint32(n) ==
  LET n1 == n \div Radix
      n2 == n1 \div Radix
      n3 == n2 \div Radix
  IN  <<n3 % Radix, n2 % Radix, n1 % Radix, n % Radix>>

\* Mutant: the digits are read in little-endian order.
Uint32Swapped(d) == ((d[4] * Radix + d[3]) * Radix + d[2]) * Radix + d[1]

Uint32(d) == ((d[1] * Radix + d[2]) * Radix + d[3]) * Radix + d[4]

FramePart(p) == PutUint32(Len(p)) \o p

Frame(a, b) == FramePart(a) \o FramePart(b)

-----------------------------------------------------------------------------
(* unframe *)

\* s[n:] and s[:n]
From(s, n) == SubSeq(s, n + 1, Len(s))
UpTo(s, n) == SubSeq(s, 1, n)

UnframeInit ==
  /\ input \in Inputs
  /\ data = input
  /\ parts = <<>>
  /\ returned = "reading"

Reading == returned = "reading" /\ Len(parts) < 2

\* Mutant: the length is compared before the prefix is cut off.
FitsWhole(n) == n <= Len(data)

\* Mutant: an exact fit is refused.
FitsStrictly(n) == n < Len(From(data, 4))

\* The n bytes announced by the prefix are there.
Fits(n) == n <= Len(From(data, 4))

TruncatedPrefix ==
  /\ Reading /\ Len(data) < 4
  /\ returned' = "truncated length prefix"
  /\ UNCHANGED <<input, data, parts>>

TruncatedComponent ==
  /\ Reading /\ Len(data) >= 4
  /\ ~Fits(Uint32(data))
  /\ returned' = "truncated component"
  /\ data' = From(data, 4)
  /\ UNCHANGED <<input, parts>>

\* Slicing past the end would panic.
TakePart ==
  LET n == Uint32(data)
      rest == From(data, 4)
  IN  /\ Reading /\ Len(data) >= 4
      /\ Fits(n)
      /\ IF n <= Len(rest)
           THEN /\ parts' = Append(parts, UpTo(rest, n))
                /\ data' = From(rest, n)
                /\ UNCHANGED returned
           ELSE /\ returned' = "panic"
                /\ UNCHANGED <<data, parts>>
      /\ UNCHANGED input

\* Mutant: trailing data is ignored.
FinishUnchecked ==
  /\ returned = "reading" /\ Len(parts) = 2
  /\ returned' = "ok"
  /\ UNCHANGED <<input, data, parts>>

Finish ==
  /\ returned = "reading" /\ Len(parts) = 2
  /\ returned' = IF Len(data) # 0 THEN "unexpected trailing data" ELSE "ok"
  /\ UNCHANGED <<input, data, parts>>

UnframeNext == TruncatedPrefix \/ TruncatedComponent \/ TakePart \/ Finish

UnframeSpec == UnframeInit /\ [][UnframeNext]_unframeVars

-----------------------------------------------------------------------------
(* Properties *)

\* Type invariant of unframe's variables; there is no "panic" among the
\* values of returned: no slice of unframe is out of range (combiner.go:133-151).
UnframeTypeOK ==
  /\ input \in Inputs
  /\ data \in Seq(Bytes)
  /\ parts \in Seq(Seq(Bytes)) /\ Len(parts) <= 2
  /\ returned \in Errors \union {"reading", "ok"}

\* "the exact inverse of frame on any input that parses successfully"
\* (docs/architecture.md:143-144): no other byte string is read as the same
\* two components.
ExactInverse == returned = "ok" => input = Frame(parts[1], parts[2])

\* A frame of two components shorter than Radix^4, told without the parser: some
\* split of the input carries both lengths.
MaxLength == Radix * Radix * Radix * Radix

SplitsAt(d, m) ==
  /\ m < MaxLength /\ Len(d) - 8 - m < MaxLength
  /\ UpTo(d, 4) = PutUint32(m)
  /\ UpTo(From(d, 4 + m), 4) = PutUint32(Len(d) - 8 - m)

IsFrame(d) == \E m \in 0 .. Len(d) - 8 : SplitsAt(d, m)

\* Two components shorter than Radix^4 come back from their frame: unframe
\* refuses no input that frame could have produced from them
\* (combiner.go:115-150).
RefusesNoFrame == returned \in Errors => ~IsFrame(input)
=============================================================================
