---------------------------- MODULE IntegerCodec ----------------------------
(***************************************************************************)
(* What both codecs make of an integer that stands in a document, for a    *)
(* member of an integer type, which is <<"int", least, greatest>>.         *)
(***************************************************************************)
EXTENDS Integers

CONSTANT Int64Max   \* of int64_t

ASSUME Int64Assumption == Int64Max \in Nat

\* Of uint64_t.
UInt64Max == 2 * Int64Max + 1

Refused == <<"refused">>

\* The signed and the unsigned types of up to 64 bits.
IntegerTypes ==
  {<<"int", - m - 1, m>> : m \in 0 .. Int64Max} \cup {<<"int", 0, 2 * m + 1>> : m \in 0 .. Int64Max}

\* static_cast to an integer type.
Cast(t, n) == t[2] + ((n - t[2]) % (t[3] - t[2] + 1))

\* The types of 64 bits have no need of some of the checks, which are left out.
Narrow(t) == t[3] < (IF t[2] < 0 THEN Int64Max ELSE UInt64Max)

-----------------------------------------------------------------------------
\* Mutant: a negative number is cast to an unsigned type.
NegativeCast(t, n) == FALSE

Negative(t, n) == t[2] = 0 /\ n < 0

\* A signed type needs a check also for a number that does not fit int64_t.  simdjson
\* refuses what fits neither 64-bit type.
JsonInteger(t, n) ==
  LET checked == Narrow(t) \/ (t[2] < 0 /\ n > Int64Max)
  IN IF \/ n \notin - Int64Max - 1 .. UInt64Max
        \/ Negative(t, n) \/ (checked /\ n \notin t[2] .. t[3])
       THEN Refused ELSE <<"int", Cast(t, n)>>

-----------------------------------------------------------------------------
\* parseAtom(): a number is a sign and a magnitude.
MagnitudeLimit(negative) == IF negative THEN Int64Max + 1 ELSE Int64Max

ParseInteger(n) ==
  LET magnitude == IF n < 0 THEN - n ELSE n
  IN IF magnitude > MagnitudeLimit(n < 0) THEN Refused ELSE <<"int", n>>

TomlInteger(t, n) ==
  IF Negative(t, n) \/ (Narrow(t) /\ n \notin t[2] .. t[3])
    THEN Refused ELSE <<"int", Cast(t, n)>>
=============================================================================
