-------------------------- MODULE WrappingIntegers --------------------------
(***************************************************************************)
(* libsponge/wrapping_integers.{hh,cc}: conversions between the absolute   *)
(* sequence numbers an endpoint counts with (uint64_t, SYN is number 0)    *)
(* and the relative ones a segment carries (WrappingInt32: offset by the   *)
(* initial sequence number and reduced to 32 bits).                        *)
(*                                                                         *)
(* A WrappingInt32 is its raw value.  The widths are parameters: Mod is    *)
(* 2^32 and AbsMod is 2^64 in the code.                                    *)
(***************************************************************************)
EXTENDS Integers

CONSTANTS Mod, AbsMod

ASSUME ModAssumption == Mod \in Nat /\ Mod > 1

ASSUME AbsModAssumption == AbsMod \in Nat /\ AbsMod > 0 /\ AbsMod % Mod = 0

WrappingInt32 == 0 .. Mod - 1

UInt64 == 0 .. AbsMod - 1

\* operator+(WrappingInt32, uint32_t) and operator-(WrappingInt32, uint32_t)
Plus(a, b) == (a + b) % Mod

Minus(a, b) == (a - b) % Mod

-----------------------------------------------------------------------------

WrapNoIsn(n, isn) == n % Mod

wrap(n, isn) == Plus(isn, n)

-----------------------------------------------------------------------------

\* The increments (diff_p) and decrements (diff_n) that lead from the wrapped
\* checkpoint cp to n; both are uint32_t in the code, and diff_p is computed
\* with a wrap to 0 when cp = n.
diff_p(n, cp) == IF cp < n THEN n - cp ELSE (Mod - 1 - cp + n + 1) % Mod

diff_n(n, cp) == IF cp < n THEN Mod - 1 - n + cp + 1 ELSE cp - n

UnwrapAlwaysNearer(n, isn, checkpoint) ==
  LET cp == wrap(checkpoint, isn)
  IN  IF diff_p(n, cp) < diff_n(n, cp)
      THEN (checkpoint + diff_p(n, cp)) % AbsMod
      ELSE (checkpoint - diff_n(n, cp)) % AbsMod

UnwrapForward(n, isn, checkpoint) ==
  (checkpoint + diff_p(n, wrap(checkpoint, isn))) % AbsMod

unwrap(n, isn, checkpoint) ==
  LET cp == wrap(checkpoint, isn)
  IN  IF diff_p(n, cp) < diff_n(n, cp) \/ checkpoint < diff_n(n, cp)
      THEN (checkpoint + diff_p(n, cp)) % AbsMod
      ELSE checkpoint - diff_n(n, cp)
=============================================================================
