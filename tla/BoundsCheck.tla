----------------------------- MODULE BoundsCheck -----------------------------
(***************************************************************************)
(* The metadata of a pointer and __stricc_rt_check_bounds, which judges an *)
(* access by them, on machine words: the sums wrap at WordLimit (2^64), as *)
(* they do in a release build.                                             *)
(***************************************************************************)
EXTENDS Naturals

CONSTANT WordLimit

ASSUME WordAssumption == WordLimit \in Nat /\ WordLimit > 1

Word == 0 .. WordLimit - 1

Null    == 0
NoKey   == 0
SizeMax == WordLimit - 1

\* (base, size, key), the key split into its bit 63, which marks a const object, and
\* the rest.
Metadata == [base : Word, size : Word, key : Nat, const : BOOLEAN]
Meta(base, size, key, const) == [base |-> base, size |-> size, key |-> key, const |-> const]

\* What a pointer has that nothing is known about, and the null pointer.
Wildcard == Meta(Null, SizeMax, NoKey, FALSE)
NullMeta == Meta(Null, 0, NoKey, FALSE)

IsWildcard(m) == m.base = Null /\ m.size = SizeMax

\* The sum of two words.
Plus(a, b) == IF a + b >= WordLimit THEN a + b - WordLimit ELSE a + b

\* Mutant of InBounds: the size of the access is left out.
StartInBounds(ptr, m, access) == ptr >= m.base /\ ptr <= Plus(m.base, m.size)

InBounds(ptr, m, access) ==
    ptr >= m.base /\ Plus(ptr, access) <= Plus(m.base, m.size)

\* keyTable[a] is the key registered at a, NoKey if there is none.
Current(m, keyTable) == m.key # NoKey => keyTable[m.base] = m.key

check_bounds(ptr, m, access, isWrite, keyTable) ==
    CASE ptr = Null -> "null"
      [] ptr # Null /\ IsWildcard(m) -> "ok"
      [] OTHER ->
            CASE isWrite /\ m.const -> "const"
              [] ~(isWrite /\ m.const) /\ ~InBounds(ptr, m, access) -> "bounds"
              [] OTHER -> IF Current(m, keyTable) THEN "ok" ELSE "stale"
=============================================================================
