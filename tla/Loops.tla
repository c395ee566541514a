------------------------------- MODULE Loops -------------------------------
(***************************************************************************)
(* Loops that recur in the code: over a list, skipping some of its items,  *)
(* and over a set, adding up or sorting it.  LoopTheorems says what they   *)
(* compute.                                                                *)
(***************************************************************************)
EXTENDS Integers, Sequences, FiniteSetsExt

\* The items of the sequence s that are not in S, in the order of s.  A recursive
\* function and not SelectSeq, so that its steps can be unfolded in a proof.
Outside(s, S) ==
    LET taken[n \in 0 .. Len(s)] ==
            IF n = 0 THEN << >>
            ELSE IF s[n] \in S THEN taken[n - 1]
            ELSE Append(taken[n - 1], s[n])
    IN taken[Len(s)]

SumOver(S, f) == MapThenSumSet(LAMBDA x : f[x], S)

\* A set in order: each element after those that ahead has for it.
InOrder(ahead) ==
    [k \in 1 .. Cardinality(DOMAIN ahead) |->
        CHOOSE x \in DOMAIN ahead : Cardinality(ahead[x]) = k - 1]
=============================================================================
