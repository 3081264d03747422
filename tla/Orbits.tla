------------------------------- MODULE Orbits -------------------------------
(***************************************************************************)
(* The part of structural_symmetries that the search uses: Permutation and *)
(* the canonical representatives of Group.  A permutation is a function on *)
(* states; states are numbers, ordered as replace_if_less compares them    *)
(* (the last affected variable first).  gens is the sequence of generators *)
(* in the order in which bliss reports them.                               *)
(***************************************************************************)
EXTENDS Integers, Sequences

Identity(S) == [s \in S |-> s]

\* Permutation(perm1, perm2): first p, then q.
Then(p, q) == [s \in DOMAIN p |-> q[p[s]]]

\* Mutant: the argument invert is forgotten.
MutInverted(p) == p

\* Permutation(perm, true).
Inverted(p) == [s \in DOMAIN p |-> CHOOSE r \in DOMAIN p : p[r] = s]

\* One pass over the generators: each replaces the state if that makes it
\* less.  The permutation that the pass has applied.
Pass(gens, S, s) ==
  LET after[i \in 0 .. Len(gens)] ==
        IF i = 0 THEN Identity(S)
        ELSE IF gens[i][after[i - 1][s]] < after[i - 1][s]
             THEN Then(after[i - 1], gens[i])
             ELSE after[i - 1]
  IN after[Len(gens)]

\* compose_permutation(get_trace(s)): passes until one changes nothing.
Trace(gens, S) ==
  LET trace[s \in S] ==
        LET p == Pass(gens, S, s) IN
        IF p[s] = s THEN Identity(S) ELSE Then(p, trace[p[s]])
  IN trace

get_canonical_representative(gens, S, s) == Trace(gens, S)[s][s]

create_permutation_from_state_to_state(gens, S, s, r) ==
  Then(Trace(gens, S)[s], Inverted(Trace(gens, S)[r]))
=============================================================================
