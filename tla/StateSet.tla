------------------------------ MODULE StateSet ------------------------------
(***************************************************************************)
(* What mata::utils::SparseSet promises its users: a finite set of numbers *)
(* together with a domain size.  The domain size matters because           *)
(* Nfa::num_of_states() is computed from it: it grows when a number        *)
(* outside it is inserted, no removal shrinks it, and only truncate() does.*)
(***************************************************************************)
EXTENDS Integers, FiniteSets

CONSTANT MaxState       \* the largest number an instance stores

VARIABLES set,          \* the elements
          domain        \* domain_size()

vars == <<set, domain>>

State == 0..MaxState

Larger(m, n) == IF m < n THEN n ELSE m

\* n is the least domain, d or larger, that holds every element of S.
LeastDomain(d, S, n) ==
  /\ d <= n
  /\ \A x \in S : x < n
  /\ n = d \/ \E x \in S : n = x + 1

Init == set = {} /\ domain \in 0..MaxState+1

Insert(v) == set' = set \cup {v} /\ domain' = Larger(domain, v+1)

Erase(v) == set' = set \ {v} /\ domain' = domain

Clear == set' = {} /\ domain' = domain

Reserve(u) == set' = set /\ domain' = Larger(domain, u)

Complement(n) == set' = (0..n-1) \ set /\ domain' = Larger(domain, n)

Filter(P) == set' = set \cap P /\ domain' = domain

\* A renaming is injective on the elements it is applied to.
Rename(f) ==
  /\ \A x, y \in set : f[x] = f[y] => x = y
  /\ set' = {f[x] : x \in set}
  /\ \E n \in 0..MaxState+1 : LeastDomain(domain, set', n) /\ domain' = n

Truncate ==
  /\ set' = set
  /\ \E n \in 0..MaxState+1 : LeastDomain(0, set, n) /\ domain' = n

MoveOut == set' = {} /\ domain' = 0

Next ==
  \/ \E v \in State : Insert(v) \/ Erase(v)
  \/ \E u \in 0..MaxState+1 : Reserve(u) \/ Complement(u)
  \/ \E P \in SUBSET State : Filter(P)
  \/ \E f \in [State -> State] : Rename(f)
  \/ Clear \/ Truncate \/ MoveOut

Spec == Init /\ [][Next]_vars

-----------------------------------------------------------------------------
(* Every element lies inside the domain, so a state number of an automaton *)
(* is always below num_of_states().                                        *)
DomainCovers == \A x \in set : x < domain
=============================================================================
