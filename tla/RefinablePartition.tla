------------------------- MODULE RefinablePartition -------------------------
(***************************************************************************)
(* The class RefinablePartition of minimize_hopcroft(), as values.  The    *)
(* elements 0..n-1 lie in one vector, those of a set next to each other    *)
(* with the marked ones in front, so that splitting a set at its mark      *)
(* moves nothing.  A partition is a record of the vectors of the class,    *)
(* functions here:                                                         *)
(*                                                                         *)
(*   set_idx, location     of an element: its set and its place            *)
(*   elems                 the element at a place                          *)
(*   first, mid, end       of a set: its places, up to mid the marked ones *)
(***************************************************************************)
EXTENDS Integers, FiniteSets

NO_MORE_ELEMENTS == -1

\* All states in one set.
of_states(n) ==
  LET self == [k \in 0..n-1 |-> k]
      zero == [k \in 0..n-1 |-> 0]
  IN  [num_of_sets |-> 1, set_idx |-> zero, elems |-> self, location |-> self,
       first |-> zero, mid |-> zero, end |-> [zero EXCEPT ![0] = n]]

\* A set for each symbol, where symbol[t] is that of transition t: the sets in
\* the order the symbols first come in, each filled from the back.
of_transitions(symbol) ==
  LET T == DOMAIN symbol
      first_of == {t \in T : \A u \in T : u < t => symbol[u] # symbol[t]}
      set == [t \in T |->
                Cardinality({u \in first_of :
                               \A v \in T : symbol[v] = symbol[t] => u < v})]
      place == [t \in T |-> Cardinality({u \in T : \/ set[u] < set[t]
                                             \/ (set[u] = set[t] /\ u > t)})]
      below(s) == IF s < Cardinality(first_of)
                  THEN Cardinality({u \in T : set[u] < s}) ELSE 0
  IN  [num_of_sets |-> Cardinality(first_of), set_idx |-> set, location |-> place,
       elems |-> [k \in T |-> CHOOSE t \in T : place[t] = k],
       first |-> [s \in T |-> below(s)], mid |-> [s \in T |-> below(s)],
       end |-> [s \in T |-> IF s < Cardinality(first_of)
                            THEN Cardinality({u \in T : set[u] <= s}) ELSE 0]]

size_of_set(p, s) == p.end[s] - p.first[s]

get_first(p, s) == p.elems[p.first[s]]

get_next(p, e) ==
  IF p.location[e] + 1 >= p.end[p.set_idx[e]] THEN NO_MORE_ELEMENTS
  ELSE p.elems[p.location[e] + 1]

has_no_marks(p, s) == p.mid[s] = p.first[s]

\* A mutant of mark: the element that makes room is not told its place.
mark_losing_place(p, e) ==
  LET s == p.set_idx[e]
      l == p.location[e]
      m == p.mid[s]
  IN  IF l < m THEN p
      ELSE [num_of_sets |-> p.num_of_sets, set_idx |-> p.set_idx,
            elems |-> [p.elems EXCEPT ![l] = p.elems[m], ![m] = e],
            location |-> [p.location EXCEPT ![e] = m],
            first |-> p.first, mid |-> [p.mid EXCEPT ![s] = m + 1], end |-> p.end]

\* Element e changes places with the first one that is not marked.
mark(p, e) ==
  LET s == p.set_idx[e]
      l == p.location[e]
      m == p.mid[s]
  IN  IF l < m THEN p
      ELSE [num_of_sets |-> p.num_of_sets, set_idx |-> p.set_idx,
            elems |-> [p.elems EXCEPT ![l] = p.elems[m], ![m] = e],
            location |-> [p.location EXCEPT ![p.elems[m]] = l, ![e] = m],
            first |-> p.first, mid |-> [p.mid EXCEPT ![s] = m + 1], end |-> p.end]

\* Some elements of set s are marked, and not all.
splits(p, s) == p.mid[s] # p.first[s] /\ p.mid[s] # p.end[s]

\* The marked elements become the set number p.num_of_sets, if set s splits;
\* otherwise it loses its marks.
split(p, s) ==
  IF splits(p, s)
  THEN LET new == p.num_of_sets
           m == p.mid[s]
       IN  [num_of_sets |-> new + 1,
            set_idx |-> [e \in DOMAIN p.set_idx |->
                           IF p.location[e] \in p.first[s]..m-1 THEN new ELSE p.set_idx[e]],
            elems |-> p.elems, location |-> p.location,
            first |-> [p.first EXCEPT ![new] = p.first[s], ![s] = m],
            mid |-> [p.mid EXCEPT ![new] = p.first[s]],
            end |-> [p.end EXCEPT ![new] = m]]
  ELSE [num_of_sets |-> p.num_of_sets, set_idx |-> p.set_idx,
        elems |-> p.elems, location |-> p.location,
        first |-> p.first, mid |-> [p.mid EXCEPT ![s] = p.first[s]], end |-> p.end]

-----------------------------------------------------------------------------
Partition(n) ==
  [num_of_sets : 1..n, set_idx : [0..n-1 -> 0..n-1],
   elems : [0..n-1 -> 0..n-1], location : [0..n-1 -> 0..n-1],
   first : [0..n-1 -> 0..n], mid : [0..n-1 -> 0..n], end : [0..n-1 -> 0..n]]

(* The vectors fit together: location and elems are inverse to each other, *)
(* no set is empty, and a set's elements are those at its places.          *)
Represents(p, n) ==
  /\ p \in Partition(n)
  /\ \A k \in 0..n-1 : p.location[p.elems[k]] = k /\ p.elems[p.location[k]] = k
  /\ \A s \in 0..p.num_of_sets-1 :
       p.first[s] < p.end[s] /\ p.mid[s] \in p.first[s]..p.end[s]
  /\ \A e \in 0..n-1 : p.set_idx[e] < p.num_of_sets
  /\ \A e \in 0..n-1, s \in 0..p.num_of_sets-1 :
       p.set_idx[e] = s <=> p.location[e] \in p.first[s]..p.end[s]-1

\* The marked elements of set s.
marked(p, s) == {e \in DOMAIN p.set_idx : p.set_idx[e] = s /\ p.location[e] < p.mid[s]}
=============================================================================
