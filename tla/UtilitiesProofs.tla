--------------------------- MODULE UtilitiesProofs ---------------------------
(***************************************************************************)
(* Theorems about two data structures of include/mata/utils.               *)
(*                                                                         *)
(* The sparse set: its invariant and its contract for every MaxState.      *)
(*                                                                         *)
(* The synchronized iterators.  The universal one, for two vectors,        *)
(* wherever they lie, and for any number of them when the comparison of    *)
(* iterators can be trusted, is synchronized when it says so and delivers  *)
(* exactly the common values.  The existential one delivers, for any       *)
(* vectors, exactly the values that some vector holds, in ascending order, *)
(* each once and with all its places.                                      *)
(***************************************************************************)
EXTENDS SparseSet, SyncUniversal, SyncExistential, FiniteSetTheorems,
        SequenceTheorems, TLAPS

-----------------------------------------------------------------------------
(* The sparse set.                                                         *)

\* IndexesElements without its exception: what holds between two calls.
Indexed == \A k \in 0..size-1 : dense[k] < domain /\ sparse[dense[k]] = k

-----------------------------------------------------------------------------
(* Positions that point at different numbers below d are at most d, and if *)
(* there are d of them every number is pointed at.                         *)
LEMMA Pigeonhole ==
  ASSUME NEW n \in Nat, NEW d \in Nat, NEW f,
         \A k \in 0..n-1 : f[k] \in 0..d-1,
         \A k, l \in 0..n-1 : f[k] = f[l] => k = l
  PROVE  n <= d /\ (n = d => \A x \in 0..d-1 : \E k \in 0..n-1 : f[k] = x)
<1> DEFINE g == [k \in 0..n-1 |-> f[k]]
<1>1. g \in Injection(0..n-1, 0..d-1)
  BY DEF Injection, IsInjective
<1>2. /\ IsFiniteSet(0..n-1) /\ Cardinality(0..n-1) = n
      /\ IsFiniteSet(0..d-1) /\ Cardinality(0..d-1) = d
  <2>1. n-1 \in Int /\ d-1 \in Int /\ 0 \in Int
    OBVIOUS
  <2>2. IsFiniteSet(0..n-1) /\ Cardinality(0..n-1) = n
    BY <2>1, FS_Interval
  <2>3. IsFiniteSet(0..d-1) /\ Cardinality(0..d-1) = d
    BY <2>1, FS_Interval
  <2> QED BY <2>2, <2>3
<1>3. /\ Cardinality(0..n-1) <= Cardinality(0..d-1)
      /\ Cardinality(0..n-1) = Cardinality(0..d-1)
           <=> g \in Surjection(0..n-1, 0..d-1)
  BY <1>1, <1>2, FS_Injection
<1>4. n <= d
  BY <1>2, <1>3
<1>5. ASSUME n = d, NEW x \in 0..d-1
      PROVE  \E k \in 0..n-1 : f[k] = x
  BY <1>2, <1>3, <1>5 DEF Surjection
<1> QED
  BY <1>4, <1>5

(* In an indexed structure elements are at one position each, contains()   *)
(* tells them apart, and a number that is missing leaves room for it.      *)
LEMMA IndexedFacts ==
  ASSUME StructureOK, Indexed, size <= domain
  PROVE  /\ \A k, l \in 0..size-1 : dense[k] = dense[l] => k = l
         /\ \A v \in State : contains(v) <=> v \in Contents
         /\ \A v \in 0..domain-1 : v \notin Contents => size < domain
<1> USE MaxStateAssumption DEF State, Lengths
<1>1. PICK n \in Lengths : /\ domain <= n
                           /\ dense \in [0..n-1 -> State]
                           /\ sparse \in [0..n-1 -> Nat]
  BY DEF StructureOK
<1>2. size \in Nat /\ domain \in Nat
  BY DEF StructureOK
<1>3. \A k, l \in 0..size-1 : dense[k] = dense[l] => k = l
  BY DEF Indexed
<1>4. \A k \in 0..size-1 : dense[k] \in 0..domain-1
  BY <1>1, <1>2 DEF Indexed
<1>5. ASSUME NEW v \in State
      PROVE  contains(v) <=> v \in Contents
  <2>1. CASE v < domain
    <3>1. v \in 0..n-1 /\ sparse[v] \in Nat
      BY <1>1, <1>2, <2>1
    <3>2. contains(v) => sparse[v] \in 0..size-1 /\ dense[sparse[v]] = v
      BY <1>2, <3>1 DEF contains
    <3>3. ASSUME NEW k \in 0..size-1, dense[k] = v
          PROVE  contains(v)
      BY <1>2, <2>1, <3>3 DEF contains, Indexed
    <3> QED BY <3>2, <3>3 DEF Contents
  <2>2. CASE ~(v < domain)
    BY <1>2, <1>4, <2>2 DEF contains, Contents
  <2> QED BY <2>1, <2>2
<1>6. ASSUME NEW v \in 0..domain-1, v \notin Contents
      PROVE  size < domain
  <2>1. size = domain => \E k \in 0..size-1 : dense[k] = v
    BY <1>2, <1>3, <1>4, Pigeonhole
  <2> QED BY <1>2, <1>6, <2>1 DEF Contents
<1> QED
  BY <1>3, <1>5, <1>6

(* A step that leaves dense, sparse, size and domain alone leaves what is  *)
(* said of them alone.                                                     *)
LEMMA Unchanged ==
  ASSUME UNCHANGED structure
  PROVE  /\ StructureOK => StructureOK'
         /\ Indexed => Indexed'
         /\ size <= domain => size' <= domain'
         /\ Contents' = Contents
BY DEF structure, StructureOK, Indexed, Contents

(* Vectors of the right lengths make a structure.                          *)
LEMMA StructureNext ==
  ASSUME NEW n \in Lengths, size' \in Nat, domain' \in Lengths, domain' <= n,
         dense' \in [0..n-1 -> State], sparse' \in [0..n-1 -> Nat]
  PROVE  StructureOK'
BY DEF StructureOK

(* insert() of a new number keeps the structure and adds the number.       *)
LEMMA InsertAdds ==
  ASSUME StructureOK, Indexed, size <= domain,
         NEW v \in State, v \notin Contents, InsertNew(v)
  PROVE  /\ StructureOK' /\ Indexed' /\ size' <= domain'
         /\ Contents' = Contents \cup {v}
         /\ domain' = Larger(domain, v+1)
<1> USE MaxStateAssumption DEF State, Lengths
<1>1. PICK n \in Lengths : /\ domain <= n
                           /\ dense \in [0..n-1 -> State]
                           /\ sparse \in [0..n-1 -> Nat]
  BY DEF StructureOK
<1>2. size \in Nat /\ domain \in Nat /\ domain <= MaxState + 1
  BY DEF StructureOK
<1>3. /\ size' = size + 1 /\ domain' = Larger(domain, v+1)
      /\ size < domain'
  BY <1>2, IndexedFacts DEF InsertNew, Larger
<1> DEFINE m == IF v+1 > domain THEN v+1 ELSE n
           d == reserved(dense, v+1)
           p == reserved(sparse, v+1)
<1>4. /\ m \in Lengths /\ domain' <= m
      /\ d \in [0..m-1 -> State] /\ p \in [0..m-1 -> Nat]
      /\ \A k \in 0..domain-1 : d[k] = dense[k] /\ p[k] = sparse[k]
  BY <1>1, <1>2, <1>3 DEF reserved, resize, Larger
<1>5. /\ dense' = [d EXCEPT ![size] = v] /\ sparse' = [p EXCEPT ![v] = size]
      /\ size \in 0..m-1 /\ v \in 0..m-1
  BY <1>1, <1>2, <1>3, <1>4 DEF InsertNew, Larger
<1> HIDE DEF m, d, p
<1>6. /\ dense' \in [0..m-1 -> State] /\ sparse' \in [0..m-1 -> Nat]
      /\ dense'[size] = v /\ sparse'[v] = size
      /\ \A k \in 0..size-1 : dense'[k] = dense[k]
  BY <1>2, <1>3, <1>4, <1>5
<1>7. StructureOK'
  <2>1. size' \in Nat /\ domain' \in Lengths
    BY <1>2, <1>3 DEF Larger
  <2> QED BY <1>4, <1>6, <2>1 DEF StructureOK
<1>8. \A k \in 0..size-1 : dense[k] # v /\ dense[k] \in 0..domain-1
  BY <1>1, <1>2 DEF Contents, Indexed
<1>9. Indexed'
  <2>1. ASSUME NEW k \in 0..size-1
        PROVE  dense'[k] < domain' /\ sparse'[dense'[k]] = k
    <3>1. dense'[k] = dense[k] /\ dense[k] # v /\ dense[k] \in 0..domain-1
      BY <1>6, <1>8
    <3>2. dense[k] \in 0..m-1 /\ p[dense[k]] = sparse[dense[k]]
      BY <1>2, <1>3, <1>4, <3>1 DEF Larger
    <3>3. sparse'[dense[k]] = sparse[dense[k]]
      BY <1>4, <1>5, <3>1, <3>2
    <3>4. sparse[dense[k]] = k
      BY DEF Indexed
    <3>5. domain <= domain' /\ domain' \in Nat
      BY <1>2, <1>3 DEF Larger
    <3> QED BY <1>2, <3>1, <3>3, <3>4, <3>5
  <2>2. dense'[size] < domain' /\ sparse'[dense'[size]] = size
    BY <1>2, <1>3, <1>6 DEF Larger
  <2> QED BY <1>2, <1>3, <2>1, <2>2 DEF Indexed
<1>10. Contents' = Contents \cup {v}
  <2>1. Contents' = {dense'[k] : k \in 0..size}
    BY <1>2, <1>3 DEF Contents
  <2>2. 0..size = 0..size-1 \cup {size}
    BY <1>2
  <2>3. {dense'[k] : k \in 0..size} = {dense'[k] : k \in 0..size-1} \cup {v}
    BY <1>6, <2>2
  <2>4. {dense'[k] : k \in 0..size-1} = Contents
    BY <1>6 DEF Contents
  <2> QED BY <2>1, <2>3, <2>4
<1>11. size' <= domain'
  BY <1>2, <1>3 DEF Larger
<1> QED
  BY <1>3, <1>7, <1>9, <1>10, <1>11

(* erase_nocheck() of an element keeps the structure, the domain and every *)
(* position but the one it fills from the end.                             *)
LEMMA EraseRemoves ==
  ASSUME StructureOK, Indexed, size <= domain,
         NEW v \in Contents, erase_nocheck(v)
  PROVE  /\ StructureOK' /\ Indexed' /\ size' <= domain'
         /\ Contents' = Contents \ {v}
         /\ size' = size - 1 /\ domain' = domain
         /\ \A k \in 0..size-1 : dense[k] # v /\ k # size-1 => dense'[k] = dense[k]
<1> USE MaxStateAssumption DEF State, Lengths
<1>1. PICK n \in Lengths : /\ domain <= n
                           /\ dense \in [0..n-1 -> State]
                           /\ sparse \in [0..n-1 -> Nat]
  BY DEF StructureOK
<1>2. size \in Nat /\ domain \in Nat /\ domain <= MaxState + 1
  BY DEF StructureOK
<1>3. PICK h \in 0..size-1 : dense[h] = v
  BY DEF Contents
<1> DEFINE end == dense[size-1]
<1>4. /\ sparse[v] = h /\ v \in 0..n-1 /\ h \in 0..n-1
      /\ end \in 0..n-1 /\ sparse[end] = size-1
      /\ \A k \in 0..size-1 : k \in 0..n-1 /\ dense[k] \in 0..domain-1
  BY <1>1, <1>2, <1>3 DEF Indexed
<1>5. /\ dense' = [dense EXCEPT ![h] = end]
      /\ sparse' = [sparse EXCEPT ![end] = h]
      /\ size' = size - 1 /\ domain' = domain
  BY <1>4 DEF erase_nocheck
<1> HIDE DEF end
<1>6. StructureOK'
  <2>1. end \in State /\ h \in Nat
    BY <1>1, <1>4 DEF end
  <2>2. dense' \in [0..n-1 -> State] /\ sparse' \in [0..n-1 -> Nat]
    BY <1>1, <1>5, <2>1
  <2>3. size' \in Nat /\ domain' \in Lengths
    BY <1>2, <1>3, <1>5
  <2> QED BY <1>1, <1>5, <2>2, <2>3 DEF StructureOK
<1>7. \A k, l \in 0..size-1 : dense[k] = dense[l] => k = l
  BY IndexedFacts
<1>8. \A k \in 0..size-2 : dense'[k] = IF k = h THEN end ELSE dense[k]
  BY <1>1, <1>2, <1>4, <1>5
<1>9. \A k \in 0..size-2 : k # h => dense[k] # end
  BY <1>2, <1>7 DEF end
<1>10. Indexed'
  <2> SUFFICES ASSUME NEW k \in 0..size-2
               PROVE  dense'[k] < domain /\ sparse'[dense'[k]] = k
    BY <1>2, <1>5 DEF Indexed
  <2>1. CASE k = h
    BY <1>1, <1>2, <1>4, <1>5, <1>8, <2>1 DEF Indexed, end
  <2>2. CASE k # h
    <3>1. dense'[k] = dense[k] /\ dense[k] # end /\ k \in 0..size-1
      BY <1>2, <1>8, <1>9, <2>2
    <3>2. sparse'[dense[k]] = sparse[dense[k]]
      BY <1>1, <1>4, <1>5, <3>1
    <3> QED BY <3>1, <3>2 DEF Indexed
  <2> QED BY <2>1, <2>2
<1>11. Contents' = Contents \ {v}
  <2>1. Contents' = {dense'[k] : k \in 0..size-2}
    BY <1>2, <1>5 DEF Contents
  <2>2. ASSUME NEW k \in 0..size-2
        PROVE  dense'[k] \in Contents \ {v}
    <3>1. CASE k = h
      BY <1>2, <1>3, <1>7, <1>8, <3>1 DEF Contents, end
    <3>2. CASE k # h
      BY <1>2, <1>3, <1>7, <1>8, <3>2 DEF Contents
    <3> QED BY <3>1, <3>2
  <2>3. ASSUME NEW l \in 0..size-1, dense[l] # v
        PROVE  \E k \in 0..size-2 : dense'[k] = dense[l]
    <3>1. CASE l = size-1
      BY <1>2, <1>3, <1>8, <2>3, <3>1 DEF end
    <3>2. CASE l # size-1
      BY <1>2, <1>3, <1>8, <2>3, <3>2
    <3> QED BY <3>1, <3>2
  <2>4. ASSUME NEW x \in Contents \ {v}
        PROVE  x \in Contents'
    BY <2>1, <2>3 DEF Contents
  <2> QED BY <2>1, <2>2, <2>4
<1>12. \A k \in 0..size-1 : dense[k] # v /\ k # size-1 => dense'[k] = dense[k]
  BY <1>2, <1>3, <1>8
<1> QED
  BY <1>2, <1>5, <1>6, <1>10, <1>11, <1>12

-----------------------------------------------------------------------------
AllBelow == StructureOK /\ size <= domain /\ \A k \in 0..size-1 : dense[k] < domain

(* consistent() is what the types and the element bounds say together.     *)
LEMMA ConsistentFollows == AllBelow => consistent
BY DEF AllBelow, StructureOK, consistent, Contents, Lengths

\* What has to be shown of a state between two calls, and inside the loops
\* of complement() and filter().
Sound == StructureOK /\ CallOK /\ size <= domain /\ Indexed
Idle == Sound /\ loop = "idle"
Looping == Sound /\ loop \in {"toggle", "filter"} /\ ToggleInv /\ FilterInv

(* The invariant between two calls, and what it takes to establish it.     *)
LEMMA IdleInv ==
  /\ IInv /\ loop # "rename" => Sound
  /\ IInv => StructureOK /\ CallOK /\ size <= domain
  /\ Idle => IInv
<1>1. IInv => StructureOK /\ CallOK /\ size <= domain
  BY DEF IInv, TypeOK, consistent, StructureOK, Lengths
<1>2. IInv /\ loop # "rename" => Sound
  BY <1>1 DEF IInv, IndexesElements, Indexed, Sound
<1>3. ASSUME Idle
      PROVE  IInv
  <2>1. consistent
    BY <1>3, ConsistentFollows DEF AllBelow, Indexed, Idle, Sound
  <2> QED BY <1>3, <2>1 DEF IInv, TypeOK, IndexesElements, Indexed, Idle, Sound,
                            ToggleInv, FilterInv, RenameInv
<1> QED BY <1>1, <1>2, <1>3

(* The same while complement() or filter() runs.                           *)
LEMMA LoopInv == Looping => IInv
<1> SUFFICES ASSUME Looping PROVE IInv
  OBVIOUS
<1>1. consistent
  BY ConsistentFollows DEF AllBelow, Indexed, Looping, Sound
<1> QED BY <1>1 DEF IInv, TypeOK, IndexesElements, Indexed, RenameInv, Looping, Sound

(* A new instance is in order.                                             *)
LEMMA InitHolds == Init => IInv
<1> SUFFICES ASSUME Init PROVE IInv
  OBVIOUS
<1> USE MaxStateAssumption DEF Init, State, Lengths
<1>1. StructureOK
  <2> PICK n \in Lengths : /\ dense = [k \in 0..n-1 |-> 0]
                           /\ sparse = [k \in 0..n-1 |-> 0]
                           /\ domain = n
    OBVIOUS
  <2> QED BY DEF StructureOK
<1>2. CallOK
  BY DEF CallOK, Identity
<1>3. size <= domain /\ Indexed
  BY DEF Indexed
<1> QED BY <1>1, <1>2, <1>3, IdleInv DEF Idle, Sound

(* insert(), erase(), clear(), reserve(), sort(), truncate() and the moved-*)
(* from set keep the structure well formed.                                *)
LEMMA OneShotHolds ==
  ASSUME IInv, loop = "idle",
         \/ \E v \in State : Insert(v) \/ Erase(v)
         \/ \E u \in Lengths : Reserve(u)
         \/ Clear \/ Sort \/ Truncate \/ MoveOut
  PROVE  IInv'
<1> USE MaxStateAssumption DEF State, Lengths
<1>1. StructureOK /\ CallOK /\ size <= domain /\ Indexed
  BY IdleInv DEF Sound
<1>2. loop' = "idle" /\ CallOK'
  <2>1. UNCHANGED call
    BY DEF Insert, Erase, Reserve, Clear, Sort, Truncate, MoveOut
  <2> QED BY <1>1, <2>1 DEF call, CallOK
<1> SUFFICES StructureOK' /\ size' <= domain' /\ Indexed'
  <2>1. Idle' => IInv'
    BY IdleInv, PTL
  <2> QED BY <1>2, <2>1 DEF Idle, Sound
<1>3. PICK n \in Lengths : /\ domain <= n
                           /\ dense \in [0..n-1 -> State]
                           /\ sparse \in [0..n-1 -> Nat]
  BY <1>1 DEF StructureOK
<1>4. size \in Nat /\ domain \in Nat /\ domain <= MaxState + 1
  BY <1>1 DEF StructureOK
<1>5. ASSUME NEW v \in State, Insert(v)
      PROVE  StructureOK' /\ size' <= domain' /\ Indexed'
  <2>1. CASE contains(v)
    BY <1>1, <1>5, <2>1, Unchanged DEF Insert
  <2>2. CASE ~contains(v)
    BY <1>1, <1>5, <2>2, IndexedFacts, InsertAdds DEF Insert
  <2> QED BY <2>1, <2>2
<1>6. ASSUME NEW v \in State, Erase(v)
      PROVE  StructureOK' /\ size' <= domain' /\ Indexed'
  <2>1. CASE contains(v)
    BY <1>1, <1>6, <2>1, IndexedFacts, EraseRemoves DEF Erase, EraseOrSkip
  <2>2. CASE ~contains(v)
    BY <1>1, <1>6, <2>2, Unchanged DEF Erase, EraseOrSkip
  <2> QED BY <2>1, <2>2
<1>7. ASSUME NEW u \in Lengths, Reserve(u)
      PROVE  StructureOK' /\ size' <= domain' /\ Indexed'
  <2> DEFINE m == IF u > domain THEN u ELSE n
  <2>1. /\ m \in Lengths /\ domain' <= m /\ domain <= domain' /\ size' = size
        /\ domain' \in Lengths
        /\ dense' \in [0..m-1 -> State] /\ sparse' \in [0..m-1 -> Nat]
        /\ \A k \in 0..domain-1 : dense'[k] = dense[k] /\ sparse'[k] = sparse[k]
    BY <1>3, <1>4, <1>7 DEF Reserve, reserved, resize, Larger
  <2>2. StructureOK'
    BY <1>4, <2>1 DEF StructureOK
  <2>3. Indexed'
    <3> SUFFICES ASSUME NEW k \in 0..size-1
                 PROVE  dense'[k] < domain' /\ sparse'[dense'[k]] = k
      BY <2>1 DEF Indexed
    <3>1. k \in 0..domain-1 /\ dense[k] \in 0..domain-1
      BY <1>1, <1>3, <1>4 DEF Indexed
    <3>2. dense'[k] = dense[k] /\ sparse'[dense[k]] = sparse[dense[k]]
      BY <2>1, <3>1
    <3>3. sparse[dense[k]] = k
      BY <1>1 DEF Indexed
    <3> QED BY <1>4, <2>1, <3>1, <3>2, <3>3
  <2> QED BY <1>1, <1>4, <2>1, <2>2, <2>3
<1>8. ASSUME Clear
      PROVE  StructureOK' /\ size' <= domain' /\ Indexed'
  <2>1. size' = 0 /\ domain' = domain /\ dense' = dense /\ sparse' = sparse
    BY <1>8 DEF Clear
  <2>2. StructureOK'
    <3>1. domain \in Lengths
      BY <1>4
    <3> QED BY <1>3, <2>1, <3>1, StructureNext
  <2> QED BY <1>4, <2>1, <2>2 DEF Indexed
<1>9. ASSUME Sort
      PROVE  StructureOK' /\ size' <= domain' /\ Indexed'
  <2>1. PICK sorted \in [DOMAIN dense -> State] :
          /\ {sorted[k] : k \in 0..size-1} = Contents
          /\ \A k, l \in 0..size-1 : k < l => sorted[k] < sorted[l]
          /\ dense' = sorted
          /\ sparse' = [x \in DOMAIN sparse |->
                          IF x \in Contents
                          THEN CHOOSE k \in 0..size-1 : sorted[k] = x
                          ELSE sparse[x]]
    BY <1>9 DEF Sort
  <2>2. \A x \in Contents : /\ x \in 0..domain-1
                            /\ \E k \in 0..size-1 : sorted[k] = x
    <3> SUFFICES ASSUME NEW x \in Contents
                 PROVE  x \in 0..domain-1 /\ \E k \in 0..size-1 : sorted[k] = x
      OBVIOUS
    <3>1. PICK k \in 0..size-1 : x = dense[k]
      BY DEF Contents
    <3>2. k \in 0..n-1 /\ x \in State /\ x < domain
      BY <1>1, <1>3, <1>4, <3>1 DEF Indexed
    <3> QED BY <1>4, <2>1, <3>2
  <2>3. /\ dense' \in [0..n-1 -> State] /\ sparse' \in [0..n-1 -> Nat]
        /\ \A x \in Contents : sparse'[x] \in 0..size-1 /\ sorted[sparse'[x]] = x
    <3>1. DOMAIN dense = 0..n-1 /\ DOMAIN sparse = 0..n-1
      BY <1>3
    <3>2. \A x \in Contents :
            LET k == CHOOSE k \in 0..size-1 : sorted[k] = x
            IN  k \in 0..size-1 /\ sorted[k] = x
      BY <2>2
    <3>3. \A x \in Contents : x \in 0..n-1
      BY <1>3, <1>4, <2>2
    <3>4. ASSUME NEW x \in 0..n-1
          PROVE  sparse'[x] \in Nat
      <4>1. CASE x \in Contents
        BY <2>1, <3>1, <3>2, <4>1
      <4>2. CASE x \notin Contents
        BY <1>3, <2>1, <3>1, <4>2
      <4> QED BY <4>1, <4>2
    <3> QED BY <1>3, <2>1, <3>1, <3>2, <3>3, <3>4
  <2>4. size' = size /\ domain' = domain
    BY <1>9 DEF Sort
  <2>5. StructureOK'
    <3>1. domain \in Lengths
      BY <1>4
    <3> QED BY <1>3, <1>4, <2>3, <2>4, <3>1, StructureNext
  <2>6. Indexed'
    <3> SUFFICES ASSUME NEW k \in 0..size-1
                 PROVE  dense'[k] < domain /\ sparse'[dense'[k]] = k
      BY <2>4 DEF Indexed
    <3>1. sorted[k] \in Contents
      BY <2>1
    <3>2. sparse'[sorted[k]] \in 0..size-1 /\ sorted[sparse'[sorted[k]]] = sorted[k]
      BY <2>3, <3>1
    <3>3. \A l \in 0..size-1 : sorted[l] \in Nat
      BY <1>3, <1>4, <2>1, <2>2
    <3>4. sparse'[sorted[k]] = k
      BY <1>4, <2>1, <3>2, <3>3
    <3> QED BY <1>4, <2>1, <2>2, <3>1, <3>4
  <2> QED BY <1>1, <2>4, <2>5, <2>6
<1>10. ASSUME Truncate
       PROVE  StructureOK' /\ size' <= domain' /\ Indexed'
  <2>1. \A k \in 0..size-1 : dense[k] \in 0..domain-1
    BY <1>1, <1>3, <1>4 DEF Indexed
  <2>2. /\ domain' \in 0..domain
        /\ \A k \in 0..size-1 : dense[k] \in 0..domain'-1
    BY <1>4, <1>10, <2>1 DEF Truncate, Contents
  <2>3. \A k, l \in 0..size-1 : dense[k] = dense[l] => k = l
    BY <1>1, IndexedFacts
  <2>4. size <= domain'
    BY <1>4, <2>2, <2>3, Pigeonhole
  <2>5. UNCHANGED <<dense, sparse, size>>
    BY <1>10 DEF Truncate
  <2>6. StructureOK'
    <3>1. domain' \in Lengths /\ domain' <= n
      BY <1>3, <1>4, <2>2
    <3> QED BY <1>3, <1>4, <2>5, <3>1 DEF StructureOK
  <2> QED BY <1>1, <2>2, <2>4, <2>5, <2>6 DEF Indexed
<1>11. CASE MoveOut
  <2>1. size' = 0 /\ domain' = 0 /\ dense' = << >> /\ sparse' = << >>
    BY <1>11 DEF MoveOut
  <2>2. << >> \in [0..0-1 -> State] /\ << >> \in [0..0-1 -> Nat]
    OBVIOUS
  <2>3. StructureOK'
    BY <2>1, <2>2 DEF StructureOK
  <2> QED BY <2>1, <2>3 DEF Indexed
<1> QED
  BY <1>5, <1>6, <1>7, <1>8, <1>9, <1>10, <1>11

-----------------------------------------------------------------------------
\* complement() and filter() start and stop.
LEMMA CallsHold ==
  ASSUME IInv,
         \/ \E n \in Lengths : ComplementCall(n)
         \/ \E P \in SUBSET State : FilterCall(P)
         \/ ComplementReturn \/ FilterReturn
  PROVE  IInv'
<1> USE MaxStateAssumption DEF State, Lengths
<1>1. Sound
  BY IdleInv DEF ComplementCall, FilterCall, ComplementReturn, FilterReturn
<1>2. UNCHANGED structure
  BY DEF ComplementCall, FilterCall, ComplementReturn, FilterReturn
<1>3. StructureOK' /\ size' <= domain' /\ Indexed' /\ Contents' = Contents
  BY <1>1, <1>2, Unchanged DEF Sound
<1>4. Looping' => IInv'
  BY LoopInv, PTL
<1>5. Idle' => IInv'
  BY IdleInv, PTL
<1>6. \A x \in Contents : x \in State /\ x < domain
  BY <1>1 DEF Contents, Sound, StructureOK, Indexed
<1>7. size \in Nat /\ domain \in Lengths
  BY <1>1 DEF Sound, StructureOK
<1>8. ASSUME NEW n \in Lengths, ComplementCall(n)
      PROVE  IInv'
  <2>1. CallOK'
    BY <1>1, <1>6, <1>7, <1>8 DEF ComplementCall, CallOK, Sound
  <2>2. Contents = (Contents \ (0..0-1)) \cup ((0..Smaller(0, n)-1) \ Contents)
    BY DEF Smaller
  <2>3. ToggleInv'
    <3>1. domain = Larger(domain, Smaller(0, n)) /\ 0 <= Larger(n, domain)
      BY <1>7 DEF Larger, Smaller
    <3>2. /\ at' = 0 /\ limit' = n /\ old_domain' = domain /\ before' = Contents
          /\ domain' = domain
      BY <1>8 DEF ComplementCall, structure
    <3> QED BY ONLY <1>3, <1>6, <2>2, <3>1, <3>2 DEF ToggleInv
  <2>4. FilterInv' /\ loop' = "toggle"
    BY <1>8 DEF ComplementCall, FilterInv
  <2> QED BY <1>3, <1>4, <2>1, <2>3, <2>4 DEF Looping, Sound
<1>9. ASSUME NEW P \in SUBSET State, FilterCall(P)
      PROVE  IInv'
  <2>1. CallOK'
    BY <1>1, <1>6, <1>7, <1>9 DEF FilterCall, CallOK, Sound
  <2>2. FilterInv' /\ ToggleInv' /\ loop' = "filter"
    BY <1>3, <1>7, <1>9 DEF FilterCall, FilterInv, ToggleInv, structure
  <2> QED BY <1>3, <1>4, <2>1, <2>2 DEF Looping, Sound
<1>10. CASE ComplementReturn \/ FilterReturn
  <2>1. loop' = "idle" /\ CallOK'
    BY <1>10 DEF ComplementReturn, FilterReturn, LoopReturn, CallOK, Identity
  <2> QED BY <1>3, <1>5, <2>1 DEF Idle, Sound
<1> QED BY <1>8, <1>9, <1>10

\* One iteration of complement()'s loops: number at changes sides.
LEMMA ComplementHolds ==
  ASSUME IInv, ComplementToggle \/ ComplementErase
  PROVE  IInv'
<1> USE MaxStateAssumption DEF State, Lengths
<1>1. loop = "toggle" /\ Sound /\ ToggleInv
  BY IdleInv DEF ComplementToggle, ComplementErase, IInv
<1>2. /\ size \in Nat /\ domain \in Lengths /\ at \in Nat
      /\ limit \in Lengths /\ old_domain \in Lengths
      /\ before \in SUBSET Nat
  BY <1>1 DEF Sound, StructureOK, CallOK
<1>3. /\ at' = at + 1 /\ loop' = "toggle"
      /\ UNCHANGED <<limit, old_domain, keep, renaming, before>>
      /\ at < Larger(limit, old_domain)
  BY <1>1, <1>2 DEF ComplementToggle, ComplementErase, Larger
<1>4. at \in State
  BY <1>2, <1>3 DEF Larger
<1> DEFINE toggled(n) == (before \ (0..n-1)) \cup ((0..Smaller(n, limit)-1) \ before)
<1>5. Contents = toggled(at) /\ domain = Larger(old_domain, Smaller(at, limit))
  BY <1>1 DEF ToggleInv
<1>6. /\ StructureOK' /\ Indexed' /\ size' <= domain'
      /\ Contents' = toggled(at+1)
      /\ domain' = Larger(old_domain, Smaller(at+1, limit))
  <2>1. CASE at < limit /\ at \in Contents
    <3>1. erase_nocheck(at)
      BY <1>1, <1>2, <1>3, <1>4, <2>1, IndexedFacts
         DEF ComplementToggle, ComplementErase, Sound
    <3>2. at \in before
      BY <1>2, <1>5, <2>1 DEF Smaller
    <3>3. toggled(at+1) = toggled(at) \ {at}
      BY <1>2, <2>1, <3>2 DEF Smaller
    <3>4. Larger(old_domain, Smaller(at+1, limit)) = domain
      BY <1>1, <1>2, <1>5, <2>1, <3>2 DEF ToggleInv, Larger, Smaller
    <3> QED BY <1>1, <1>5, <2>1, <3>1, <3>3, <3>4, EraseRemoves DEF Sound
  <2>2. CASE at < limit /\ at \notin Contents
    <3>1. InsertNew(at)
      BY <1>1, <1>2, <1>3, <1>4, <2>2, IndexedFacts
         DEF ComplementToggle, ComplementErase, Sound
    <3>2. at \notin before
      BY <1>2, <1>5, <2>2
    <3>3. toggled(at+1) = toggled(at) \cup {at}
      BY <1>2, <2>2, <3>2 DEF Smaller
    <3>4. Larger(old_domain, Smaller(at+1, limit)) = Larger(domain, at+1)
      BY <1>2, <1>5, <2>2 DEF Larger, Smaller
    <3> QED BY <1>1, <1>4, <1>5, <2>2, <3>1, <3>3, <3>4, InsertAdds DEF Sound
  <2>3. CASE ~(at < limit)
    <3>1. EraseOrSkip(at)
      BY <1>2, <2>3 DEF ComplementToggle, ComplementErase
    <3>2. toggled(at+1) = toggled(at) \ {at}
      BY <1>2, <2>3 DEF Smaller
    <3>3. Larger(old_domain, Smaller(at+1, limit)) = domain
      BY <1>2, <1>5, <2>3 DEF Smaller
    <3>4. CASE contains(at)
      BY <1>1, <1>4, <1>5, <3>1, <3>2, <3>3, <3>4, IndexedFacts, EraseRemoves
         DEF Sound, EraseOrSkip
    <3>5. CASE ~contains(at)
      <4>1. UNCHANGED structure /\ at \notin Contents
        BY <1>1, <1>4, <3>1, <3>5, IndexedFacts DEF Sound, EraseOrSkip
      <4> QED BY <1>1, <1>5, <3>2, <3>3, <4>1, Unchanged DEF Sound, structure
    <3> QED BY <3>4, <3>5
  <2> QED BY <2>1, <2>2, <2>3
<1>7. CallOK'
  BY <1>1, <1>2, <1>3 DEF CallOK, Sound
<1>8. ToggleInv'
  <2>1. at+1 <= Larger(limit, old_domain)
    BY <1>2, <1>3 DEF Larger
  <2> QED BY <1>1, <1>3, <1>6, <2>1 DEF ToggleInv
<1>9. Looping' => IInv'
  BY LoopInv, PTL
<1> QED BY <1>3, <1>6, <1>7, <1>8, <1>9 DEF Looping, Sound, FilterInv

\* One iteration of filter(): a rejected element goes or an accepted one stays.
LEMMA FilterHolds ==
  ASSUME IInv, FilterErase \/ FilterAdvance
  PROVE  IInv'
<1> USE MaxStateAssumption DEF State, Lengths
<1>1. loop = "filter" /\ Sound /\ FilterInv
  BY IdleInv DEF FilterErase, FilterAdvance, IInv
<1>2. size \in Nat /\ domain \in Lengths /\ at \in Nat /\ at < size
  BY <1>1 DEF Sound, StructureOK, CallOK, FilterErase, FilterAdvance
<1>3. Looping' => IInv'
  BY LoopInv, PTL
<1>4. dense[at] \in Contents /\ \A x \in Contents : x \in State
  BY <1>1, <1>2 DEF Contents, Sound, StructureOK, Indexed
<1>5. ASSUME FilterErase
      PROVE  IInv'
  <2>1. erase_nocheck(dense[at])
    BY <1>1, <1>4, <1>5, IndexedFacts DEF FilterErase, EraseOrSkip, Sound
  <2>2. /\ StructureOK' /\ Indexed' /\ size' <= domain'
        /\ Contents' = Contents \ {dense[at]}
        /\ size' = size - 1 /\ domain' = domain
        /\ \A k \in 0..size-1 : dense[k] # dense[at] /\ k # size-1 => dense'[k] = dense[k]
    BY <1>1, <1>4, <2>1, EraseRemoves DEF Sound
  <2>3. UNCHANGED call /\ dense[at] \notin keep
    BY <1>5 DEF FilterErase
  <2>4. CallOK' /\ loop' = "filter"
    BY <1>1, <2>3 DEF CallOK, call, Sound
  <2>5. \A k \in 0..at-1 : dense'[k] \in keep
    BY <1>1, <1>2, <2>2, <2>3 DEF FilterInv
  <2>6. FilterInv'
    BY <1>1, <1>2, <2>2, <2>3, <2>5 DEF FilterInv, call
  <2> QED BY <1>3, <2>2, <2>4, <2>6 DEF Looping, Sound, ToggleInv
<1>6. ASSUME FilterAdvance
      PROVE  IInv'
  <2>1. UNCHANGED structure
    BY <1>6 DEF FilterAdvance
  <2>2. StructureOK' /\ size' <= domain' /\ Indexed' /\ Contents' = Contents
    BY <1>1, <2>1, Unchanged DEF Sound
  <2>3. CallOK' /\ loop' = "filter"
    BY <1>1, <1>2, <1>6 DEF CallOK, Sound, FilterAdvance
  <2>4. FilterInv'
    <3>1. \A k \in 0..(at+1)-1 : dense[k] \in keep
      BY <1>1, <1>2, <1>6 DEF FilterInv, FilterAdvance
    <3>2. /\ at' = at+1 /\ dense' = dense /\ size' = size /\ domain' = domain
          /\ UNCHANGED <<keep, before, old_domain>>
      BY <1>6, <2>1 DEF FilterAdvance, structure
    <3> QED BY <1>1, <1>2, <2>2, <3>1, <3>2 DEF FilterInv
  <2> QED BY <1>3, <2>2, <2>3, <2>4 DEF Looping, Sound, ToggleInv
<1> QED BY <1>5, <1>6

-----------------------------------------------------------------------------
\* rename() starts in an indexed structure.
LEMMA RenameCallHolds ==
  ASSUME IInv, NEW f \in [State -> State], RenameCall(f)
  PROVE  IInv'
<1> USE MaxStateAssumption DEF State, Lengths
<1>1. Sound
  BY IdleInv DEF RenameCall
<1>2. /\ UNCHANGED structure /\ loop' = "rename" /\ at' = 0 /\ renaming' = f
      /\ old_domain' = domain /\ before' = Contents /\ limit' = limit /\ keep' = keep
      /\ \A x, y \in Contents : f[x] = f[y] => x = y
  BY DEF RenameCall
<1>3. StructureOK' /\ size' <= domain' /\ Indexed' /\ Contents' = Contents
  BY <1>1, <1>2, Unchanged DEF Sound
<1>4. \A x \in Contents : x \in State /\ x < domain
  BY <1>1 DEF Contents, Sound, StructureOK, Indexed
<1>5. size \in Nat /\ domain \in Lengths
  BY <1>1 DEF Sound, StructureOK
<1>6. CallOK'
  BY <1>1, <1>2, <1>4, <1>5 DEF CallOK, Sound
<1>7. consistent'
  <2>1. consistent
    BY <1>1, ConsistentFollows DEF AllBelow, Indexed, Sound
  <2> QED BY <1>2, <1>3, <2>1 DEF consistent, structure
<1>8. RenameInv'
  <2>1. /\ 0 <= size /\ domain <= domain
        /\ \A k \in 0..size-1 : dense[k] < domain /\ dense[k] \in Contents
        /\ \A k \in 0..size-1 : sparse[dense[k]] = k
        /\ \A k, l \in 0..size-1 : dense[k] = dense[l] => k = l
        /\ \A k \in 0..0-1 : FALSE
    <3>1. \A k, l \in 0..size-1 : dense[k] = dense[l] => k = l
      BY <1>1, IndexedFacts DEF Sound
    <3>2. \A k \in 0..size-1 : dense[k] < domain /\ sparse[dense[k]] = k
      BY <1>1 DEF Sound, Indexed
    <3>3. \A k \in 0..size-1 : dense[k] \in Contents
      BY DEF Contents
    <3> QED BY <1>5, <3>1, <3>2, <3>3
  <2>2. {f[x] : x \in Contents} =
          {dense[k] : k \in 0..0-1} \cup {f[dense[k]] : k \in 0..size-1}
    BY DEF Contents
  <2>3. /\ dense' = dense /\ sparse' = sparse /\ size' = size /\ domain' = domain
    BY <1>2 DEF structure
  <2> QED BY ONLY <1>2, <1>4, <2>1, <2>2, <2>3 DEF RenameInv
<1> QED BY <1>2, <1>3, <1>6, <1>7, <1>8
        DEF IInv, TypeOK, IndexesElements, ToggleInv, FilterInv

\* One iteration of rename(): position at gets its new number.
LEMMA RenameElementHolds ==
  ASSUME IInv, RenameElement
  PROVE  IInv'
<1> USE MaxStateAssumption DEF State, Lengths
<1>1. StructureOK /\ CallOK /\ size <= domain /\ RenameInv /\ loop = "rename"
  BY IdleInv DEF RenameElement, IInv
<1>2. PICK n \in Lengths : /\ domain <= n
                           /\ dense \in [0..n-1 -> State]
                           /\ sparse \in [0..n-1 -> Nat]
  BY <1>1 DEF StructureOK
<1>3. /\ size \in Nat /\ domain \in Lengths /\ at \in Nat /\ at < size
      /\ old_domain \in Lengths /\ renaming \in [State -> State]
  BY <1>1 DEF StructureOK, CallOK, RenameElement
<1> DEFINE old == dense[at]
           new == renaming[old]
\* The parts of RenameInv, to be cited one by one.
<1>r1. \A k \in 0..size-1 : dense[k] < domain
  BY <1>1 DEF RenameInv
<1>r2. \A k \in 0..at-1 : sparse[dense[k]] = k
  BY <1>1 DEF RenameInv
<1>r3. \A k \in at..size-1 :
         /\ dense[k] \in before
         /\ renaming[dense[k]] = dense[k] => sparse[dense[k]] = k
         /\ \A l \in 0..at-1 : dense[l] # renaming[dense[k]]
         /\ \A l \in at..size-1 : dense[k] = dense[l] => k = l
  BY <1>1 DEF RenameInv
<1>r4. \A x, y \in before : renaming[x] = renaming[y] => x = y
  BY <1>1 DEF RenameInv
<1>r5. domain = old_domain \/ \E k \in 0..at-1 : domain = dense[k] + 1
  BY <1>1 DEF RenameInv
<1>r6. \A k \in 0..size-1 : k \in 0..n-1 /\ dense[k] \in 0..domain-1 /\ dense[k] \in State
  BY <1>1, <1>2, <1>3, <1>r1
<1>r7. at \in 0..size-1 /\ at \in at..size-1
  BY <1>3
<1>4. old \in 0..domain-1 /\ old \in 0..n-1 /\ new \in State /\ at \in 0..n-1
  <2>1. old \in State /\ old \in 0..domain-1 /\ at \in 0..n-1
    BY <1>r6, <1>r7
  <2>2. new \in State
    BY <1>3, <2>1
  <2> QED BY <1>2, <1>3, <2>1, <2>2
<1> DEFINE m == IF new+1 > domain THEN new+1 ELSE n
<1> HIDE DEF new, old
<1>m. /\ \/ new+1 > domain /\ m = new+1
         \/ new+1 <= domain /\ m = n
      /\ new \in Nat /\ new+1 <= MaxState+1
  BY <1>3, <1>4
<1>a. /\ MaxState \in Nat /\ n \in Nat /\ m \in Nat /\ domain \in Nat
      /\ domain <= n /\ domain <= m /\ n <= MaxState+1 /\ m <= MaxState+1
      /\ size \in Nat /\ size <= domain /\ at \in Nat /\ at < size /\ new+1 <= m
  BY <1>1, <1>2, <1>3, <1>m
<1> HIDE DEF m
<1>5. /\ at' = at+1 /\ loop' = "rename" /\ size' = size
      /\ UNCHANGED <<limit, old_domain, keep, renaming, before>>
  BY <1>1 DEF RenameElement, structure
\* Either branch leaves the same picture behind.
<1>6. /\ m \in Lengths /\ domain' <= m /\ domain' \in Lengths
      /\ domain <= domain' /\ new < domain'
      /\ domain' = domain \/ domain' = new+1
      /\ dense' \in [0..m-1 -> State] /\ sparse' \in [0..m-1 -> Nat]
      /\ dense'[at] = new /\ sparse'[new] = at
      /\ \A k \in 0..size-1 : k # at => dense'[k] = dense[k]
      /\ \A x \in 0..domain-1 : x # new => sparse'[x] = sparse[x]
  <2>1. CASE old = new
    <3>1. UNCHANGED structure
      BY <2>1 DEF RenameElement, old, new
    <3>2. sparse[new] = at /\ dense[at] = new
      BY <1>r3, <1>r7, <2>1 DEF old, new
    <3>3. m = n
      BY <1>3, <1>4, <1>m, <2>1
    <3>4. dense' = dense /\ sparse' = sparse /\ size' = size /\ domain' = domain
      BY <3>1 DEF structure
    <3>5. new < domain /\ dense' \in [0..m-1 -> State] /\ sparse' \in [0..m-1 -> Nat]
      <4>1. new < domain
        BY <1>3, <1>4, <2>1
      <4>2. dense' \in [0..m-1 -> State] /\ sparse' \in [0..m-1 -> Nat]
        BY <1>2, <3>3, <3>4
      <4> QED BY <4>1, <4>2
    <3> QED BY <1>a, <3>2, <3>4, <3>5
  <2>2. CASE old # new
    <3> DEFINE d == [dense EXCEPT ![at] = new]
               p == reserved(sparse, new+1)
    <3>1. /\ dense' = reserved(d, new+1)
          /\ sparse' = [p EXCEPT ![new] = at]
          /\ domain' = Larger(domain, new+1)
      BY <2>2 DEF RenameElement, old, new
    <3>2. /\ d \in [0..n-1 -> State] /\ d[at] = new
          /\ \A k \in 0..n-1 : k # at => d[k] = dense[k]
      BY <1>2, <1>4
    <3>3. /\ m \in Lengths /\ domain' <= m /\ domain' \in Lengths
          /\ domain <= domain' /\ new < domain'
          /\ domain' = domain \/ domain' = new+1
          /\ new \in 0..m-1
      BY <1>a, <1>m, <3>1 DEF Larger
    <3> HIDE DEF d
    <3>4. /\ dense' \in [0..m-1 -> State]
          /\ \A k \in 0..domain-1 : dense'[k] = d[k]
      <4>1. CASE new+1 > domain
        <5>1. dense' = [k \in 0..m-1 |-> IF k \in DOMAIN d THEN d[k] ELSE 0]
          BY <1>m, <3>1, <4>1, <1>3 DEF reserved, resize
        <5>2. DOMAIN d = 0..n-1 /\ \A k \in 0..n-1 : d[k] \in State
          BY <3>2
        <5>3. \A k \in 0..m-1 : dense'[k] \in State
          BY <1>a, <5>1, <5>2
        <5> QED BY <1>a, <5>1, <5>2, <5>3
      <4>2. CASE new+1 <= domain
        <5>1. dense' = d
          BY <1>3, <1>m, <3>1, <4>2 DEF reserved
        <5> QED BY <1>a, <1>m, <3>2, <4>2, <5>1
      <4> QED BY <1>m, <4>1, <4>2
    <3>5. /\ p \in [0..m-1 -> Nat]
          /\ \A x \in 0..domain-1 : p[x] = sparse[x]
      <4>1. CASE new+1 > domain
        <5>1. p = [k \in 0..m-1 |-> IF k \in 0..n-1 THEN sparse[k] ELSE 0]
          BY <1>2, <1>m, <1>a, <4>1 DEF reserved, resize
        <5> HIDE DEF p
        <5> QED BY <1>2, <1>a, <5>1
      <4>2. CASE new+1 <= domain
        BY <1>2, <1>m, <1>a, <4>2 DEF reserved
      <4> QED BY <1>m, <1>a, <4>1, <4>2
    <3> HIDE DEF p
    <3>6. /\ sparse' \in [0..m-1 -> Nat] /\ sparse'[new] = at
      BY <1>3, <3>1, <3>3, <3>5
    <3>7. ASSUME NEW x \in 0..domain-1, x # new
          PROVE  sparse'[x] = sparse[x]
      <4>1. x \in 0..m-1
        BY <1>3, <3>3
      <4> QED BY <3>1, <3>5, <3>7, <4>1
    <3>8. /\ dense'[at] = new
          /\ \A k \in 0..size-1 : k # at => dense'[k] = dense[k]
      <4>1. \A k \in 0..size-1 : k \in 0..domain-1
        BY <1>1, <1>3
      <4> QED BY <1>r6, <1>r7, <3>2, <3>4, <4>1
    <3> QED BY <3>3, <3>4, <3>6, <3>7, <3>8
  <2> QED BY <2>1, <2>2
<1>7. StructureOK' /\ CallOK' /\ size' <= domain'
  <2>1. StructureOK'
    BY <1>3, <1>5, <1>6, StructureNext
  <2>2. CallOK'
    BY <1>1, <1>3, <1>5 DEF CallOK
  <2> QED BY <1>1, <1>3, <1>5, <1>6, <2>1, <2>2
<1>8. RenameInv'
  <2>1. \A k \in 0..size-1 : dense'[k] < domain'
    <3> SUFFICES ASSUME NEW k \in 0..size-1 PROVE dense'[k] < domain'
      OBVIOUS
    <3>1. CASE k = at
      BY <1>6, <3>1
    <3>2. CASE k # at
      <4>1. dense'[k] = dense[k] /\ dense[k] \in 0..domain-1
        BY <1>6, <1>r6, <3>2
      <4> QED BY <1>6, <1>a, <4>1
    <3> QED BY <3>1, <3>2
  <2>2. ASSUME NEW k \in 0..at
        PROVE  sparse'[dense'[k]] = k
    <3>1. CASE k = at
      BY <1>6, <3>1
    <3>2. CASE k # at
      <4>1. dense'[k] = dense[k] /\ dense[k] \in 0..domain-1 /\ sparse[dense[k]] = k
        BY <1>3, <1>6, <1>r2, <1>r6, <3>2
      <4>2. dense[k] # new
        BY <1>3, <1>r3, <1>r7, <3>2 DEF old, new
      <4> QED BY <1>6, <4>1, <4>2
    <3> QED BY <3>1, <3>2
  <2>3. ASSUME NEW k \in at+1..size-1
        PROVE  /\ dense'[k] = dense[k] /\ dense[k] \in before /\ renaming[dense[k]] # new
               /\ renaming[dense[k]] = dense[k] => sparse'[dense[k]] = k
               /\ \A l \in 0..at : dense'[l] # renaming[dense[k]]
               /\ \A l \in at+1..size-1 : dense[k] = dense[l] => k = l
    <3>1. dense'[k] = dense[k] /\ dense[k] \in 0..domain-1
      <4>1. k \in 0..size-1 /\ k # at
        BY <1>3
      <4> QED BY <1>6, <1>r6, <4>1
    <3>2. dense[k] \in before /\ old \in before /\ dense[k] # old
      BY <1>3, <1>r3, <1>r7 DEF old
    <3>3. renaming[dense[k]] # new
      BY <1>r4, <3>2 DEF new
    <3>4. renaming[dense[k]] = dense[k] => sparse'[dense[k]] = k
      <4>1. renaming[dense[k]] = dense[k] => sparse[dense[k]] = k
        BY <1>3, <1>r3
      <4> QED BY <1>6, <3>1, <3>3, <4>1
    <3>5. ASSUME NEW l \in 0..at
          PROVE  dense'[l] # renaming[dense[k]]
      <4>1. CASE l = at
        BY <1>6, <3>3, <4>1
      <4>2. CASE l # at
        <5>1. l \in 0..at-1 /\ l \in 0..size-1 /\ k \in at..size-1
          BY <1>3, <4>2
        <5> QED BY <1>6, <1>r3, <4>2, <5>1
      <4> QED BY <4>1, <4>2
    <3>6. \A l \in at+1..size-1 : dense[k] = dense[l] => k = l
      BY <1>3, <1>r3
    <3> QED BY <3>1, <3>2, <3>3, <3>4, <3>5, <3>6
  <2>4. {renaming[x] : x \in before} =
          {dense'[k] : k \in 0..at} \cup {renaming[dense'[k]] : k \in at+1..size-1}
    <3>1. {dense'[k] : k \in 0..at} = {dense[k] : k \in 0..at-1} \cup {new}
      <4>1. 0..at = 0..at-1 \cup {at}
        BY <1>3
      <4>2. \A k \in 0..at-1 : dense'[k] = dense[k]
        BY <1>3, <1>6
      <4>3. {dense'[k] : k \in 0..at} = {dense'[k] : k \in 0..at-1} \cup {dense'[at]}
        BY <4>1
      <4>4. {dense'[k] : k \in 0..at-1} = {dense[k] : k \in 0..at-1}
        BY <4>2
      <4>5. dense'[at] = new
        BY <1>6
      <4> QED BY <4>3, <4>4, <4>5
    <3>2. {renaming[dense[k]] : k \in at..size-1} =
            {new} \cup {renaming[dense'[k]] : k \in at+1..size-1}
      <4>1. at..size-1 = {at} \cup (at+1..size-1)
        BY <1>3
      <4>2. {renaming[dense[k]] : k \in at..size-1} =
              {new} \cup {renaming[dense[k]] : k \in at+1..size-1}
        BY <4>1 DEF new, old
      <4> QED BY <2>3, <4>2
    <3>3. {renaming[x] : x \in before} =
            {dense[k] : k \in 0..at-1} \cup {renaming[dense[k]] : k \in at..size-1}
      BY <1>1 DEF RenameInv
    <3> QED BY <3>1, <3>2, <3>3
  <2>5. domain' = old_domain \/ \E k \in 0..at : domain' = dense'[k] + 1
    <3>1. CASE domain' = new+1
      BY <1>3, <1>6, <1>r7, <3>1
    <3>2. CASE domain' = domain
      <4>1. \A k \in 0..at-1 : k \in 0..at /\ dense'[k] = dense[k]
        BY <1>3, <1>6
      <4> QED BY <1>r5, <3>2, <4>1
    <3> QED BY <1>6, <3>1, <3>2
  <2>6. /\ at+1 <= size /\ old_domain <= domain'
        /\ \A x, y \in before : renaming[x] = renaming[y] => x = y
        /\ \A x \in before : x < old_domain
    <3>1. old_domain <= domain /\ \A x \in before : x < old_domain
      BY <1>1 DEF RenameInv
    <3> QED BY <1>3, <1>6, <1>r4, <3>1
  <2>7. (at+1)-1 = at
    BY <1>3
  <2>8. \A k \in 0..at'-1 : sparse'[dense'[k]] = k
    BY ONLY <1>5, <2>2, <2>7
  <2>9. \A k \in at'..size'-1 :
          /\ dense'[k] \in before'
          /\ renaming'[dense'[k]] = dense'[k] => sparse'[dense'[k]] = k
          /\ \A l \in 0..at'-1 : dense'[l] # renaming'[dense'[k]]
          /\ \A l \in at'..size'-1 : dense'[k] = dense'[l] => k = l
    BY ONLY <1>5, <2>3, <2>7
  <2>10. {renaming'[x] : x \in before'} =
           {dense'[k] : k \in 0..at'-1} \cup {renaming'[dense'[k]] : k \in at'..size'-1}
    BY ONLY <1>5, <2>4, <2>7
  <2>11. domain' = old_domain' \/ \E k \in 0..at'-1 : domain' = dense'[k] + 1
    BY ONLY <1>5, <2>5, <2>7
  <2> QED BY ONLY <1>5, <2>1, <2>6, <2>8, <2>9, <2>10, <2>11 DEF RenameInv
<1>9. consistent'
  <2>1. AllBelow'
    BY <1>5, <1>7, <1>8 DEF RenameInv, AllBelow
  <2>2. AllBelow' => consistent'
    BY ConsistentFollows, PTL
  <2> QED BY <1>7, <2>1, <2>2
<1> QED BY <1>5, <1>7, <1>8, <1>9
        DEF IInv, TypeOK, IndexesElements, ToggleInv, FilterInv

\* When rename() returns every element is indexed again.
LEMMA RenameReturnHolds ==
  ASSUME IInv, RenameReturn
  PROVE  IInv'
<1>1. StructureOK /\ CallOK /\ size <= domain /\ RenameInv /\ loop = "rename"
  BY IdleInv DEF RenameReturn, IInv
<1>2. Indexed /\ UNCHANGED structure
  BY <1>1 DEF RenameReturn, RenameInv, Indexed, StructureOK, CallOK
<1>3. StructureOK' /\ size' <= domain' /\ Indexed'
  BY <1>1, <1>2, Unchanged
<1>4. loop' = "idle" /\ CallOK'
  BY MaxStateAssumption
     DEF RenameReturn, LoopReturn, CallOK, Identity, Lengths, State
<1>5. Idle' => IInv'
  BY IdleInv, PTL
<1> QED BY <1>3, <1>4, <1>5 DEF Idle, Sound

-----------------------------------------------------------------------------
(* Every step preserves the invariant.                                     *)
LEMMA NextHolds == IInv /\ [Next]_vars => IInv'
<1> SUFFICES ASSUME IInv, [Next]_vars PROVE IInv'
  OBVIOUS
<1>1. CASE Call
  BY <1>1, OneShotHolds, CallsHold, RenameCallHolds
     DEF Call, Insert, Erase, Reserve, Clear, Sort, Truncate, MoveOut
<1>2. CASE Loop
  BY <1>2, CallsHold, ComplementHolds, FilterHolds, RenameElementHolds,
     RenameReturnHolds DEF Loop
<1>3. CASE UNCHANGED vars
  <2>1. UNCHANGED structure /\ UNCHANGED call
    BY <1>3 DEF vars
  <2>2. TypeOK' /\ IndexesElements'
    BY <2>1 DEF structure, call, IInv, TypeOK, StructureOK, CallOK, IndexesElements
  <2>3. consistent' /\ FilterInv'
    BY <2>1 DEF structure, call, IInv, consistent, Contents, FilterInv
  <2>4. ToggleInv'
    BY <2>1 DEF structure, call, IInv, Contents, ToggleInv
  <2>5. RenameInv'
    <3>1. RenameInv
      BY DEF IInv
    <3>2. /\ dense' = dense /\ sparse' = sparse /\ size' = size /\ domain' = domain
          /\ loop' = loop /\ at' = at /\ old_domain' = old_domain
          /\ renaming' = renaming /\ before' = before
      BY <2>1 DEF structure, call
    <3>3. {renaming'[x] : x \in before'} = {renaming[x] : x \in before}
      BY ONLY <3>2
    <3>4. {dense'[k] : k \in 0..at'-1} \cup {renaming'[dense'[k]] : k \in at'..size'-1}
            = {dense[k] : k \in 0..at-1} \cup {renaming[dense[k]] : k \in at..size-1}
      BY ONLY <3>2
    <3>5. loop = "rename" =>
            /\ at' <= size'
            /\ \A x, y \in before' : renaming'[x] = renaming'[y] => x = y
            /\ \A x \in before' : x < old_domain'
            /\ \A k \in 0..size'-1 : dense'[k] < domain'
            /\ \A k \in 0..at'-1 : sparse'[dense'[k]] = k
            /\ old_domain' <= domain'
            /\ domain' = old_domain' \/ \E k \in 0..at'-1 : domain' = dense'[k] + 1
      BY ONLY <3>1, <3>2 DEF RenameInv
    <3>6. loop = "rename" =>
            \A k \in at'..size'-1 :
              /\ dense'[k] \in before'
              /\ renaming'[dense'[k]] = dense'[k] => sparse'[dense'[k]] = k
              /\ \A l \in 0..at'-1 : dense'[l] # renaming'[dense'[k]]
              /\ \A l \in at'..size'-1 : dense'[k] = dense'[l] => k = l
      BY ONLY <3>1, <3>2 DEF RenameInv
    <3>7. loop = "rename" =>
            {renaming'[x] : x \in before'} =
              {dense'[k] : k \in 0..at'-1} \cup {renaming'[dense'[k]] : k \in at'..size'-1}
      BY ONLY <3>1, <3>3, <3>4 DEF RenameInv
    <3> QED BY ONLY <3>2, <3>5, <3>6, <3>7 DEF RenameInv
  <2> QED BY <2>2, <2>3, <2>4, <2>5 DEF IInv
<1> QED BY <1>1, <1>2, <1>3 DEF Next

\* What each loop has done to the contents when its condition fails.
LEMMA LoopResultFollows == IInv => LoopResult
<1> SUFFICES ASSUME IInv PROVE LoopResult
  OBVIOUS
<1> USE MaxStateAssumption DEF State, Lengths
<1>1. StructureOK /\ CallOK
  BY IdleInv
<1>2. /\ size \in Nat /\ at \in Nat /\ limit \in Nat /\ old_domain \in Nat
      /\ before \subseteq State
  BY <1>1 DEF StructureOK, CallOK
<1>3. ASSUME loop = "toggle", at >= Larger(limit, old_domain)
      PROVE  Contents = (0..limit-1) \ before
  <2>1. /\ \A x \in before : x < old_domain
        /\ Contents = (before \ (0..at-1)) \cup ((0..Smaller(at, limit)-1) \ before)
    BY <1>3 DEF IInv, ToggleInv
  <2>2. limit <= at /\ old_domain <= at
    BY <1>2, <1>3 DEF Larger
  <2>3. Smaller(at, limit) = limit
    BY <1>2, <2>2 DEF Smaller
  <2>4. before \ (0..at-1) = {}
    BY <1>2, <2>1, <2>2
  <2> QED BY <2>1, <2>3, <2>4
<1>4. ASSUME loop = "filter", at >= size
      PROVE  Contents = before \cap keep
  <2>1. /\ Contents \subseteq before /\ before \cap keep \subseteq Contents
        /\ \A k \in 0..at-1 : dense[k] \in keep
    BY <1>4 DEF IInv, FilterInv
  <2>2. Contents \subseteq keep
    BY <1>2, <1>4, <2>1 DEF Contents
  <2> QED BY <2>1, <2>2
<1>5. ASSUME loop = "rename", at >= size
      PROVE  Contents = {renaming[x] : x \in before}
  <2>1. /\ at <= size
        /\ {renaming[x] : x \in before} =
             {dense[k] : k \in 0..at-1} \cup {renaming[dense[k]] : k \in at..size-1}
    BY <1>5 DEF IInv, RenameInv
  <2>2. at = size /\ at..size-1 = {}
    BY <1>2, <1>5, <2>1
  <2> QED BY <2>1, <2>2 DEF Contents
<1> QED BY <1>3, <1>4, <1>5 DEF LoopResult

(* The inductive invariant holds.                                           *)
LEMMA IInvHolds == Spec => []IInv
BY InitHolds, NextHolds, PTL DEF Spec

(* For every MaxState: the types hold; outside rename() sparse points every *)
(* element at its own position and contains() tells exactly the elements,  *)
(* whatever earlier calls left in the vectors; and the set never outgrows  *)
(* its domain (the assertion the class makes at the end of each method).   *)
THEOREM Represented == Spec => [](TypeOK /\ Representation /\ consistent)
<1>1. IInv => TypeOK /\ Representation /\ consistent
  <2>1. SUFFICES ASSUME IInv PROVE TypeOK /\ Representation /\ consistent
    OBVIOUS
  <2>2. TypeOK /\ IndexesElements /\ consistent
    BY <2>1 DEF IInv
  <2>3. ASSUME loop # "rename" PROVE \A v \in State : contains(v) <=> v \in Contents
    <3>1. StructureOK /\ Indexed /\ size <= domain
      BY <2>1, <2>3, IdleInv DEF Sound
    <3> QED BY <3>1, IndexedFacts
  <2> QED BY <2>2, <2>3 DEF Representation
<1> QED BY <1>1, IInvHolds, PTL

(* The loops of complement, filter and rename end with the contents their  *)
(* caller asked for, although they swap and overwrite what they walk over. *)
THEOREM LoopsRight == Spec => []LoopResult
<1>1. IInv => LoopResult
  BY LoopResultFollows DEF IInv
<1> QED BY <1>1, IInvHolds, PTL

-----------------------------------------------------------------------------
(* The contract: what the structure shows changes as StateSet says.        *)

\* A step inside a call, or one that rearranges the vectors, shows nothing.
LEMMA Hidden ==
  ASSUME shown' = shown, shown_domain' = shown_domain
  PROVE  [Promise!Next]_(Promise!vars)
BY DEF Promise!vars

(* A new instance shows the empty set.                                     *)
LEMMA SetInitShown == Init => Promise!Init
<1> SUFFICES ASSUME Init PROVE Promise!Init
  OBVIOUS
<1> PICK n \in Lengths : domain = n
  BY DEF Init
<1>1. shown = {} /\ shown_domain = n
  BY DEF Init, shown, shown_domain, Contents
<1> QED BY <1>1 DEF Promise!Init, Lengths

(* A call that does its work in one step does what StateSet promises.      *)
LEMMA OneShotShown ==
  ASSUME IInv,
         \/ \E v \in State : Insert(v) \/ Erase(v)
         \/ \E u \in Lengths : Reserve(u)
         \/ Clear \/ Sort \/ Truncate \/ MoveOut
  PROVE  [Promise!Next]_(Promise!vars)
<1> USE MaxStateAssumption DEF State, Lengths
<1>1. loop = "idle" /\ UNCHANGED call
  BY DEF Insert, Erase, Reserve, Clear, Sort, Truncate, MoveOut
<1>2. Sound
  BY <1>1, IdleInv
<1>3. /\ shown = Contents /\ shown_domain = domain
      /\ shown' = Contents' /\ shown_domain' = domain'
  BY <1>1 DEF shown, shown_domain, call
<1>4. size \in Nat /\ domain \in Nat /\ domain <= MaxState+1
  BY <1>2 DEF Sound, StructureOK
<1>5. \A x \in Contents : x \in State /\ x < domain
  BY <1>2 DEF Contents, Sound, StructureOK, Indexed
<1>6. ASSUME NEW v \in State, Insert(v)
      PROVE  [Promise!Next]_(Promise!vars)
  <2>1. Contents' = Contents \cup {v} /\ domain' = Larger(domain, v+1)
    <3>1. CASE contains(v)
      <4>1. v \in Contents /\ UNCHANGED structure
        BY <1>2, <1>6, <3>1, IndexedFacts DEF Insert, Sound
      <4> QED BY <1>2, <1>4, <1>5, <4>1, Unchanged DEF structure, Larger, Sound
    <3>2. CASE ~contains(v)
      BY <1>2, <1>6, <3>2, IndexedFacts, InsertAdds DEF Insert, Sound
    <3> QED BY <3>1, <3>2
  <2>2. Promise!Insert(v)
    BY <1>3, <2>1 DEF Promise!Insert, Promise!Larger, Larger
  <2> QED BY <2>2 DEF Promise!Next, Promise!State
<1>7. ASSUME NEW v \in State, Erase(v)
      PROVE  [Promise!Next]_(Promise!vars)
  <2>1. Contents' = Contents \ {v} /\ domain' = domain
    <3>1. CASE contains(v)
      BY <1>2, <1>7, <3>1, IndexedFacts, EraseRemoves DEF Erase, EraseOrSkip, Sound
    <3>2. CASE ~contains(v)
      <4>1. v \notin Contents /\ UNCHANGED structure
        BY <1>2, <1>7, <3>2, IndexedFacts DEF Erase, EraseOrSkip, Sound
      <4> QED BY <1>2, <4>1, Unchanged DEF structure
    <3> QED BY <3>1, <3>2
  <2>2. Promise!Erase(v)
    BY <1>3, <2>1 DEF Promise!Erase
  <2> QED BY <2>2 DEF Promise!Next, Promise!State
<1>8. ASSUME NEW u \in Lengths, Reserve(u)
      PROVE  [Promise!Next]_(Promise!vars)
  <2>1. Contents' = Contents /\ domain' = Larger(domain, u)
    <3>1. PICK n \in Lengths : domain <= n /\ dense \in [0..n-1 -> State]
      BY <1>2 DEF Sound, StructureOK
    <3>2. size' = size /\ \A k \in 0..size-1 : dense'[k] = dense[k]
      BY <1>2, <1>4, <1>8, <3>1 DEF Reserve, reserved, resize, Sound
    <3> QED BY <1>8, <3>2 DEF Contents, Reserve
  <2>2. Promise!Reserve(u)
    BY <1>3, <2>1 DEF Promise!Reserve, Promise!Larger, Larger
  <2> QED BY <2>2 DEF Promise!Next
<1>9. CASE Clear
  <2>1. Promise!Clear
    BY <1>3, <1>9 DEF Promise!Clear, Clear, Contents
  <2> QED BY <2>1 DEF Promise!Next
<1>10. CASE Sort
  <2>1. Contents' = Contents /\ domain' = domain
    <3>1. PICK sorted \in [DOMAIN dense -> State] :
            {sorted[k] : k \in 0..size-1} = Contents /\ dense' = sorted
      BY <1>10 DEF Sort
    <3>2. size' = size /\ domain' = domain
      BY <1>10 DEF Sort
    <3> QED BY <3>1, <3>2 DEF Contents
  <2> QED BY <1>3, <2>1, Hidden
<1>11. CASE Truncate
  <2>1. Contents' = Contents
    BY <1>11 DEF Truncate, Contents
  <2>2. domain' \in 0..MaxState+1 /\ Promise!LeastDomain(0, Contents, domain')
    BY <1>5, <1>11 DEF Truncate, Promise!LeastDomain
  <2>3. Promise!Truncate
    BY <1>3, <2>1, <2>2 DEF Promise!Truncate
  <2> QED BY <2>3 DEF Promise!Next
<1>12. CASE MoveOut
  <2>1. Promise!MoveOut
    BY <1>3, <1>12 DEF Promise!MoveOut, MoveOut, Contents
  <2> QED BY <2>1 DEF Promise!Next
<1> QED BY <1>6, <1>7, <1>8, <1>9, <1>10, <1>11, <1>12

(* Within the loops of a call nothing is shown.                            *)
LEMMA LoopStepShown ==
  ASSUME IInv,
         \/ \E n \in Lengths : ComplementCall(n)
         \/ \E P \in SUBSET State : FilterCall(P)
         \/ \E f \in [State -> State] : RenameCall(f)
         \/ ComplementToggle \/ ComplementErase
         \/ FilterErase \/ FilterAdvance \/ RenameElement
  PROVE  [Promise!Next]_(Promise!vars)
<1>1. shown' = shown /\ shown_domain' = shown_domain
  <2>1. CASE \/ \E n \in Lengths : ComplementCall(n)
             \/ \E P \in SUBSET State : FilterCall(P)
             \/ \E f \in [State -> State] : RenameCall(f)
    BY <2>1 DEF ComplementCall, FilterCall, RenameCall, shown, shown_domain
  <2>2. CASE \/ ComplementToggle \/ ComplementErase
             \/ FilterErase \/ FilterAdvance \/ RenameElement
    BY <2>2 DEF ComplementToggle, ComplementErase, FilterErase, FilterAdvance,
                RenameElement, shown, shown_domain, call
  <2> QED BY <2>1, <2>2
<1> QED BY <1>1, Hidden

(* A call that loops shows its result, the one promised, when it returns.  *)
LEMMA ReturnShown ==
  ASSUME IInv, ComplementReturn \/ FilterReturn \/ RenameReturn
  PROVE  [Promise!Next]_(Promise!vars)
<1> USE MaxStateAssumption DEF State, Lengths
<1>1. /\ shown = before /\ shown_domain = old_domain
      /\ shown' = Contents /\ shown_domain' = domain
  BY DEF ComplementReturn, FilterReturn, RenameReturn, LoopReturn, structure,
         shown, shown_domain, Contents
<1>2. StructureOK /\ CallOK /\ size <= domain
  BY IdleInv
<1>3. /\ size \in Nat /\ domain \in Lengths /\ at \in Nat
      /\ limit \in Lengths /\ old_domain \in Lengths /\ before \subseteq State
      /\ keep \subseteq State /\ renaming \in [State -> State]
  BY <1>2 DEF StructureOK, CallOK
<1>4. ASSUME ComplementReturn
      PROVE  [Promise!Next]_(Promise!vars)
  <2>1. /\ limit <= at /\ old_domain <= at
        /\ domain = Larger(old_domain, Smaller(at, limit))
    BY <1>4 DEF ComplementReturn, IInv, ToggleInv
  <2>2. Smaller(at, limit) = limit
    BY <1>3, <2>1 DEF Smaller
  <2>3. Contents = (0..limit-1) \ before
    BY LoopResultFollows, <1>3, <1>4, <2>1 DEF ComplementReturn, LoopResult, Larger
  <2>4. Promise!Complement(limit)
    BY <1>1, <2>1, <2>2, <2>3 DEF Promise!Complement, Promise!Larger, Larger
  <2> QED BY <1>3, <2>4 DEF Promise!Next
<1>5. ASSUME FilterReturn
      PROVE  [Promise!Next]_(Promise!vars)
  <2>1. domain = old_domain /\ Contents = before \cap keep
    BY LoopResultFollows, <1>5 DEF FilterReturn, IInv, FilterInv, LoopResult
  <2>2. Promise!Filter(keep)
    BY <1>1, <2>1 DEF Promise!Filter
  <2> QED BY <1>3, <2>2 DEF Promise!Next, Promise!State
<1>6. ASSUME RenameReturn
      PROVE  [Promise!Next]_(Promise!vars)
  <2>1. RenameInv /\ loop = "rename" /\ at >= size
    BY <1>6 DEF RenameReturn, IInv
  <2>2. /\ at = size
        /\ \A x, y \in before : renaming[x] = renaming[y] => x = y
        /\ \A k \in 0..size-1 : dense[k] < domain
        /\ old_domain <= domain
        /\ domain = old_domain \/ \E k \in 0..size-1 : domain = dense[k] + 1
    <3>1. /\ at <= size
          /\ \A x, y \in before : renaming[x] = renaming[y] => x = y
          /\ \A k \in 0..size-1 : dense[k] < domain
          /\ old_domain <= domain
          /\ domain = old_domain \/ \E k \in 0..at-1 : domain = dense[k] + 1
      BY <2>1 DEF RenameInv
    <3>2. at = size
      BY <1>3, <2>1, <3>1
    <3> QED BY <3>1, <3>2
  <2>3. Contents = {renaming[x] : x \in before}
    BY LoopResultFollows, <2>1 DEF LoopResult
  <2>4. Promise!LeastDomain(old_domain, Contents, domain)
    BY <1>3, <2>2 DEF Promise!LeastDomain, Contents
  <2>5. Promise!Rename(renaming)
    BY <1>1, <1>3, <2>2, <2>3, <2>4 DEF Promise!Rename
  <2> QED BY <1>3, <2>5 DEF Promise!Next, Promise!State
<1> QED BY <1>4, <1>5, <1>6

(* For every MaxState, the sparse set is a StateSet: insert, erase, clear, *)
(* reserve, truncate, and the results of the complement, filter and rename *)
(* loops, are what the abstract set with a domain size prescribes.         *)
THEOREM SparseSetRefinement == Spec => ImplementsStateSet
<1>1. IInv /\ [Next]_vars => [Promise!Next]_(Promise!vars)
  <2> SUFFICES ASSUME IInv, [Next]_vars PROVE [Promise!Next]_(Promise!vars)
    OBVIOUS
  <2>1. CASE Next
    BY <2>1, OneShotShown, LoopStepShown, ReturnShown DEF Next, Call, Loop
  <2>2. CASE UNCHANGED vars
    <3>1. shown' = shown /\ shown_domain' = shown_domain
      BY <2>2 DEF vars, structure, call, shown, shown_domain, Contents
    <3> QED BY <3>1, Hidden
  <2> QED BY <2>1, <2>2
<1> QED BY <1>1, SetInitShown, IInvHolds, PTL DEF Spec, ImplementsStateSet, Promise!Spec

-----------------------------------------------------------------------------
(* The synchronized iterators.                                            *)

\* Where the comparison of the first two iterators does no harm.
Trusted == "above" \in Layouts => MaxVectors["above"] <= 2

SameVector == layout = "same" /\ N >= 2 => vectors[1] = vectors[2]

\* Nothing has been delivered or moved before the first advance().
Untouched ==
  pc = "idle" /\ answer = "none" =>
    last = -1 /\ ~synced /\ \A j \in 1..N : positions[j] = 1

\* No position has passed a value that all vectors hold and that has not
\* been delivered.
NoneMissed ==
  \A j \in 1..N : \A k \in 1..positions[j]-1 :
    vectors[j][k] \in Common => vectors[j][k] <= last

\* The first position stands on a value that has not been delivered.
Fresh == ~synced /\ N > 0 /\ ~AtEnd(1) => ValueAt(1) > last

\* The positions before i agree with the first, or the first has moved and
\* the comparison of the iterators will show it.
Prefix ==
  pc # "idle" =>
    /\ ~synced
    /\ \A j \in 2..i-1 : j <= N => ~AtEnd(j)
    /\ \/ \A j \in 2..i-1 : j <= N => ValueAt(j) = ValueAt(1)
       \/ pc = "ahead" /\ FirstAbove

UInv == UTypeOK /\ SameVector /\ Synchronized /\ Untouched /\ NoneMissed
        /\ Fresh /\ Prefix

-----------------------------------------------------------------------------
\* What the types say of one vector and its position.
Facts ==
  /\ N \in Nat /\ positions \in Seq(Nat) /\ DOMAIN positions = 1..N
  /\ \A j \in 1..N :
       /\ vectors[j] \in Seq(Nat) /\ Len(vectors[j]) \in Nat
       /\ positions[j] \in 1..Len(vectors[j])+1
       /\ \A k \in 1..Len(vectors[j]) : vectors[j][k] \in Nat
       /\ \A k, l \in 1..Len(vectors[j]) : k < l => vectors[j][k] < vectors[j][l]
       /\ ~AtEnd(j) => positions[j] \in 1..Len(vectors[j]) /\ ValueAt(j) \in Nat

(* The facts follow from the types.                                        *)
LEMMA VectorFacts == PositionsOK => Facts
<1> SUFFICES ASSUME PositionsOK PROVE Facts
  OBVIOUS
<1>1. N \in Nat /\ positions \in Seq(Nat) /\ DOMAIN positions = 1..N
  BY DEF PositionsOK, N
<1>2. ASSUME NEW j \in 1..N
      PROVE  /\ vectors[j] \in Seq(Nat) /\ Len(vectors[j]) \in Nat
             /\ positions[j] \in 1..Len(vectors[j])+1
             /\ \A k \in 1..Len(vectors[j]) : vectors[j][k] \in Nat
             /\ \A k, l \in 1..Len(vectors[j]) : k < l => vectors[j][k] < vectors[j][l]
             /\ ~AtEnd(j) => positions[j] \in 1..Len(vectors[j]) /\ ValueAt(j) \in Nat
  <2>1. vectors[j] \in Seq(Nat) /\ Ascending(vectors[j])
    <3>1. vectors[j] \in Vectors
      BY <1>1 DEF PositionsOK, N
    <3> QED BY <3>1, VectorsAssumption
  <2>2. /\ Len(vectors[j]) \in Nat /\ DOMAIN vectors[j] = 1..Len(vectors[j])
        /\ \A k \in 1..Len(vectors[j]) : vectors[j][k] \in Nat
    BY <2>1
  <2>3. positions[j] \in 1..Len(vectors[j])+1
    BY <1>1, <2>2 DEF PositionsOK
  <2>4. ~AtEnd(j) => positions[j] \in 1..Len(vectors[j]) /\ ValueAt(j) \in Nat
    BY <2>2, <2>3 DEF AtEnd, ValueAt
  <2>5. \A k, l \in 1..Len(vectors[j]) : k < l => vectors[j][k] < vectors[j][l]
    BY <2>1, <2>2 DEF Ascending
  <2> QED BY <2>1, <2>2, <2>3, <2>4, <2>5
<1> QED BY <1>1, <1>2 DEF Facts

\* A common value is in every vector.
LEMMA CommonFacts ==
  ASSUME Facts, NEW x \in Common
  PROVE  /\ N > 0 /\ x \in Nat
         /\ \A j \in 1..N : \E m \in 1..Len(vectors[j]) : vectors[j][m] = x
<1>1. N # 0 /\ N \in Nat
  BY DEF Common, Facts
<1>2. PICK l \in DOMAIN vectors[1] :
        /\ x = vectors[1][l]
        /\ \A j \in 1..N : \E m \in DOMAIN vectors[j] : vectors[j][m] = x
  BY <1>1 DEF Common
<1>3. \A j \in 1..N : DOMAIN vectors[j] = 1..Len(vectors[j])
  BY DEF Facts
<1>4. x \in Nat
  <2>1. 1 \in 1..N
    BY <1>1
  <2>2. \A k \in 1..Len(vectors[1]) : vectors[1][k] \in Nat
    BY <2>1 DEF Facts
  <2> QED BY <1>2, <1>3, <2>1, <2>2
<1>5. N > 0
  BY <1>1
<1> QED BY <1>2, <1>3, <1>4, <1>5, Zenon

\* A common value that one position has passed, or stands above, has been
\* delivered.
Passed ==
  \A j \in 1..N : \A x \in Common : AtEnd(j) \/ x < ValueAt(j) => x <= last

(* A common value that a position has passed was delivered.                *)
LEMMA PassedIsDelivered == PositionsOK /\ NoneMissed => Passed
<1> SUFFICES ASSUME PositionsOK, NoneMissed, NEW j \in 1..N, NEW x \in Common,
                    AtEnd(j) \/ x < ValueAt(j)
             PROVE  x <= last
  BY DEF Passed
<1> Facts
  BY VectorFacts
<1>1. PICK m \in 1..Len(vectors[j]) : vectors[j][m] = x
  BY CommonFacts
<1>2. m < positions[j]
  <2>1. CASE AtEnd(j)
    BY <2>1 DEF AtEnd, Facts
  <2>2. CASE ~AtEnd(j) /\ x < ValueAt(j)
    <3>1. positions[j] \in 1..Len(vectors[j]) /\ vectors[j][m] < vectors[j][positions[j]]
      BY <1>1, <2>2 DEF ValueAt, Facts
    <3>2. /\ vectors[j][m] \in Nat /\ vectors[j][positions[j]] \in Nat
          /\ positions[j] < m => vectors[j][positions[j]] < vectors[j][m]
      BY <3>1 DEF Facts
    <3> QED BY <3>1, <3>2
  <2> QED BY <2>1, <2>2
<1>3. m \in 1..positions[j]-1
  BY <1>2 DEF Facts
<1> QED BY <1>1, <1>3 DEF NoneMissed

\* Moving position j loses nothing if the value it leaves is delivered
\* already or not common.
LEMMA MovingLosesNothing ==
  ASSUME Facts, NoneMissed, NEW j \in 1..N,
         ValueAt(j) \in Common => ValueAt(j) <= last,
         positions' = [positions EXCEPT ![j] = @ + 1],
         UNCHANGED <<vectors, last>>
  PROVE  NoneMissed'
<1>1. Common' = Common /\ N' = N
  BY DEF Common, N
<1>2. SUFFICES ASSUME NEW l \in 1..N, NEW k \in 1..positions'[l]-1,
                      vectors[l][k] \in Common
               PROVE  vectors[l][k] <= last
  BY <1>1 DEF NoneMissed
<1>3. positions[j] \in Nat /\ positions[l] \in Nat /\ DOMAIN positions = 1..N
  BY DEF Facts
<1>4. CASE l = j /\ k = positions[j]
  BY <1>2, <1>4 DEF ValueAt
<1>5. CASE ~(l = j /\ k = positions[j])
  <2>1. k \in 1..positions[l]-1
    BY <1>3, <1>5
  <2> QED BY <1>2, <2>1 DEF NoneMissed
<1> QED BY <1>4, <1>5

\* A step that moves no position.
LEMMA NothingMoved ==
  ASSUME PositionsOK, NoneMissed, UNCHANGED <<vectors, layout, positions, last>>
  PROVE  PositionsOK' /\ NoneMissed'
<1>1. N' = N /\ Common' = Common
  BY DEF N, Common
<1> QED BY <1>1 DEF PositionsOK, NoneMissed

\* A step that moves position j.
LEMMA OneMoved ==
  ASSUME PositionsOK, NEW j \in 1..N, ~AtEnd(j),
         positions' = [positions EXCEPT ![j] = @ + 1],
         vectors' = vectors, layout' = layout
  PROVE  /\ PositionsOK'
         /\ positions'[j] = positions[j] + 1
         /\ \A l \in 1..N : l # j => positions'[l] = positions[l]
<1> Facts
  BY VectorFacts
<1>1. positions[j] \in 1..Len(vectors[j]) /\ Len(vectors[j]) \in Nat
  BY DEF Facts
<1>2. /\ positions'[j] = positions[j] + 1
      /\ \A l \in 1..N : l # j => positions'[l] = positions[l]
  BY DEF Facts
<1>3. positions' \in Seq(Nat \ {0}) /\ Len(positions') = N
  <2>1. positions \in Seq(Nat \ {0}) /\ Len(positions) = N
    BY DEF PositionsOK
  <2>2. positions[j] + 1 \in Nat \ {0}
    BY <1>1
  <2> QED BY ONLY <2>1, <2>2, positions' = [positions EXCEPT ![j] = @ + 1]
<1>4. \A l \in 1..N : positions'[l] <= Len(vectors[l]) + 1
  <2> TAKE l \in 1..N
  <2>1. positions[l] <= Len(vectors[l]) + 1
    BY DEF PositionsOK
  <2>2. CASE l = j
    BY <1>1, <1>2, <2>2
  <2>3. CASE l # j
    BY <1>2, <2>1, <2>3
  <2> QED BY <2>2, <2>3
<1>5. N' = N /\ vectors' \in Seq(Vectors) /\ N <= MaxVectors[layout]
  BY DEF PositionsOK, N
<1>6. PositionsOK'
  BY <1>3, <1>4, <1>5 DEF PositionsOK
<1> QED BY <1>2, <1>6, Zenon

(* The iterator starts in order.                                           *)
LEMMA UInitHolds == Trusted /\ UInit => UInv
<1> SUFFICES ASSUME Trusted, UInit PROVE UInv
  OBVIOUS
<1>1. N = 0 /\ vectors \in Seq(Vectors) /\ positions \in Seq(Nat \ {0})
      /\ Len(positions) = 0
  BY DEF UInit, N
<1>2. PositionsOK
  BY <1>1, LayoutsAssumption DEF PositionsOK, UInit
<1>3. ControlOK
  <2>1. i \in Nat \ {0, 1}
    BY DEF UInit, Trusted
  <2>2. last \in Nat \cup {-1}
    BY DEF UInit
  <2> QED BY <2>1, <2>2 DEF UInit, ControlOK
<1> QED
  BY <1>1, <1>2, <1>3 DEF UInit, UInv, UTypeOK, SameVector, Synchronized, Untouched,
     NoneMissed, Fresh, Prefix

-----------------------------------------------------------------------------
(* The invariant, action by action. *)

(* push_back() preserves the invariant.                                    *)
LEMMA PushBackHolds ==
  ASSUME UInv, Trusted, NEW v \in Vectors, UPushBack(v)
  PROVE  UInv'
<1> USE DEF Trusted
<1>1. /\ N \in Nat /\ N < MaxVectors[layout] /\ MaxVectors[layout] \in Nat
      /\ vectors \in Seq(Vectors)
      /\ positions \in Seq(Nat \ {0}) /\ Len(positions) = N
      /\ Len(v) \in Nat /\ v \in Seq(Nat)
  BY VectorsAssumption, LayoutsAssumption
  DEF UInv, UTypeOK, PositionsOK, ControlOK, UPushBack, N
<1>2. /\ vectors' \in Seq(Vectors) /\ positions' \in Seq(Nat \ {0})
      /\ N' = N + 1 /\ Len(positions') = N + 1
      /\ \A j \in 1..N : vectors'[j] = vectors[j] /\ positions'[j] = positions[j]
      /\ vectors'[N+1] = v /\ positions'[N+1] = 1
  BY <1>1 DEF UPushBack, N
<1>3. /\ pc = "idle" /\ answer = "none" /\ last = -1 /\ ~synced
      /\ \A j \in 1..N : positions[j] = 1
      /\ UNCHANGED <<layout, synced, pc, i, last, answer>>
  BY DEF UInv, Untouched, UPushBack
<1>4. \A j \in 1..N' : positions'[j] = 1
  <2> TAKE j \in 1..N'
  <2>1. j \in 1..N \/ j = N + 1
    BY <1>1, <1>2
  <2> QED BY <1>2, <1>3, <2>1
<1>5. PositionsOK'
  <2>1. \A j \in 1..N' : positions'[j] <= Len(vectors'[j]) + 1
    <3> TAKE j \in 1..N'
    <3>1. vectors'[j] \in Vectors
      BY <1>2 DEF N
    <3>2. Len(vectors'[j]) \in Nat
      BY <3>1, VectorsAssumption
    <3> QED BY <1>4, <3>2
  <2>2. layout' = layout /\ N' <= MaxVectors[layout]
    BY <1>1, <1>2, <1>3
  <2> QED BY <1>2, <2>1, <2>2 DEF PositionsOK
<1>6. ControlOK'
  BY <1>3 DEF UInv, UTypeOK, ControlOK
<1>7. SameVector'
  <2>1. CASE N >= 2
    <3>1. vectors'[1] = vectors[1] /\ vectors'[2] = vectors[2]
      BY <1>1, <1>2, <2>1
    <3>2. layout = "same" => vectors[1] = vectors[2]
      BY <2>1 DEF UInv, SameVector
    <3> QED BY <1>3, <3>1, <3>2 DEF SameVector
  <2>2. CASE N = 1
    <3>1. vectors'[1] = vectors[1] /\ vectors'[2] = v
      BY <1>2, <2>2
    <3>2. layout = "same" => v = vectors[1]
      BY <2>2 DEF UPushBack
    <3> QED BY <1>3, <3>1, <3>2 DEF SameVector
  <2>3. CASE N = 0
    BY <1>2, <2>3 DEF SameVector
  <2> QED BY <1>1, <2>1, <2>2, <2>3
<1>8. NoneMissed'
  BY <1>4 DEF NoneMissed
<1>9. Fresh'
  <2>1. Facts'
    BY <1>5, VectorFacts, PTL
  <2> QED BY <1>1, <1>2, <1>3, <2>1 DEF Facts, Fresh
<1>10. Synchronized' /\ Untouched' /\ Prefix'
  BY <1>3, <1>4 DEF Synchronized, Untouched, Prefix
<1> QED BY <1>5, <1>6, <1>7, <1>8, <1>9, <1>10 DEF UInv, UTypeOK

(* reset() preserves the invariant.                                        *)
LEMMA ResetHolds == ASSUME UInv, Trusted, UReset PROVE UInv'
<1>1. N' = 0 /\ vectors' \in Seq(Vectors) /\ positions' \in Seq(Nat \ {0})
      /\ Len(positions') = 0
  BY DEF UReset, N
<1>2. PositionsOK'
  BY <1>1, LayoutsAssumption DEF PositionsOK, UReset
<1>3. ControlOK'
  BY DEF UReset, UInv, UTypeOK, ControlOK
<1> QED
  BY <1>1, <1>2, <1>3 DEF UReset, UInv, UTypeOK, SameVector, Synchronized,
     Untouched, NoneMissed, Fresh, Prefix

(* The start of advance() preserves the invariant.                         *)
LEMMA AdvanceHolds == ASSUME UInv, Trusted, UAdvance PROVE UInv'
<1> USE DEF Trusted
<1>1. /\ PositionsOK /\ ControlOK /\ SameVector /\ Synchronized /\ NoneMissed
      /\ Fresh /\ Facts
  BY VectorFacts DEF UInv, UTypeOK
<1>2. vectors' = vectors /\ layout' = layout /\ N' = N /\ ~synced' /\ pc = "idle"
      /\ synced' \in BOOLEAN
  BY DEF UAdvance, filling, N
<1>3. SameVector' /\ Synchronized'
  BY <1>1, <1>2 DEF SameVector, Synchronized
<1>4. CASE N = 0
  <2>1. UNCHANGED <<positions, i, last>> /\ pc' = "idle" /\ answer' = "no"
    BY <1>4 DEF UAdvance, ReturnFalse
  <2>2. PositionsOK' /\ NoneMissed'
    BY <1>1, <1>2, <2>1, NothingMoved
  <2>3. ControlOK'
    BY <1>1, <1>2, <2>1 DEF ControlOK
  <2> QED
    BY <1>2, <1>3, <1>4, <2>1, <2>2, <2>3 DEF UInv, UTypeOK, Untouched, Fresh, Prefix
<1>5. CASE N # 0
  <2>0. 1 \in 1..N
    BY <1>1, <1>5 DEF Facts
  <2>1. last' = last /\ Untouched' /\ (pc' # "idle" => i' = 2) /\ i' \in {i, 2}
    BY <1>2, <1>5 DEF UAdvance, ReturnFalse, Untouched
  <2>4. \/ pc' = "idle" /\ answer' = "no" /\ i' = i
        \/ /\ pc' = "each" /\ answer' = "none" /\ i' = 2
           /\ synced => positions[1] + 1 # Len(vectors[1]) + 1
           /\ ~synced => positions[1] # Len(vectors[1]) + 1
    BY <1>5 DEF UAdvance, ReturnFalse
  <2>5. /\ layout' \in Layouts /\ i' \in Nat \ {0, 1} /\ N' > 0
        /\ (pc' = "each" => i' <= N' + 1)
        /\ last' \in Nat \cup {-1} /\ answer' \in {"none", "yes", "no"}
    <3>1. i \in Nat \ {0, 1} /\ layout \in Layouts
          /\ last \in Nat \cup {-1} /\ answer \in {"none", "yes", "no"}
      BY <1>1 DEF ControlOK
    <3> QED BY <1>1, <1>2, <2>0, <2>1, <2>4, <3>1 DEF Facts
  <2>2. CASE synced
    <3>1. /\ ~AtEnd(1) /\ ValueAt(1) = last
          /\ positions' = [positions EXCEPT ![1] = @ + 1]
      BY <1>1, <1>5, <2>0, <2>2 DEF Synchronized, UAdvance
    <3>2. PositionsOK' /\ positions'[1] = positions[1] + 1
      BY <1>1, <1>2, <2>0, <3>1, OneMoved
    <3>3. NoneMissed'
      <4>1. last <= last
        BY <1>1 DEF ControlOK
      <4> QED BY <1>1, <1>2, <2>0, <2>1, <3>1, <4>1, MovingLosesNothing
    <3>4. Facts'
      BY <3>2, VectorFacts, PTL
    <3>5. Fresh'
      <4> SUFFICES ASSUME ~AtEnd(1)' PROVE ValueAt(1)' > last'
        BY <1>2, <1>5 DEF Fresh
      <4>1. positions[1] \in 1..Len(vectors[1]) /\ positions[1]+1 \in 1..Len(vectors[1])
        <5>1. positions[1] \in 1..Len(vectors[1]) /\ Len(vectors[1]) \in Nat
          BY <1>1, <2>0, <3>1 DEF Facts
        <5>2. /\ positions'[1] \in 1..Len(vectors[1])+1
              /\ positions'[1] # Len(vectors[1]) + 1
          BY <1>2, <2>0, <3>4 DEF Facts, AtEnd
        <5>3. positions[1]+1 \in 1..Len(vectors[1])+1 /\ positions[1]+1 # Len(vectors[1])+1
          <6>1. vectors'[1] = vectors[1]
            BY <1>2
          <6> QED BY <3>2, <5>2, <6>1
        <5> QED BY ONLY <5>1, <5>3
      <4>2. vectors[1][positions[1]] < vectors[1][positions[1]+1]
        <5>1. \A k, l \in 1..Len(vectors[1]) : k < l => vectors[1][k] < vectors[1][l]
          BY <1>1, <2>0 DEF Facts
        <5>2. positions[1] \in Nat /\ positions[1] < positions[1] + 1
          BY <4>1
        <5> QED BY ONLY <4>1, <5>1, <5>2
      <4>3. /\ vectors[1][positions[1]] \in Nat /\ vectors[1][positions[1]+1] \in Nat
        BY <1>1, <2>0, <4>1 DEF Facts
      <4> QED BY <1>2, <2>1, <3>1, <3>2, <4>2, <4>3 DEF ValueAt
    <3>6. pc' # "idle" => pc' = "each" /\ ~AtEnd(1)'
      BY <1>2, <2>2, <2>4, <3>2 DEF AtEnd
    <3>7. ControlOK'
      BY <1>2, <2>5, <3>6 DEF ControlOK
    <3>8. Prefix'
      BY <1>2, <2>1 DEF Prefix
    <3> QED BY <1>3, <2>1, <3>2, <3>3, <3>5, <3>7, <3>8 DEF UInv, UTypeOK
  <2>3. CASE ~synced
    <3>1. positions' = positions
      <4>1. positions \in [1..N -> Nat]
        BY <1>1 DEF Facts
      <4> QED BY <1>5, <2>0, <2>3, <4>1 DEF UAdvance
    <3>2. PositionsOK' /\ NoneMissed'
      BY <1>1, <1>2, <2>1, <3>1, NothingMoved
    <3>3. Fresh'
      BY <1>1, <1>2, <2>1, <2>3, <3>1 DEF Fresh, AtEnd, ValueAt
    <3>4. pc' # "idle" => pc' = "each" /\ ~AtEnd(1)'
      BY <1>2, <2>3, <2>4, <3>1 DEF AtEnd
    <3>5. ControlOK'
      BY <1>2, <2>5, <3>4 DEF ControlOK
    <3>6. Prefix'
      BY <1>2, <2>1 DEF Prefix
    <3> QED BY <1>3, <2>1, <3>2, <3>3, <3>5, <3>6 DEF UInv, UTypeOK
  <2> QED BY <2>2, <2>3
<1> QED BY <1>4, <1>5

\* The steps of the loops share what they leave alone.
LEMMA LoopFacts ==
  ASSUME UInv, Trusted, ULoop
  PROVE  /\ PositionsOK /\ ControlOK /\ NoneMissed /\ Facts /\ Passed /\ SameVector'
         /\ pc # "idle" /\ ~synced /\ N \in Nat /\ N > 0 /\ i \in Nat /\ i >= 2
         /\ 1 \in 1..N /\ ~AtEnd(1) /\ ValueAt(1) \in Nat /\ ValueAt(1) > last
         /\ vectors' = vectors /\ layout' = layout /\ N' = N
         /\ last \in Nat \cup {-1} /\ i <= N + 1
         /\ layout \in {"below", "above", "same"}
         /\ layout = "above" => N <= 2
<1>1. pc # "idle" /\ vectors' = vectors /\ layout' = layout /\ N' = N
  BY DEF ULoop, Compare, MoveOther, OtherCaughtUp, MoveFirst, FirstCaughtUp,
     ReturnTrue, filling, N
<1>2. Facts /\ Passed
  BY VectorFacts, PassedIsDelivered DEF UInv, UTypeOK
<1>3. /\ PositionsOK /\ ControlOK /\ NoneMissed /\ SameVector /\ Fresh /\ ~synced
  BY <1>1 DEF UInv, UTypeOK, Prefix
<1>4. N \in Nat /\ N > 0 /\ ~AtEnd(1) /\ i \in Nat /\ i >= 2 /\ 1 \in 1..N
      /\ i <= N + 1
  BY <1>1, <1>2, <1>3 DEF Facts, ControlOK, Trusted
<1>5. ValueAt(1) \in Nat /\ ValueAt(1) > last
  BY <1>2, <1>3, <1>4 DEF Facts, Fresh
<1>6. layout \in {"below", "above", "same"} /\ (layout = "above" => N <= 2)
  BY <1>3, <1>4, LayoutsAssumption DEF ControlOK, PositionsOK, Trusted
<1>7. SameVector'
  BY <1>1, <1>3 DEF SameVector
<1> QED BY <1>1, <1>2, <1>3, <1>4, <1>5, <1>6, <1>7 DEF ControlOK

(* Comparing with the first position preserves the invariant.              *)
LEMMA CompareHolds == ASSUME UInv, Trusted, Compare PROVE UInv'
<1> ULoop
  BY DEF ULoop
<1>1. UNCHANGED <<vectors, positions, layout, synced, last>> /\ pc = "each" /\ i <= N
  <2>1. UNCHANGED <<vectors, positions, layout, synced>> /\ pc = "each" /\ i <= N
    BY DEF Compare, filling
  <2>2. last' = last
    BY DEF Compare, ReturnFalse
  <2> QED BY <2>1, <2>2
<1>2. PositionsOK' /\ NoneMissed' /\ SameVector' /\ Synchronized' /\ Fresh'
  BY <1>1, LoopFacts, NothingMoved DEF Synchronized, Fresh, N, AtEnd, ValueAt
<1>3. \/ pc' = "idle" /\ i' = i /\ answer' = "no"
      \/ ~AtEnd(i) /\ ValueAt(i) = ValueAt(1) /\ i' = i + 1 /\ pc' = "each" /\ answer' = answer
      \/ ~AtEnd(i) /\ pc' = "behind" /\ i' = i /\ answer' = answer
  BY <1>1 DEF Compare, ReturnFalse
<1>4. AtEnd(1)' = AtEnd(1)
  BY <1>1, LoopFacts DEF PositionsOK, AtEnd
<1>5. ControlOK'
  <2>1. i' \in Nat \ {0, 1}
    BY <1>1, <1>3, <1>4, LoopFacts DEF PositionsOK
  <2>2. pc' = "behind" => i' = i /\ ~AtEnd(i)'
    BY <1>1, <1>3 DEF AtEnd
  <2> QED BY <1>1, <1>3, <1>4, <2>1, <2>2, LoopFacts DEF ControlOK
<1>6. Untouched'
  BY <1>1, <1>3 DEF UInv, Prefix, Untouched
<1>7. Prefix'
  <2>1. \A j \in 2..i-1 : j <= N => ~AtEnd(j) /\ ValueAt(j) = ValueAt(1)
    BY <1>1 DEF UInv, Prefix
  <2>2. pc' # "idle" => \A j \in 2..i'-1 : j <= N => ~AtEnd(j) /\ ValueAt(j) = ValueAt(1)
    BY <1>1, <1>3, <2>1, LoopFacts
  <2> QED BY <1>1, <2>2, LoopFacts DEF Prefix, AtEnd, ValueAt
<1> QED BY <1>2, <1>5, <1>6, <1>7 DEF UInv, UTypeOK

(* The end of an inner loop preserves the invariant.                       *)
LEMMA CaughtUpHolds ==
  ASSUME UInv, Trusted, OtherCaughtUp \/ FirstCaughtUp
  PROVE  UInv'
<1> ULoop
  BY DEF ULoop
<1>1. /\ UNCHANGED <<vectors, positions, layout, synced, last, answer>>
      /\ \/ pc = "behind" /\ pc' = "ahead" /\ i' = i
         \/ pc = "ahead" /\ pc' = "each" /\ i' = (IF FirstAbove THEN 2 ELSE i)
  BY DEF OtherCaughtUp, FirstCaughtUp, filling
<1>2. PositionsOK' /\ NoneMissed' /\ SameVector' /\ Synchronized' /\ Fresh'
  BY <1>1, LoopFacts, NothingMoved DEF Synchronized, Fresh, N, AtEnd, ValueAt
<1>3. i \in Nat \ {0, 1} /\ i <= N /\ ~AtEnd(i)
  BY <1>1, LoopFacts DEF ControlOK
<1>4. ControlOK'
  <2>1. AtEnd(1)' = AtEnd(1) /\ (pc' = "ahead" => i' = i /\ ~AtEnd(i)')
    BY <1>1, <1>3 DEF AtEnd
  <2>2. i' \in Nat \ {0, 1}
    BY <1>1, <1>3
  <2> QED BY <1>1, <1>3, <2>1, <2>2, LoopFacts DEF ControlOK
<1>5. Untouched'
  BY <1>1 DEF Untouched
<1>6. Prefix'
  <2>1. CASE pc = "ahead" /\ FirstAbove
    <3>1. i' = 2 /\ pc' = "each" /\ \A j \in 2..i'-1 : FALSE
      BY <1>1, <2>1
    <3> QED BY <1>1, <3>1, LoopFacts DEF Prefix
  <2>2. CASE ~(pc = "ahead" /\ FirstAbove)
    <3>1. i' = i
      BY <1>1, <2>2
    <3>2. \A j \in 2..i-1 : j <= N => ~AtEnd(j) /\ ValueAt(j) = ValueAt(1)
      BY <1>1, <2>2 DEF UInv, Prefix
    <3> QED BY <1>1, <3>1, <3>2, LoopFacts DEF Prefix, AtEnd, ValueAt
  <2> QED BY <2>1, <2>2
<1> QED BY <1>2, <1>4, <1>5, <1>6 DEF UInv, UTypeOK

(* Moving a position other than the first preserves the invariant.         *)
LEMMA MoveOtherHolds == ASSUME UInv, Trusted, MoveOther PROVE UInv'
<1> ULoop
  BY DEF ULoop
<1>1. /\ UNCHANGED <<vectors, layout, synced, i, last>> /\ pc = "behind"
      /\ positions' = [positions EXCEPT ![i] = @ + 1] /\ ValueAt(i) < ValueAt(1)
      /\ \/ pc' = "idle" /\ answer' = "no"
         \/ pc' = "behind" /\ answer' = answer /\ ~AtEnd(i)'
  BY DEF MoveOther, filling, ReturnFalse, AtEnd
<1>2. i \in 1..N /\ ~AtEnd(i) /\ i # 1
  BY <1>1, LoopFacts DEF ControlOK
<1>3. /\ PositionsOK' /\ positions'[i] = positions[i] + 1
      /\ \A l \in 1..N : l # i => positions'[l] = positions[l]
  BY <1>1, <1>2, LoopFacts, OneMoved
<1>4. \A l \in 1..N : l # i => (AtEnd(l)' <=> AtEnd(l)) /\ ValueAt(l)' = ValueAt(l)
  BY <1>1, <1>3 DEF AtEnd, ValueAt
<1>5. NoneMissed'
  <2>1. ValueAt(i) \in Common => ValueAt(i) <= last
    \* Value(1) is larger: the first vector has passed it.
    BY <1>1, LoopFacts DEF Passed
  <2> QED BY <1>1, <1>2, <2>1, LoopFacts, MovingLosesNothing
<1>6. ~AtEnd(1)' /\ ValueAt(1)' = ValueAt(1)
  BY <1>2, <1>4, LoopFacts
<1>7. Fresh' /\ Synchronized' /\ Untouched'
  BY <1>1, <1>6, LoopFacts DEF Fresh, Synchronized, Untouched
<1>8. ControlOK'
  BY <1>1, <1>6, LoopFacts DEF ControlOK
<1>9. Prefix'
  <2>1. \A j \in 2..i-1 : j <= N => ~AtEnd(j) /\ ValueAt(j) = ValueAt(1)
    BY <1>1 DEF UInv, Prefix
  <2>2. \A j \in 2..i-1 : j <= N => ~AtEnd(j)' /\ ValueAt(j)' = ValueAt(1)'
    <3> TAKE j \in 2..i-1
    <3>1. j <= N => j \in 1..N /\ j # i
      BY LoopFacts
    <3> QED BY <1>4, <1>6, <2>1, <3>1
  <2> QED BY <1>1, <2>2, LoopFacts DEF Prefix
<1> QED BY <1>3, <1>5, <1>7, <1>8, <1>9, LoopFacts DEF UInv, UTypeOK

(* Moving the first position preserves the invariant.                      *)
LEMMA MoveFirstHolds == ASSUME UInv, Trusted, MoveFirst PROVE UInv'
<1> ULoop
  BY DEF ULoop
<1>1. /\ UNCHANGED <<vectors, layout, synced, i, last>> /\ pc = "ahead"
      /\ positions' = [positions EXCEPT ![1] = @ + 1] /\ ValueAt(i) > ValueAt(1)
      /\ \/ pc' = "idle" /\ answer' = "no"
         \/ pc' = "ahead" /\ answer' = answer /\ ~AtEnd(1)'
  BY DEF MoveFirst, filling, ReturnFalse, AtEnd
<1>2. i \in 1..N /\ ~AtEnd(i) /\ i # 1 /\ 1 \in 1..N
  BY <1>1, LoopFacts DEF ControlOK
<1>3. /\ PositionsOK' /\ positions'[1] = positions[1] + 1
      /\ \A l \in 1..N : l # 1 => positions'[l] = positions[l]
  BY <1>1, <1>2, LoopFacts, OneMoved
<1>4. \A l \in 1..N : l # 1 => (AtEnd(l)' <=> AtEnd(l)) /\ ValueAt(l)' = ValueAt(l)
  BY <1>1, <1>3 DEF AtEnd, ValueAt
<1>5. NoneMissed'
  <2>1. ValueAt(i) \in Nat
    BY <1>2, LoopFacts DEF Facts
  <2>2. ValueAt(1) < ValueAt(i)
    BY <1>1, <2>1, LoopFacts
  <2>3. ValueAt(1) \in Common => ValueAt(1) <= last
    \* Position i stands above it: its vector has passed it.
    BY <1>2, <2>2, LoopFacts DEF Passed
  <2> QED BY <1>1, <1>2, <2>3, LoopFacts, MovingLosesNothing
<1>6. Fresh'
  <2>1. SUFFICES ASSUME ~AtEnd(1)' PROVE ValueAt(1)' > last
    BY <1>1 DEF Fresh
  <2>2. Facts'
    BY <1>3, VectorFacts, PTL
  <2>3. positions[1] \in 1..Len(vectors[1]) /\ positions[1]+1 \in 1..Len(vectors[1])
    BY <1>1, <1>2, <1>3, <2>1, <2>2, LoopFacts DEF Facts
  <2>4. /\ vectors[1][positions[1]] < vectors[1][positions[1]+1]
        /\ vectors[1][positions[1]] \in Nat /\ vectors[1][positions[1]+1] \in Nat
    <3>1. positions[1] < positions[1]+1
      BY <2>3
    <3> QED BY <1>2, <2>3, <3>1, LoopFacts DEF Facts
  <2> QED BY <1>1, <1>3, <2>4, LoopFacts DEF ValueAt
<1>7. Synchronized' /\ Untouched'
  BY <1>1, LoopFacts DEF Synchronized, Untouched
<1>8. ControlOK'
  <2>1. i \in Nat \ {0, 1} /\ i <= N /\ ~AtEnd(i)'
    BY <1>1, <1>2, <1>4, LoopFacts DEF ControlOK
  <2> QED BY <1>1, <2>1, LoopFacts DEF ControlOK
<1>9. Prefix'
  <2>1. \A j \in 2..i-1 : j <= N => j \in 1..N /\ j # 1 /\ ~AtEnd(j)
    BY <1>1, LoopFacts DEF UInv, Prefix
  <2>2. \A j \in 2..i-1 : j <= N => ~AtEnd(j)'
    BY <1>4, <2>1
  <2>3. CASE i = 2
    BY <1>1, <2>2, <2>3, LoopFacts DEF Prefix
  <2>4. CASE i # 2
    <3>1. 2 \in 2..i-1 /\ 2 \in 1..N /\ N > 2 /\ ~AtEnd(2)
      BY <1>2, <2>1, <2>4, LoopFacts
    <3>2. CASE layout = "below"
      BY <1>1, <2>2, <3>2, LoopFacts DEF Prefix, FirstAbove
    <3>3. CASE layout = "same"
      <4>1. vectors[1] = vectors[2]
        BY <3>1, <3>3, LoopFacts DEF UInv, SameVector
      <4>2. ValueAt(2) = ValueAt(1) \/ positions[1] > positions[2]
        BY <1>1, <3>1, <3>3 DEF UInv, Prefix, FirstAbove
      <4>3. /\ positions[1] \in 1..Len(vectors[1]) /\ positions[2] \in 1..Len(vectors[1])
            /\ ValueAt(1) \in Nat /\ ValueAt(2) \in Nat
            /\ positions[1] < positions[2] => ValueAt(1) < ValueAt(2)
        BY <1>2, <3>1, <4>1, LoopFacts DEF Facts, ValueAt
      <4>4. positions'[1] > positions'[2]
        BY <1>2, <1>3, <3>1, <4>2, <4>3
      <4> QED BY <1>1, <2>2, <3>3, <4>4, LoopFacts DEF Prefix, FirstAbove
    <3> QED BY <3>1, <3>2, <3>3, LoopFacts
  <2> QED BY <2>3, <2>4
<1> QED BY <1>3, <1>5, <1>6, <1>7, <1>8, <1>9, LoopFacts DEF UInv, UTypeOK

\* Where advance() succeeds, every vector stands on the same value.
LEMMA Agreement ==
  ASSUME UInv, Trusted, ReturnTrue
  PROVE  \A j \in 1..N : ~AtEnd(j) /\ ValueAt(j) = ValueAt(1)
<1> ULoop
  BY DEF ULoop
<1>1. pc = "each" /\ i > N
  BY DEF ReturnTrue
<1>2. \A j \in 2..i-1 : j <= N => ~AtEnd(j) /\ ValueAt(j) = ValueAt(1)
  BY <1>1 DEF UInv, Prefix
<1> QED BY <1>1, <1>2, LoopFacts

(* A synchronized return preserves the invariant.                          *)
LEMMA ReturnTrueHolds == ASSUME UInv, Trusted, ReturnTrue PROVE UInv'
<1> ULoop
  BY DEF ULoop
<1>1. /\ UNCHANGED <<vectors, layout, positions, i>> /\ synced' = TRUE
      /\ pc' = "idle" /\ last' = ValueAt(1) /\ answer' = "yes"
  BY DEF ReturnTrue, filling
<1>2. PositionsOK' /\ Common' = Common
  BY <1>1, LoopFacts DEF PositionsOK, N, Common
<1>3. NoneMissed'
  <2>1. \A j \in 1..N : \A k \in 1..positions[j]-1 :
          vectors[j][k] \in Common => vectors[j][k] <= last /\ vectors[j][k] \in Nat
    BY LoopFacts, CommonFacts DEF NoneMissed
  <2> QED BY <1>1, <1>2, <2>1, LoopFacts DEF NoneMissed
<1>4. Synchronized'
  BY <1>1, Agreement, LoopFacts DEF Synchronized, AtEnd, ValueAt
<1>5. ControlOK'
  BY <1>1, LoopFacts DEF ControlOK
<1> QED
  BY <1>1, <1>2, <1>3, <1>4, <1>5, LoopFacts DEF UInv, UTypeOK, Untouched, Fresh, Prefix

(* Every step preserves the invariant.                                     *)
LEMMA UNextHolds == Trusted /\ UInv /\ [UNext]_uvars => UInv'
<1> SUFFICES ASSUME Trusted, UInv, [UNext]_uvars PROVE UInv'
  OBVIOUS
<1>1. CASE UNext
  BY <1>1, PushBackHolds, ResetHolds, AdvanceHolds, CompareHolds, MoveOtherHolds,
     CaughtUpHolds, MoveFirstHolds, ReturnTrueHolds DEF UNext, ULoop
<1>2. CASE UNCHANGED uvars
  <2>1. UNCHANGED <<vectors, layout, positions, synced, pc, i, last, answer>>
    BY <1>2 DEF uvars, filling
  <2> QED
    BY <2>1, NothingMoved DEF UInv, UTypeOK, ControlOK, SameVector, Synchronized,
       Untouched, Fresh, Prefix, FirstAbove, AtEnd, ValueAt, N
<1> QED BY <1>1, <1>2

(* For two vectors, wherever they lie in memory, and for any number of     *)
(* them when the second does not lie above the first: when the flag is     *)
(* set, all positions stand on the value delivered, and no position ever   *)
(* leaves its vector.  The products use two.                               *)
THEOREM Invariance ==
  ASSUME Trusted PROVE USpec => [](UTypeOK /\ Synchronized)
<1>1. UInit => UInv
  BY UInitHolds
<1>2. UInv /\ [UNext]_uvars => UInv'
  BY UNextHolds
<1>3. UInv => UTypeOK /\ Synchronized
  BY DEF UInv
<1> QED BY <1>1, <1>2, <1>3, PTL DEF USpec

-----------------------------------------------------------------------------
(* The contract: the answers are those of Merge over the common values.    *)

(* The values common to all vectors are numbers.                           *)
LEMMA CommonIsNat == PositionsOK => Common \subseteq Nat
BY VectorFacts, CommonFacts

(* The iterator starts as a merge that offers nothing.                     *)
LEMMA InitShown == UInit => UPromise!Init
BY DEF UInit, UPromise!Init, Common, N

(* push_back() and reset() start the merge anew.                           *)
LEMMA RefillShown ==
  ASSUME UInv', (\E v \in Vectors : UPushBack(v)) \/ UReset, UInv
  PROVE  UPromise!Refill
<1>1. (Common \subseteq Nat)'
  <2>1. PositionsOK'
    BY DEF UInv, UTypeOK
  <2> QED BY <2>1, CommonIsNat, PTL
<1>2. last' = -1 /\ answer' = "none"
  BY DEF UPushBack, UReset, UInv, Untouched
<1> QED BY <1>1, <1>2 DEF UPromise!Refill

(* A step that leaves vectors, last value and answer alone is not seen.    *)
LEMMA SilentShown ==
  ASSUME UNCHANGED <<vectors, last, answer>>
  PROVE  [UPromise!Next]_(UPromise!vars)
<1>1. Common' = Common
  BY DEF Common, N
<1> QED BY <1>1 DEF UPromise!vars

\* advance() gives up where a position has reached the end of its vector.
LEMMA ExhaustShown ==
  ASSUME UInv', UNCHANGED <<vectors, last>>, answer' = "no",
         N = 0 \/ \E j \in 1..N : AtEnd(j)'
  PROVE  UPromise!Exhaust
<1>1. Common' = Common /\ N' = N
  BY DEF Common, N
<1>2. PositionsOK' /\ NoneMissed'
  BY DEF UInv, UTypeOK
<1>3. Passed'
  BY <1>2, PassedIsDelivered, PTL
<1>4. ASSUME NEW w \in Common PROVE w <= last
  <2>1. N # 0
    BY DEF Common
  <2>2. PICK j \in 1..N : AtEnd(j)'
    BY <2>1
  <2> QED BY <1>1, <1>3, <2>2 DEF Passed
<1> QED BY <1>1, <1>4 DEF UPromise!Exhaust

(* The start of advance() answers that nothing is left, or is not seen.    *)
LEMMA AdvanceShown ==
  ASSUME UInv, UInv', UAdvance
  PROVE  [UPromise!Next]_(UPromise!vars)
<1>1. UNCHANGED <<vectors, last>>
  BY DEF UAdvance, ReturnFalse, filling
<1>2. CASE N = 0
  BY <1>1, <1>2, ExhaustShown DEF UAdvance, ReturnFalse, UPromise!Next
<1>3. CASE N # 0
  <2> DEFINE first == IF synced THEN positions[1] + 1 ELSE positions[1]
  <2>1. 1 \in 1..N /\ DOMAIN positions = 1..N
    BY <1>3, VectorFacts DEF UInv, UTypeOK, Facts
  <2>2. positions' = [positions EXCEPT ![1] = first]
    BY <1>3 DEF UAdvance
  <2>3. positions'[1] = first
    BY <2>1, <2>2
  <2>4. CASE first = Len(vectors[1]) + 1
    <3>1. AtEnd(1)' /\ answer' = "no"
      BY <1>1, <1>3, <2>3, <2>4 DEF UAdvance, ReturnFalse, AtEnd
    <3> QED BY <1>1, <2>1, <3>1, ExhaustShown DEF UPromise!Next
  <2>5. CASE first # Len(vectors[1]) + 1
    <3>1. answer' = "none"
      BY <1>3, <2>5 DEF UAdvance
    <3>2. Common' = Common
      BY <1>1 DEF Common, N
    <3> QED BY <1>1, <3>1, <3>2 DEF UPromise!Ask, UPromise!Next
  <2> QED BY <2>4, <2>5
<1> QED BY <1>2, <1>3

(* Within the loops of advance() nothing is seen but the end of a vector.  *)
LEMMA LoopShown ==
  ASSUME UInv, UInv', Trusted, ULoop, ~ReturnTrue
  PROVE  [UPromise!Next]_(UPromise!vars)
<1>1. CASE Compare
  <2>1. UNCHANGED <<vectors, positions>> /\ i \in 1..N
    BY <1>1, LoopFacts DEF Compare, filling
  <2>2. CASE AtEnd(i)
    <3>1. AtEnd(i) /\ ReturnFalse
      BY <1>1, <2>2 DEF Compare
    <3>2. \E j \in 1..N : AtEnd(j)'
      BY <2>1, <3>1 DEF AtEnd
    <3> QED BY <2>1, <3>1, <3>2, ExhaustShown DEF ReturnFalse, UPromise!Next
  <2>3. CASE ~AtEnd(i)
    BY <1>1, <2>1, <2>3, SilentShown DEF Compare
  <2> QED BY <2>2, <2>3
<1>2. ASSUME NEW j \in 1..N, UNCHANGED vectors,
             IF AtEnd(j)' THEN ReturnFalse ELSE UNCHANGED <<pc, last, answer>>
      PROVE  [UPromise!Next]_(UPromise!vars)
  <2>1. CASE AtEnd(j)'
    BY <1>2, <2>1, ExhaustShown DEF ReturnFalse, UPromise!Next
  <2>2. CASE ~AtEnd(j)'
    BY <1>2, <2>2, SilentShown
  <2> QED BY <2>1, <2>2
<1>3. CASE MoveOther
  <2>1. i \in 1..N /\ UNCHANGED <<vectors, i>>
    BY <1>3, LoopFacts DEF MoveOther, filling, ControlOK
  <2>2. IF AtEnd(i)' THEN ReturnFalse ELSE UNCHANGED <<pc, last, answer>>
    BY <1>3, <2>1 DEF MoveOther, AtEnd
  <2>3. \A j \in 1..N : j = i =>
          IF positions'[j] = Len(vectors'[j]) + 1
          THEN ReturnFalse ELSE UNCHANGED <<pc, last, answer>>
    BY <2>1, <2>2 DEF AtEnd
  <2> QED BY <1>2, <2>1, <2>3 DEF AtEnd
<1>4. CASE MoveFirst
  <2>1. 1 \in 1..N /\ UNCHANGED vectors
    BY <1>4, LoopFacts DEF MoveFirst, filling
  <2>2. IF AtEnd(1)' THEN ReturnFalse ELSE UNCHANGED <<pc, last, answer>>
    BY <1>4, <2>1 DEF MoveFirst, AtEnd
  <2> QED BY <1>2, <2>1, <2>2
<1>5. CASE OtherCaughtUp \/ FirstCaughtUp
  BY <1>5, SilentShown DEF OtherCaughtUp, FirstCaughtUp, filling
<1> QED BY <1>1, <1>3, <1>4, <1>5 DEF ULoop

\* The value delivered is common, new, and the least such.
LEMMA ReturnTrueShown ==
  ASSUME UInv, Trusted, ReturnTrue
  PROVE  UPromise!Deliver
<1> ULoop
  BY DEF ULoop
<1>1. vectors' = vectors /\ last' = ValueAt(1) /\ answer' = "yes"
  BY DEF ReturnTrue, filling
<1>2. Common' = Common
  BY <1>1 DEF Common, N
<1>3. ValueAt(1) \in Common
  <2>1. \A j \in 1..N : /\ positions[j] \in DOMAIN vectors[j]
                        /\ vectors[j][positions[j]] = vectors[1][positions[1]]
    <3> SUFFICES ASSUME NEW j \in 1..N
                 PROVE  /\ positions[j] \in DOMAIN vectors[j]
                        /\ vectors[j][positions[j]] = vectors[1][positions[1]]
      OBVIOUS
    <3>1. ~AtEnd(j) /\ vectors[j][positions[j]] = vectors[1][positions[1]]
      BY Agreement DEF ValueAt
    <3>2. positions[j] \in 1..Len(vectors[j]) /\ vectors[j] \in Seq(Nat)
      BY <3>1, LoopFacts DEF Facts
    <3> QED BY <3>1, <3>2
  <2>2. N # 0 /\ positions[1] \in DOMAIN vectors[1]
    BY <2>1, LoopFacts
  <2> QED BY <2>1, <2>2 DEF Common, ValueAt
<1>4. \A w \in Common : w > last => ValueAt(1) <= w
  <2> TAKE w \in Common
  <2>1. w \in Nat /\ (w < ValueAt(1) => w <= last)
    BY LoopFacts, CommonFacts DEF Passed
  <2> QED BY <2>1, LoopFacts
<1> QED BY <1>1, <1>2, <1>3, <1>4, LoopFacts DEF UPromise!Deliver

(* Under the same condition the iterator implements Merge: each advance()  *)
(* answers yes with the least common value not delivered yet, or no when   *)
(* there is none, and in between nothing shows.                            *)
THEOREM CommonDelivered ==
  ASSUME Trusted PROVE USpec => DeliversCommon
<1>1. UInv /\ UInv' /\ [UNext]_uvars => [UPromise!Next]_(UPromise!vars)
  <2> SUFFICES ASSUME UInv, UInv', [UNext]_uvars PROVE [UPromise!Next]_(UPromise!vars)
    OBVIOUS
  <2>1. CASE (\E v \in Vectors : UPushBack(v)) \/ UReset
    BY <2>1, RefillShown DEF UPromise!Next
  <2>2. CASE UAdvance
    BY <2>2, AdvanceShown
  <2>3. CASE ULoop
    BY <2>3, LoopShown, ReturnTrueShown DEF UPromise!Next
  <2>4. CASE UNCHANGED uvars
    BY <2>4, SilentShown DEF uvars, filling
  <2> QED BY <2>1, <2>2, <2>3, <2>4 DEF UNext
<1>2. UInit => UInv /\ UPromise!Init
  BY UInitHolds, InitShown
<1>3. UInv /\ [UNext]_uvars => UInv'
  BY UNextHolds
<1> QED BY <1>1, <1>2, <1>3, PTL DEF USpec, DeliversCommon, UPromise!Spec

-----------------------------------------------------------------------------
(* The existential iterator.                                               *)
Places == [of : Nat, at : Nat]

\* The place k of vector n is still to be delivered.
Ahead(n, k) ==
  \E j \in 1..Len(positions) : positions[j].of = n /\ positions[j].at <= k

IsCollected(n, k) ==
  \E c \in 1..Len(currently_synchronized) :
    currently_synchronized[c] = [of |-> n, at |-> k]

\* Vectors hold ascending numbers.  A position and the end beside it belong to
\* one vector, and no two to the same.
Stored ==
  /\ pushed \in Seq(Vectors \ {<<>>}) /\ Len(pushed) <= MaxPushed
  /\ \A n \in 1..Len(pushed) :
       /\ pushed[n] \in Seq(Nat) /\ Len(pushed[n]) \in Nat \ {0}
       /\ \A k \in 1..Len(pushed[n]) : pushed[n][k] \in Nat
       /\ \A k, l \in 1..Len(pushed[n]) : k < l => pushed[n][k] < pushed[n][l]

InStep ==
  /\ positions \in Seq(Places) /\ ends \in Seq(Places)
  /\ Len(positions) = Len(ends) /\ Len(ends) <= Len(pushed)
  /\ \A j \in 1..Len(positions) :
       /\ positions[j].of \in 1..Len(pushed)
       /\ positions[j].at \in 1..Len(pushed[positions[j].of])+1
       /\ ends[j] = [of |-> positions[j].of, at |-> Len(pushed[positions[j].of])+1]
  /\ \A j, k \in 1..Len(positions) : positions[j].of = positions[k].of => j = k

Numbers ==
  /\ last \in Nat \cup {-1} /\ goal \in Nat \cup {-1} /\ from \in Nat
  /\ next_minimum \in Nat /\ current_minimum \in Nat
  /\ pc \in {"idle", "walk"} /\ i \in 1..MaxPushed+1
  /\ answer \in {"none", "yes", "no"}
  /\ currently_synchronized \in Seq(Places)

\* What has been passed has been delivered, or is about to be.
Behind ==
  \A n \in 1..Len(pushed) : \A k \in 1..Len(pushed[n]) :
    ~ Ahead(n, k) =>
      \/ pushed[n][k] <= last
      \/ pc = "walk" /\ pushed[n][k] = current_minimum /\ IsCollected(n, k)

\* What is ahead has not been delivered.
Undelivered ==
  \A n \in 1..Len(pushed) : \A k \in 1..Len(pushed[n]) :
    Ahead(n, k) => pushed[n][k] > last /\ (pc = "walk" => pushed[n][k] >= current_minimum)

\* What has been collected stands on the value v and lies behind.
DoneWith(p, v) ==
  /\ p.of \in 1..Len(pushed) /\ p.at \in 1..Len(pushed[p.of])
  /\ pushed[p.of][p.at] = v /\ ~ Ahead(p.of, p.at)

OnValue(v) ==
  /\ \A c \in 1..Len(currently_synchronized) : DoneWith(currently_synchronized[c], v)
  /\ \A c, d \in 1..Len(currently_synchronized) :
       currently_synchronized[c] = currently_synchronized[d] => c = d

\* Of the first m positions none is at its end, and next_minimum is the least
\* of their values.
LeastOf(m) ==
  /\ \A j \in 1..m : positions[j] # ends[j] /\ next_minimum <= Value(positions[j])
  /\ m > 0 => \E j \in 1..m : next_minimum = Value(positions[j])

AtRest ==
  pc = "idle" =>
    /\ LeastOf(Len(positions))
    /\ answer = "none" => last = -1 /\ goal = -1 /\ currently_synchronized = <<>>
    /\ answer = "yes" =>
         /\ currently_synchronized # <<>> /\ OnValue(last)
         /\ \A n \in 1..Len(pushed) : \A k \in 1..Len(pushed[n]) :
              pushed[n][k] = last => IsCollected(n, k)
    /\ answer = "no" => currently_synchronized = <<>> /\ positions = <<>>

Walking ==
  pc = "walk" =>
    /\ i <= Len(positions) + 1
    /\ LeastOf(i - 1)
    /\ \A j \in 1..i-1 : Value(positions[j]) > current_minimum
    /\ i = 1 => next_minimum = current_minimum
    /\ OnValue(current_minimum)
    /\ currently_synchronized # <<>> => current_minimum > last
    /\ currently_synchronized = <<>> /\ positions # <<>> =>
         \E j \in i..Len(positions) :
           positions[j] # ends[j] /\ Value(positions[j]) = current_minimum

\* Values that synchronize_with() may still stop at.
Sought == {v \in Offered : v >= goal /\ v >= from}

Asked ==
  goal # -1 =>
    /\ from <= last + 1
    /\ pc = "walk" => \A v \in Sought : v > last
    /\ pc = "idle" /\ answer = "yes" => last \in Sought /\ \A v \in Sought : last <= v
    /\ pc = "idle" /\ answer = "no" => Sought = {}

EInv ==
  /\ MaxPushed \in Nat /\ Stored /\ InStep /\ Numbers
  /\ Behind /\ Undelivered /\ AtRest /\ Walking /\ Asked

-----------------------------------------------------------------------------
(* The iterator starts in order.                                           *)
LEMMA EInitHolds == EInit /\ MaxPushed \in Nat => EInv
<1> SUFFICES ASSUME EInit, MaxPushed \in Nat PROVE EInv
  OBVIOUS
<1> USE DEF EInit
<1>1. Stored /\ InStep /\ Numbers
  BY DEF Stored, InStep, Numbers
<1>2. Behind /\ Undelivered
  BY DEF Behind, Undelivered
<1>3. AtRest /\ Walking /\ Asked
  BY DEF AtRest, Walking, Asked, LeastOf
<1> QED BY ONLY <1>1, <1>2, <1>3, MaxPushed \in Nat DEF EInv

(* What is known of the place that a position stands on.                   *)
LEMMA PositionFacts ==
  ASSUME EInv, NEW j \in 1..Len(positions)
  PROVE  /\ positions[j] \in Places /\ ends[j] \in Places
         /\ positions[j] = [of |-> positions[j].of, at |-> positions[j].at]
         /\ positions[j].of \in 1..Len(pushed)
         /\ positions[j].at \in 1..Len(pushed[positions[j].of])+1
         /\ ends[j] = [of |-> positions[j].of, at |-> Len(pushed[positions[j].of])+1]
         /\ positions[j] = ends[j] <=> positions[j].at = Len(pushed[positions[j].of])+1
         /\ positions[j] # ends[j] =>
              /\ positions[j].at \in 1..Len(pushed[positions[j].of])
              /\ Value(positions[j]) = pushed[positions[j].of][positions[j].at]
              /\ Value(positions[j]) \in Nat
<1>1. positions[j] \in Places /\ ends[j] \in Places
  BY DEF EInv, InStep
<1>2. positions[j] = [of |-> positions[j].of, at |-> positions[j].at]
  BY <1>1 DEF Places
<1>3. /\ positions[j].of \in 1..Len(pushed)
      /\ positions[j].at \in 1..Len(pushed[positions[j].of])+1
      /\ ends[j] = [of |-> positions[j].of, at |-> Len(pushed[positions[j].of])+1]
  BY DEF EInv, InStep
<1>4. positions[j] = ends[j] <=> positions[j].at = Len(pushed[positions[j].of])+1
  BY <1>2, <1>3
<1>5. Len(pushed[positions[j].of]) \in Nat
      /\ \A k \in 1..Len(pushed[positions[j].of]) : pushed[positions[j].of][k] \in Nat
  BY <1>3 DEF EInv, Stored
<1>6. positions[j] # ends[j] => positions[j].at \in 1..Len(pushed[positions[j].of])
  BY <1>3, <1>4, <1>5
<1> QED BY <1>1, <1>2, <1>3, <1>4, <1>5, <1>6 DEF Value

(* The least value at a position is the least value ahead.                 *)
LEMMA LeastAhead ==
  ASSUME EInv, LeastOf(Len(positions)),
         NEW n \in 1..Len(pushed), NEW k \in 1..Len(pushed[n]), Ahead(n, k)
  PROVE  positions # <<>> /\ next_minimum <= pushed[n][k]
<1>1. PICK j \in 1..Len(positions) : positions[j].of = n /\ positions[j].at <= k
  BY DEF Ahead
<1>2. positions # <<>>
  BY <1>1 DEF EInv, InStep
<1>3. positions[j] # ends[j] /\ next_minimum <= Value(positions[j])
  BY DEF LeastOf
<1>4. positions[j].at \in 1..Len(pushed[n]) /\ Value(positions[j]) = pushed[n][positions[j].at]
  BY <1>1, <1>3, PositionFacts
<1>5. PICK a : a = positions[j].at
  OBVIOUS
<1>6. /\ a \in 1..Len(pushed[n]) /\ a <= k /\ Value(positions[j]) = pushed[n][a]
      /\ next_minimum \in Nat /\ pushed[n][k] \in Nat /\ pushed[n][a] \in Nat
  BY <1>1, <1>4, <1>5 DEF EInv, Stored, Numbers
<1>7. a < k => pushed[n][a] < pushed[n][k]
  BY <1>6 DEF EInv, Stored
<1>8. Len(pushed[n]) \in Nat
  BY DEF EInv, Stored
<1> QED BY <1>2, <1>3, <1>6, <1>7, <1>8


\* The values ahead are those above b.
SplitAt(b) ==
  \A n \in 1..Len(pushed) : \A k \in 1..Len(pushed[n]) :
    /\ Ahead(n, k) => pushed[n][k] > b
    /\ ~ Ahead(n, k) => pushed[n][k] <= b

(* Between calls the values ahead are those above the last delivered.      *)
LEMMA SplitAtRest == EInv /\ pc = "idle" => SplitAt(last)
BY DEF EInv, Behind, Undelivered, SplitAt

(* When a walk has ended, they are those above the value it was for, and   *)
(* if nothing was collected nothing is ahead.                              *)
LEMMA SplitAfterWalk ==
  ASSUME EInv, pc = "walk", i > Len(positions)
  PROVE  /\ LeastOf(Len(positions))
         /\ currently_synchronized # <<>> => SplitAt(current_minimum)
         /\ currently_synchronized = <<>> => SplitAt(last) /\ positions = <<>>
<1>1. /\ i <= Len(positions) + 1 /\ i \in Nat /\ Len(positions) \in Nat
      /\ LeastOf(i - 1)
      /\ \A j \in 1..i-1 : Value(positions[j]) > current_minimum
      /\ currently_synchronized # <<>> => current_minimum > last
      /\ currently_synchronized = <<>> /\ positions # <<>> => i <= Len(positions)
  BY DEF EInv, Walking, Numbers, InStep
<1>2. i - 1 = Len(positions)
  BY <1>1
<1>3. LeastOf(Len(positions)) /\ \A j \in 1..Len(positions) : Value(positions[j]) > current_minimum
  BY <1>1, <1>2
<1>4. ASSUME NEW n \in 1..Len(pushed), NEW k \in 1..Len(pushed[n]), Ahead(n, k)
      PROVE  pushed[n][k] > current_minimum /\ positions # <<>>
  <2>1. positions # <<>> /\ next_minimum <= pushed[n][k]
    BY <1>3, <1>4, LeastAhead
  <2>2. Len(positions) > 0
    BY <2>1 DEF EInv, InStep
  <2>3. PICK j \in 1..Len(positions) : next_minimum = Value(positions[j])
    BY <1>3, <2>2 DEF LeastOf
  <2>4. next_minimum > current_minimum
    BY <1>3, <2>3
  <2> QED BY <2>1, <2>4 DEF EInv, Stored, Numbers
<1>5. CASE currently_synchronized # <<>>
  <2>1. current_minimum > last
    BY <1>1, <1>5
  <2>2. \A n \in 1..Len(pushed) : \A k \in 1..Len(pushed[n]) :
          ~ Ahead(n, k) => pushed[n][k] <= last \/ pushed[n][k] = current_minimum
    <3>1. Behind
      BY DEF EInv
    <3> QED BY ONLY <3>1 DEF Behind
  <2>3. \A n \in 1..Len(pushed) : \A k \in 1..Len(pushed[n]) : pushed[n][k] \in Nat
    BY DEF EInv, Stored
  <2>4. last \in Int /\ current_minimum \in Int
    BY DEF EInv, Numbers
  <2>5. SplitAt(current_minimum)
    <3> SUFFICES ASSUME NEW n \in 1..Len(pushed), NEW k \in 1..Len(pushed[n])
                 PROVE  /\ Ahead(n, k) => pushed[n][k] > current_minimum
                        /\ ~ Ahead(n, k) => pushed[n][k] <= current_minimum
      BY DEF SplitAt
    <3>1. ~ Ahead(n, k) => pushed[n][k] <= current_minimum
      BY ONLY <2>1, <2>2, <2>3, <2>4, n \in 1..Len(pushed), k \in 1..Len(pushed[n])
    <3> QED BY <1>4, <3>1
  <2> QED BY <1>3, <1>5, <2>5
<1>6. CASE currently_synchronized = <<>>
  <2>1. positions = <<>>
    BY <1>1, <1>6
  <2>2. \A n \in 1..Len(pushed) : \A k \in 1..Len(pushed[n]) : ~ IsCollected(n, k)
    BY <1>6 DEF IsCollected
  <2>3. \A n \in 1..Len(pushed) : \A k \in 1..Len(pushed[n]) : ~ Ahead(n, k)
    BY <1>4, <2>1
  <2>4. SplitAt(last)
    BY <2>2, <2>3 DEF SplitAt, EInv, Behind
  <2> QED BY <1>3, <1>6, <2>1, <2>4
<1> QED BY <1>3, <1>5, <1>6

(* A walk starts with nothing collected and the least value ahead.         *)
LEMMA WalkStarts ==
  ASSUME EInv, LeastOf(Len(positions)), SplitAt(last'), last' \in Nat \cup {-1},
         StartWalk, UNCHANGED <<places, next_minimum>>
  PROVE  Behind' /\ Undelivered' /\ AtRest' /\ Walking'
<1>1. /\ pushed' = pushed /\ positions' = positions /\ ends' = ends
      /\ next_minimum' = next_minimum /\ current_minimum' = next_minimum
      /\ currently_synchronized' = <<>> /\ pc' = "walk" /\ i' = 1
  BY DEF StartWalk, places
<1>2. \A n, k : Ahead(n, k)' <=> Ahead(n, k)
  BY <1>1 DEF Ahead
<1>3. Behind'
  BY <1>1, <1>2 DEF Behind, SplitAt
<1>4. Undelivered'
  <2> SUFFICES ASSUME NEW n \in 1..Len(pushed), NEW k \in 1..Len(pushed[n]), Ahead(n, k)
               PROVE  pushed[n][k] > last' /\ pushed[n][k] >= next_minimum
    BY <1>1, <1>2 DEF Undelivered
  <2>1. pushed[n][k] > last'
    BY DEF SplitAt
  <2>2. next_minimum <= pushed[n][k]
    BY LeastAhead
  <2> QED BY <2>1, <2>2
<1>5. AtRest'
  BY <1>1 DEF AtRest
<1>6. Walking'
  <2>1. i' <= Len(positions') + 1 /\ LeastOf(i - 1)' /\ OnValue(current_minimum)'
    BY <1>1 DEF LeastOf, OnValue, EInv, InStep
  <2>2. ASSUME positions # <<>>
        PROVE  \E j \in 1..Len(positions) :
                 positions[j] # ends[j] /\ Value(positions[j]) = next_minimum
    <3>1. Len(positions) > 0
      BY <2>2 DEF EInv, InStep
    <3> QED BY <3>1 DEF LeastOf
  <2>4. positions' # <<>> =>
          \E j \in (i..Len(positions))' :
            (positions[j] # ends[j] /\ Value(positions[j]) = current_minimum)'
    BY <1>1, <2>2 DEF Value
  <2> QED BY <1>1, <2>1, <2>4 DEF Walking
<1> QED BY <1>3, <1>4, <1>5, <1>6


(* What is collected stays so where nothing new is ahead.                  *)
LEMMA StaysOnValue ==
  ASSUME NEW CONSTANT v, OnValue(v), pushed' = pushed,
         currently_synchronized' = currently_synchronized,
         \A n \in 1..Len(pushed) : \A k \in 1..Len(pushed[n]) :
           Ahead(n, k)' => Ahead(n, k)
  PROVE  OnValue(v)'
<1>1. ASSUME NEW p, DoneWith(p, v) PROVE DoneWith(p, v)'
  BY <1>1 DEF DoneWith
<1>2. \A c \in 1..Len(currently_synchronized) :
        DoneWith(currently_synchronized[c], v)'
  <2> SUFFICES ASSUME NEW c \in 1..Len(currently_synchronized)
               PROVE  DoneWith(currently_synchronized[c], v)'
    OBVIOUS
  <2>1. PICK p : p = currently_synchronized[c]
    OBVIOUS
  <2>2. DoneWith(p, v)'
    BY <1>1, <2>1 DEF OnValue
  <2> QED BY <2>1, <2>2 DEF DoneWith, Ahead
<1> QED BY <1>2 DEF OnValue

(* A step that changes nothing keeps the invariant.                        *)
LEMMA UnchangedKeeps == EInv /\ UNCHANGED evars => EInv'
<1> SUFFICES ASSUME EInv, UNCHANGED evars PROVE EInv'
  OBVIOUS
<1>1. /\ pushed' = pushed /\ positions' = positions /\ ends' = ends
      /\ currently_synchronized' = currently_synchronized
      /\ next_minimum' = next_minimum /\ current_minimum' = current_minimum
      /\ pc' = pc /\ i' = i /\ goal' = goal /\ from' = from
      /\ last' = last /\ answer' = answer
  BY DEF evars, places, asked
<1>2. Stored' /\ InStep' /\ Numbers'
  <2>1. Stored'
    BY <1>1 DEF EInv, Stored
  <2>2. InStep'
    BY <1>1 DEF EInv, InStep
  <2>3. Numbers'
    BY <1>1 DEF EInv, Numbers
  <2> QED BY <2>1, <2>2, <2>3
<1>5. Behind' /\ Undelivered'
  BY <1>1 DEF EInv, Behind, Undelivered, Ahead, IsCollected
<1>3. AtRest'
  BY <1>1 DEF EInv, AtRest, LeastOf, OnValue, DoneWith, Ahead, IsCollected, Value
<1>6. Walking'
  BY <1>1 DEF EInv, Walking, LeastOf, OnValue, DoneWith, Ahead, Value
<1>4. Asked'
  BY <1>1 DEF EInv, Asked, Sought, Offered
<1> QED BY <1>2, <1>3, <1>4, <1>5, <1>6 DEF EInv

(* Pushing a vector adds its values to those ahead.                        *)
LEMMA PushBackKeeps ==
  ASSUME EInv, NEW v \in Vectors, EPushBack(v)
  PROVE  EInv'
<1>1. CASE v = <<>>
  <2>1. UNCHANGED evars
    BY <1>1 DEF EPushBack, places, evars, asked
  <2> QED BY <2>1, UnchangedKeeps
<1>2. CASE v # <<>>
  <2>0. PICK m : m = Len(pushed) + 1
    OBVIOUS
  <2>1. /\ pc = "idle" /\ answer = "none" /\ Len(pushed) < MaxPushed
        /\ next_minimum' = IF positions = <<>> \/ next_minimum > v[1]
                           THEN v[1] ELSE next_minimum
        /\ pushed' = Append(pushed, v)
        /\ positions' = Append(positions, [of |-> m, at |-> 1])
        /\ ends' = Append(ends, [of |-> m, at |-> Len(v) + 1])
        /\ currently_synchronized' = currently_synchronized
        /\ current_minimum' = current_minimum
        /\ pc' = pc /\ i' = i /\ goal' = goal /\ from' = from
        /\ last' = last /\ answer' = answer
    BY <1>2, <2>0 DEF EPushBack, Place, asked
  <2>2. /\ last = -1 /\ goal = -1 /\ currently_synchronized = <<>>
        /\ LeastOf(Len(positions))
    BY <2>1 DEF EInv, AtRest
  <2>3. /\ v \in Seq(Nat) /\ Len(v) \in Nat \ {0} /\ DOMAIN v = 1..Len(v)
        /\ \A k \in 1..Len(v) : v[k] \in Nat
        /\ \A k, l \in 1..Len(v) : k < l => v[k] < v[l]
    BY <1>2, VectorsAssumption DEF Ascending
  <2>4. /\ Len(pushed) \in Nat /\ Len(pushed') = m
        /\ \A n \in 1..Len(pushed) : pushed'[n] = pushed[n]
        /\ pushed'[m] = v /\ m \in Nat /\ m = Len(pushed) + 1
    BY <2>0, <2>1 DEF EInv, Stored
  <2>5. Stored'
    <3>1. pushed' \in Seq(Vectors \ {<<>>}) /\ Len(pushed') <= MaxPushed
      BY <1>2, <2>1, <2>4 DEF EInv, Stored
    <3>2. ASSUME NEW n \in 1..Len(pushed')
          PROVE  /\ pushed'[n] \in Seq(Nat) /\ Len(pushed'[n]) \in Nat \ {0}
                 /\ \A k \in 1..Len(pushed'[n]) : pushed'[n][k] \in Nat
                 /\ \A k, l \in 1..Len(pushed'[n]) : k < l => pushed'[n][k] < pushed'[n][l]
      <4>1. CASE n = m
        BY <2>3, <2>4, <4>1
      <4>2. CASE n \in 1..Len(pushed)
        BY <2>4, <4>2 DEF EInv, Stored
      <4> QED BY <2>4, <4>1, <4>2
    <3> QED BY <3>1, <3>2 DEF Stored
  <2>6. /\ Len(positions) \in Nat /\ Len(positions') = Len(positions) + 1
        /\ Len(ends) = Len(positions) /\ Len(ends') = Len(positions')
        /\ \A j \in 1..Len(positions) : positions'[j] = positions[j] /\ ends'[j] = ends[j]
        /\ positions'[Len(positions)+1] = [of |-> m, at |-> 1]
        /\ ends'[Len(positions)+1] = [of |-> m, at |-> Len(v) + 1]
        /\ \A j \in 1..Len(positions) : positions[j].of \in 1..Len(pushed)
    <3>1. positions \in Seq(Places) /\ ends \in Seq(Places) /\ Len(ends) = Len(positions)
      BY DEF EInv, InStep
    <3>2. \A j \in 1..Len(positions) : positions[j].of \in 1..Len(pushed)
      BY DEF EInv, InStep
    <3>3. [of |-> m, at |-> 1] \in Places /\ [of |-> m, at |-> Len(v)+1] \in Places
      BY <2>3, <2>4 DEF Places
    <3> QED BY <2>1, <3>1, <3>2, <3>3
  <2>7. InStep'
    <3>1. [of |-> m, at |-> 1] \in Places /\ [of |-> m, at |-> Len(v)+1] \in Places
      BY <2>3, <2>4 DEF Places
    <3>2. /\ positions' \in Seq(Places) /\ ends' \in Seq(Places)
          /\ Len(positions') = Len(ends') /\ Len(ends') <= Len(pushed')
      BY <2>1, <2>4, <2>6, <3>1 DEF EInv, InStep
    <3>3. ASSUME NEW j \in 1..Len(positions')
          PROVE  /\ positions'[j].of \in 1..Len(pushed')
                 /\ positions'[j].at \in 1..Len(pushed'[positions'[j].of])+1
                 /\ ends'[j] = [of |-> positions'[j].of, at |-> Len(pushed'[positions'[j].of])+1]
      <4>1. CASE j = Len(positions) + 1
        BY <2>3, <2>4, <2>6, <4>1
      <4>2. CASE j \in 1..Len(positions)
        <5>1. /\ positions[j].of \in 1..Len(pushed)
              /\ positions[j].at \in 1..Len(pushed[positions[j].of])+1
              /\ ends[j] = [of |-> positions[j].of, at |-> Len(pushed[positions[j].of])+1]
          BY <4>2, PositionFacts
        <5>2. positions'[j] = positions[j] /\ ends'[j] = ends[j]
          BY <2>6, <4>2
        <5>3. pushed'[positions[j].of] = pushed[positions[j].of]
          BY <2>4, <5>1
        <5>4. positions[j].of \in 1..Len(pushed')
          BY <2>4, <5>1
        <5> QED BY <5>1, <5>2, <5>3, <5>4
      <4> QED BY <2>6, <4>1, <4>2
    <3>4. ASSUME NEW j \in 1..Len(positions'), NEW k \in 1..Len(positions'),
                 positions'[j].of = positions'[k].of
          PROVE  j = k
      <4>1. CASE j = Len(positions) + 1 \/ k = Len(positions) + 1
        BY <2>4, <2>6, <3>4, <4>1
      <4>2. CASE j \in 1..Len(positions) /\ k \in 1..Len(positions)
        BY <2>6, <3>4, <4>2 DEF EInv, InStep
      <4> QED BY <2>6, <4>1, <4>2
    <3> QED BY <3>2, <3>3, <3>4 DEF InStep
  <2>8. Numbers'
    BY <2>1, <2>3 DEF EInv, Numbers
  <2>9. ASSUME NEW n \in 1..Len(pushed), NEW k
        PROVE  Ahead(n, k)' <=> Ahead(n, k)
    <3>1. 1..Len(positions') = (1..Len(positions)) \cup {Len(positions)+1}
      BY <2>6
    <3>2. positions'[Len(positions)+1].of # n
      BY <2>4, <2>6
    <3> QED BY <2>6, <3>1, <3>2 DEF Ahead
  <2>10. \A k \in 1..Len(v) : Ahead(m, k)'
    BY <2>3, <2>6 DEF Ahead
  <2>11. Behind' /\ Undelivered'
    <3>1. SplitAt(last)
      BY <2>1, SplitAtRest
    <3>2. SplitAt(last)'
      <4> SUFFICES ASSUME NEW n \in 1..Len(pushed'), NEW k \in 1..Len(pushed'[n])
                   PROVE  /\ Ahead(n, k)' => pushed'[n][k] > last
                          /\ ~ Ahead(n, k)' => pushed'[n][k] <= last
        BY <2>1 DEF SplitAt
      <4>1. CASE n = m
        BY <2>2, <2>3, <2>4, <2>10, <4>1
      <4>2. CASE n \in 1..Len(pushed)
        BY <2>4, <2>9, <3>1, <4>2 DEF SplitAt
      <4> QED BY <2>4, <4>1, <4>2
    <3> QED BY <2>1, <3>2 DEF Behind, Undelivered, SplitAt
  <2>12. AtRest'
    <3>1. ASSUME NEW j \in 1..Len(positions)
          PROVE  pushed'[positions'[j].of][positions'[j].at] = Value(positions[j])
      BY <2>4, <2>6 DEF Value
    <3>2. LET e == positions'[Len(positions)+1] IN pushed'[e.of][e.at] = v[1]
      BY <2>4, <2>6
    <3>3. /\ \A j \in 1..Len(positions) :
               positions[j] # ends[j] /\ next_minimum <= Value(positions[j])
          /\ positions # <<>> => \E j \in 1..Len(positions) : next_minimum = Value(positions[j])
          /\ \A j \in 1..Len(positions) : Value(positions[j]) \in Nat
      <4>1. positions # <<>> => Len(positions) > 0
        BY <2>6
      <4> QED BY <2>2, <4>1, PositionFacts DEF LeastOf
    <3>4. next_minimum \in Nat /\ v[1] \in Nat
      BY <2>3 DEF EInv, Numbers
    <3>5. ASSUME NEW j \in 1..Len(positions')
          PROVE  /\ positions'[j] # ends'[j]
                 /\ next_minimum' <= pushed'[positions'[j].of][positions'[j].at]
      <4>1. CASE j = Len(positions) + 1
        <5>1. positions'[j] # ends'[j]
          BY <2>3, <2>6, <4>1
        <5>2. pushed'[positions'[j].of][positions'[j].at] = v[1]
          BY <3>2, <2>6, <4>1
        <5>3. next_minimum' <= v[1]
          BY <2>1, <3>4
        <5> QED BY <5>1, <5>2, <5>3
      <4>2. CASE j \in 1..Len(positions)
        BY <2>1, <2>6, <3>1, <3>3, <3>4, <4>2
      <4> QED BY <2>6, <4>1, <4>2
    <3>6. \E j \in 1..Len(positions') :
            next_minimum' = pushed'[positions'[j].of][positions'[j].at]
      <4>1. CASE next_minimum' = v[1]
        <5>1. Len(positions) + 1 \in 1..Len(positions')
          BY <2>6
        <5> QED BY <3>2, <4>1, <5>1
      <4>2. CASE next_minimum' # v[1]
        <5>1. positions # <<>> /\ next_minimum' = next_minimum
          BY <2>1, <4>2
        <5>2. PICK j \in 1..Len(positions) : next_minimum = Value(positions[j])
          BY <3>3, <5>1
        <5>3. pushed'[positions'[j].of][positions'[j].at] = next_minimum
          BY <2>6, <3>1, <5>2
        <5> QED BY <2>6, <5>1, <5>3
      <4> QED BY <4>1, <4>2
    <3>7. LeastOf(Len(positions))'
      BY <3>5, <3>6 DEF LeastOf, Value
    <3> QED BY <2>1, <2>2, <3>7 DEF AtRest
  <2>13. Walking' /\ Asked'
    BY <2>1, <2>2 DEF Walking, Asked
  <2> QED BY <2>5, <2>7, <2>8, <2>11, <2>12, <2>13 DEF EInv
<1> QED BY <1>1, <1>2


(* A reset iterator is as at the start, but for next_minimum.              *)
LEMMA ResetKeeps ==
  ASSUME EInv, EReset
  PROVE  EInv'
<1>1. /\ pc = "idle" /\ pc' = pc /\ i' = i
      /\ pushed' = <<>> /\ positions' = <<>> /\ ends' = <<>>
      /\ currently_synchronized' = <<>>
      /\ goal' = -1 /\ from' = 0 /\ last' = -1 /\ answer' = "none"
      /\ next_minimum' = next_minimum /\ current_minimum' = current_minimum
  BY DEF EReset
<1>2. Stored' /\ InStep'
  BY <1>1 DEF Stored, InStep, EInv
<1>3. Numbers'
  BY <1>1 DEF Numbers, EInv
<1>4. Behind' /\ Undelivered'
  BY <1>1 DEF Behind, Undelivered
<1>5. AtRest' /\ Walking' /\ Asked'
  BY <1>1 DEF AtRest, Walking, Asked, LeastOf
<1> QED BY <1>2, <1>3, <1>4, <1>5 DEF EInv

(* What a step that starts a walk leaves of the types.                     *)
LEMMA WalkTypes ==
  ASSUME EInv, UNCHANGED <<places, next_minimum>>,
         last' \in Nat \cup {-1}, goal' \in Nat \cup {-1}, from' \in Nat,
         answer' \in {"none", "yes", "no"}, StartWalk
  PROVE  Stored' /\ InStep' /\ Numbers'
<1>1. /\ pushed' = pushed /\ positions' = positions /\ ends' = ends
      /\ next_minimum' = next_minimum /\ current_minimum' = next_minimum
      /\ currently_synchronized' = <<>> /\ pc' = "walk" /\ i' = 1
  BY DEF StartWalk, places
<1>2. Stored' /\ InStep'
  BY <1>1 DEF Stored, InStep, EInv
<1>3. Numbers'
  <2>1. 1 \in 1..MaxPushed+1
    BY DEF EInv
  <2> QED BY <1>1, <2>1 DEF Numbers, EInv
<1> QED BY <1>2, <1>3

(* advance() starts a walk.                                                *)
LEMMA AdvanceKeeps ==
  ASSUME EInv, EAdvance
  PROVE  EInv'
<1>1. /\ pc = "idle" /\ StartWalk /\ goal' = -1 /\ from' = 0 /\ answer' = "none"
      /\ UNCHANGED <<places, next_minimum>> /\ last' = last
  BY DEF EAdvance
<1>2. LeastOf(Len(positions)) /\ last \in Nat \cup {-1} /\ SplitAt(last)
  BY <1>1, SplitAtRest DEF EInv, AtRest, Numbers
<1>3. SplitAt(last') /\ last' \in Nat \cup {-1}
  BY <1>1, <1>2
<1>4. Behind' /\ Undelivered' /\ AtRest' /\ Walking'
  BY <1>1, <1>2, <1>3, WalkStarts
<1>5. Stored' /\ InStep' /\ Numbers'
  BY <1>1, <1>3, WalkTypes
<1>6. Asked'
  BY <1>1 DEF Asked
<1> QED BY <1>4, <1>5, <1>6 DEF EInv

(* What is delivered while the iterator rests is the value at the places   *)
(* collected.                                                              *)
LEMMA RestingValue ==
  ASSUME EInv, pc = "idle", currently_synchronized # <<>>
  PROVE  /\ answer = "yes" /\ Value(currently_synchronized[1]) = last
         /\ last \in Offered
<1>1. answer = "yes" /\ OnValue(last)
  BY DEF EInv, AtRest, Numbers
<1>2. 1 \in 1..Len(currently_synchronized)
  BY DEF EInv, Numbers
<1>3. PICK p : p = currently_synchronized[1]
  OBVIOUS
<1>4. p.of \in 1..Len(pushed) /\ p.at \in 1..Len(pushed[p.of]) /\ pushed[p.of][p.at] = last
  BY <1>1, <1>2, <1>3 DEF OnValue, DoneWith
<1>5. last \in Offered
  BY <1>4 DEF Offered, EInv, Stored
<1> QED BY <1>1, <1>3, <1>4, <1>5 DEF Value

(* synchronize_with() stops at once or starts a walk for a value that is   *)
(* not below what it looks for.                                            *)
LEMMA SynchronizeWithKeeps ==
  ASSUME EInv, NEW v \in Nat, SynchronizeWith(v)
  PROVE  EInv'
<1>1. /\ pc = "idle" /\ goal' = v
      /\ from' = IF currently_synchronized # <<>> THEN last ELSE last + 1
      /\ UNCHANGED <<places, next_minimum>> /\ last' = last
  BY DEF SynchronizeWith, is_synchronized
<1>2. LeastOf(Len(positions)) /\ last \in Nat \cup {-1} /\ SplitAt(last)
  BY <1>1, SplitAtRest DEF EInv, AtRest, Numbers
<1>3. SplitAt(last') /\ last' \in Nat \cup {-1}
  BY <1>1, <1>2
<1>4. /\ pushed' = pushed /\ positions' = positions /\ ends' = ends
      /\ Offered' = Offered
  BY <1>1 DEF places, Offered
<1>5. currently_synchronized # <<>> => last \in Nat
  <2>1. Offered \subseteq Nat
    BY DEF Offered, EInv, Stored
  <2> QED BY <1>1, <2>1, RestingValue
<1>6. from' \in Nat /\ from' <= last + 1
  BY <1>1, <1>2, <1>5
<1>7. CASE currently_synchronized # <<>> /\ last >= v
  <2>1. /\ answer = "yes" /\ Value(currently_synchronized[1]) = last
        /\ last \in Offered
    BY <1>1, <1>7, RestingValue
  <2>2. /\ currently_synchronized' = currently_synchronized
        /\ current_minimum' = current_minimum /\ pc' = pc /\ i' = i
        /\ answer' = answer /\ next_minimum' = next_minimum
    BY <1>7, <2>1 DEF SynchronizeWith, is_synchronized
  <2>3. Stored' /\ InStep'
    BY <1>4 DEF EInv, Stored, InStep
  <2>4. Numbers'
    BY <1>1, <1>6, <2>2 DEF EInv, Numbers
  <2>5. Behind' /\ Undelivered'
    BY <1>1, <1>4, <2>2 DEF EInv, Behind, Undelivered, Ahead, IsCollected
  <2>6. AtRest' /\ Walking'
    BY <1>1, <1>4, <2>1, <2>2 DEF EInv, AtRest, Walking, LeastOf, OnValue, DoneWith, Ahead,
      IsCollected, Value
  <2>7. last' \in Sought' /\ \A w \in Sought' : last' <= w
    <3>1. Sought' = {w \in Offered : w >= v /\ w >= last}
      BY <1>1, <1>4, <1>7 DEF Sought
    <3> QED BY <1>1, <1>5, <1>7, <2>1, <3>1
  <2>8. Asked'
    BY <1>1, <1>6, <2>1, <2>2, <2>7 DEF Asked
  <2> QED BY <2>3, <2>4, <2>5, <2>6, <2>8 DEF EInv
<1>8. CASE ~ (currently_synchronized # <<>> /\ last >= v)
  <2>1. StartWalk /\ answer' = "none"
    BY <1>1, <1>8, RestingValue DEF SynchronizeWith, is_synchronized
  <2>2. Behind' /\ Undelivered' /\ AtRest' /\ Walking'
    BY <1>1, <1>2, <1>3, <2>1, WalkStarts
  <2>3. Stored' /\ InStep' /\ Numbers'
    BY <1>1, <1>3, <1>6, <2>1, WalkTypes
  <2>4. \A w \in Sought' : w > last'
    <3>1. Offered \subseteq Nat
      BY DEF Offered, EInv, Stored
    <3> QED BY <1>1, <1>2, <1>4, <1>8, <3>1 DEF Sought
  <2>5. pc' = "walk"
    BY <2>1 DEF StartWalk
  <2>6. Asked'
    BY <1>1, <1>6, <2>4, <2>5 DEF Asked
  <2> QED BY <2>2, <2>3, <2>6 DEF EInv
<1> QED BY <1>7, <1>8


(* A vector that is used up leaves: nothing ahead is lost, and the last    *)
(* position takes its place together with its end.                         *)
LEMMA DropKeeps ==
  ASSUME EInv, DropExhausted
  PROVE  EInv'
<1>1. PICK m : m = Len(positions)
  OBVIOUS
<1>2. /\ pc = "walk" /\ i <= m /\ positions[i] = ends[i]
      /\ positions' = SubSeq([positions EXCEPT ![i] = positions[m]], 1, m-1)
      /\ ends' = SubSeq([ends EXCEPT ![i] = ends[m]], 1, m-1)
      /\ pushed' = pushed /\ currently_synchronized' = currently_synchronized
      /\ next_minimum' = next_minimum /\ current_minimum' = current_minimum
      /\ pc' = pc /\ i' = i /\ goal' = goal /\ from' = from
      /\ last' = last /\ answer' = answer
  BY <1>1 DEF DropExhausted, asked
<1>3. /\ m \in Nat \ {0} /\ i \in 1..m /\ Len(ends) = m
      /\ positions \in Seq(Places) /\ ends \in Seq(Places)
  BY <1>1, <1>2 DEF EInv, InStep, Numbers
<1> DEFINE old(j) == IF j = i THEN m ELSE j
<1>4. /\ positions' \in Seq(Places) /\ Len(positions') = m - 1
      /\ ends' \in Seq(Places) /\ Len(ends') = m - 1
      /\ \A j \in 1..m-1 : positions'[j] = positions[old(j)] /\ ends'[j] = ends[old(j)]
  BY <1>1, <1>2, <1>3
<1>5. /\ \A j \in 1..m-1 : old(j) \in 1..m /\ old(j) # i /\ (j < i => old(j) = j)
      /\ \A j, k \in 1..m-1 : old(j) = old(k) => j = k
      /\ \A l \in 1..m : l # i => \E j \in 1..m-1 : old(j) = l /\ (l >= i => j >= i)
  <2>1. \A j \in 1..m-1 : old(j) \in 1..m /\ old(j) # i /\ (j < i => old(j) = j)
    BY <1>3
  <2>2. \A j, k \in 1..m-1 : old(j) = old(k) => j = k
    BY <1>3
  <2>3. ASSUME NEW l \in 1..m, l # i
        PROVE  \E j \in 1..m-1 : old(j) = l /\ (l >= i => j >= i)
    <3>1. CASE l = m
      <4>1. i \in 1..m-1 /\ old(i) = l
        BY <1>3, <2>3, <3>1
      <4> QED BY <1>3, <4>1
    <3>2. CASE l # m
      <4>1. l \in 1..m-1 /\ old(l) = l
        BY <1>3, <2>3, <3>2
      <4> QED BY <4>1
    <3> QED BY <3>1, <3>2
  <2> QED BY <2>1, <2>2, <2>3
<1> HIDE DEF old
<1>6. Stored' /\ Numbers'
  BY <1>2 DEF EInv, Stored, Numbers
<1>7. InStep'
  <2>1. Len(positions') = Len(ends') /\ Len(ends') <= Len(pushed')
    BY <1>1, <1>2, <1>3, <1>4 DEF EInv, InStep, Stored
  <2>2. ASSUME NEW j \in 1..Len(positions')
        PROVE  /\ positions'[j].of \in 1..Len(pushed')
               /\ positions'[j].at \in 1..Len(pushed'[positions'[j].of])+1
               /\ ends'[j] = [of |-> positions'[j].of, at |-> Len(pushed'[positions'[j].of])+1]
    <3>1. old(j) \in 1..Len(positions)
      BY <1>1, <1>4, <1>5
    <3>2. /\ positions[old(j)].of \in 1..Len(pushed)
          /\ positions[old(j)].at \in 1..Len(pushed[positions[old(j)].of])+1
          /\ ends[old(j)] = [of |-> positions[old(j)].of, at |-> Len(pushed[positions[old(j)].of])+1]
      BY <3>1, PositionFacts
    <3> QED BY <1>2, <1>4, <3>2
  <2>3. ASSUME NEW j \in 1..Len(positions'), NEW k \in 1..Len(positions'),
               positions'[j].of = positions'[k].of
        PROVE  j = k
    <3>1. old(j) \in 1..Len(positions) /\ old(k) \in 1..Len(positions)
      BY <1>1, <1>4, <1>5
    <3>2. positions[old(j)].of = positions[old(k)].of
      BY <1>4, <2>3
    <3>3. old(j) = old(k)
      BY <3>1, <3>2 DEF EInv, InStep
    <3> QED BY <1>4, <1>5, <3>3
  <2> QED BY <1>4, <2>1, <2>2, <2>3 DEF InStep
<1>8. ASSUME NEW n \in 1..Len(pushed), NEW k \in 1..Len(pushed[n])
      PROVE  Ahead(n, k)' <=> Ahead(n, k)
  <2>1. ASSUME Ahead(n, k) PROVE Ahead(n, k)'
    <3>1. PICK l \in 1..Len(positions) : positions[l].of = n /\ positions[l].at <= k
      BY <2>1 DEF Ahead
    <3>2. l # i
      <4>1. positions[l] = ends[l] => positions[l].at = Len(pushed[n]) + 1
        BY <3>1, PositionFacts
      <4>2. Len(pushed[n]) \in Nat
        BY DEF EInv, Stored
      <4> QED BY <1>2, <3>1, <4>1, <4>2
    <3>3. PICK j \in 1..m-1 : old(j) = l
      BY <1>1, <1>5, <3>2
    <3> QED BY <1>4, <3>1, <3>3 DEF Ahead
  <2>2. ASSUME Ahead(n, k)' PROVE Ahead(n, k)
    <3>1. PICK j \in 1..m-1 : positions'[j].of = n /\ positions'[j].at <= k
      BY <1>4, <2>2 DEF Ahead
    <3>2. old(j) \in 1..Len(positions) /\ positions'[j] = positions[old(j)]
      BY <1>1, <1>4, <1>5
    <3> QED BY <3>1, <3>2 DEF Ahead
  <2> QED BY <2>1, <2>2
<1>9. Behind' /\ Undelivered'
  BY <1>2, <1>8 DEF EInv, Behind, Undelivered, IsCollected
<1>10. \A j \in 1..m-1 : Value(positions[old(j)]) = pushed'[positions'[j].of][positions'[j].at]
  BY <1>2, <1>4 DEF Value
<1>11. Walking'
  <2>1. LeastOf(i-1) /\ i - 1 \in Nat /\ i - 1 <= m - 1
        /\ \A j \in 1..i-1 : Value(positions[j]) > current_minimum
    BY <1>2, <1>3 DEF EInv, Walking
  <2>2. \A j \in 1..i-1 : old(j) = j /\ j \in 1..m-1
    BY <1>3, <1>5
  <2>3. LeastOf(i-1)'
    BY <1>2, <1>4, <1>10, <2>1, <2>2 DEF LeastOf, Value
  <2>4. \A j \in 1..i-1 : pushed'[positions'[j].of][positions'[j].at] > current_minimum
    BY <1>4, <1>10, <2>1, <2>2
  <2>5. OnValue(current_minimum)'
    <3>1. OnValue(current_minimum)
      BY <1>2 DEF EInv, Walking
    <3>2. PICK v : v = current_minimum
      OBVIOUS
    <3>3. OnValue(v)'
      BY <1>2, <1>8, <3>1, <3>2, StaysOnValue
    <3> QED BY <1>2, <3>2, <3>3 DEF OnValue, DoneWith
  <2>6. ASSUME currently_synchronized = <<>>, positions' # <<>>
        PROVE  \E j \in i..m-1 :
                 /\ positions'[j] # ends'[j]
                 /\ pushed'[positions'[j].of][positions'[j].at] = current_minimum
    <3>1. positions # <<>>
      BY <1>1, <1>3
    <3>2. PICK l \in i..m : positions[l] # ends[l] /\ Value(positions[l]) = current_minimum
      BY <1>1, <1>2, <2>6, <3>1 DEF EInv, Walking
    <3>3. PICK j \in 1..m-1 : old(j) = l /\ j >= i
      BY <1>2, <1>3, <1>5, <3>2
    <3>4. j \in i..m-1
      BY <1>3, <3>3
    <3> QED BY <1>4, <1>10, <3>2, <3>3, <3>4
  <2>7. i' <= Len(positions') + 1
    BY <1>2, <1>3, <1>4
  <2>8. (i = 1 => next_minimum = current_minimum)
        /\ (currently_synchronized # <<>> => current_minimum > last)
    BY <1>2 DEF EInv, Walking
  <2> QED BY <1>2, <1>4, <2>3, <2>4, <2>5, <2>6, <2>7, <2>8 DEF Walking, Value
<1>12. AtRest' /\ Asked'
  BY <1>2 DEF EInv, AtRest, Asked, Sought, Offered
<1> QED BY <1>6, <1>7, <1>9, <1>11, <1>12 DEF EInv


(* The place a position stands on is collected and passed: it is the only  *)
(* one that is no longer ahead.                                            *)
LEMMA CollectKeeps ==
  ASSUME EInv, Collect
  PROVE  EInv'
<1>1. PICK p : p = positions[i]
  OBVIOUS
<1>2. PICK q : q = [p EXCEPT !.at = @ + 1]
  OBVIOUS
<1>3. /\ pc = "walk" /\ i <= Len(positions) /\ p # ends[i]
      /\ Value(p) = current_minimum
      /\ currently_synchronized' = Append(currently_synchronized, p)
      /\ positions' = [positions EXCEPT ![i] = q]
      /\ ends' = ends /\ pushed' = pushed
      /\ next_minimum' = next_minimum /\ current_minimum' = current_minimum
      /\ pc' = pc /\ i' = i /\ goal' = goal /\ from' = from
      /\ last' = last /\ answer' = answer
  BY <1>1, <1>2 DEF Collect, asked
<1>4. i \in 1..Len(positions) /\ Len(positions) \in Nat /\ i \in Nat
  BY <1>3 DEF EInv, InStep, Numbers
<1>5. PICK n, k : n = p.of /\ k = p.at
  OBVIOUS
<1>6. /\ p \in Places /\ p = [of |-> n, at |-> k]
      /\ n \in 1..Len(pushed) /\ k \in 1..Len(pushed[n]) /\ Len(pushed[n]) \in Nat
      /\ pushed[n][k] = current_minimum
      /\ ends[i] = [of |-> n, at |-> Len(pushed[n])+1]
  <2>1. /\ p \in Places /\ p = [of |-> n, at |-> k]
        /\ n \in 1..Len(pushed) /\ k \in 1..Len(pushed[n])
        /\ ends[i] = [of |-> n, at |-> Len(pushed[n])+1]
    BY <1>1, <1>3, <1>4, <1>5, PositionFacts
  <2>2. pushed[n][k] = current_minimum
    BY <1>3, <1>5 DEF Value
  <2>3. Len(pushed[n]) \in Nat
    BY <2>1 DEF EInv, Stored
  <2> QED BY <2>1, <2>2, <2>3
<1>7. q = [of |-> n, at |-> k+1] /\ q \in Places
  BY <1>2, <1>6 DEF Places
<1>8. /\ positions' \in Seq(Places) /\ Len(positions') = Len(positions)
      /\ positions'[i] = q
      /\ \A j \in 1..Len(positions) : j # i => positions'[j] = positions[j]
  <2>1. positions \in Seq(Places)
    BY DEF EInv, InStep
  <2> QED BY <1>3, <1>4, <1>7, <2>1
<1>9. \A j \in 1..Len(positions) : positions[j].of = n => j = i
  BY <1>1, <1>4, <1>5 DEF EInv, InStep
<1>10. Stored'
  BY <1>3 DEF EInv, Stored
<1>11. InStep'
  <2>1. Len(positions') = Len(ends') /\ Len(ends') <= Len(pushed') /\ ends' \in Seq(Places)
    BY <1>3, <1>8 DEF EInv, InStep
  <2>2. \A j \in 1..Len(positions') : positions'[j].of = positions[j].of
    BY <1>1, <1>5, <1>7, <1>8
  <2>3. ASSUME NEW j \in 1..Len(positions')
        PROVE  /\ positions'[j].of \in 1..Len(pushed')
               /\ positions'[j].at \in 1..Len(pushed'[positions'[j].of])+1
               /\ ends'[j] = [of |-> positions'[j].of, at |-> Len(pushed'[positions'[j].of])+1]
    <3>1. CASE j = i
      BY <1>3, <1>6, <1>7, <1>8, <3>1
    <3>2. CASE j # i
      BY <1>3, <1>8, <3>2, PositionFacts
    <3> QED BY <3>1, <3>2
  <2>4. \A j, l \in 1..Len(positions') : positions'[j].of = positions'[l].of => j = l
    BY <1>8, <2>2 DEF EInv, InStep
  <2> QED BY <1>8, <2>1, <2>3, <2>4 DEF InStep
<1>12. /\ currently_synchronized \in Seq(Places)
       /\ currently_synchronized' \in Seq(Places)
       /\ Len(currently_synchronized) \in Nat
       /\ Len(currently_synchronized') = Len(currently_synchronized) + 1
       /\ \A c \in 1..Len(currently_synchronized) :
            currently_synchronized'[c] = currently_synchronized[c]
       /\ currently_synchronized'[Len(currently_synchronized)+1] = p
  BY <1>3, <1>6 DEF EInv, Numbers
<1>13. Numbers'
  BY <1>3, <1>12 DEF EInv, Numbers
<1>14. /\ Ahead(n, k)
       /\ \A a \in 1..Len(pushed), b \in Nat :
            Ahead(a, b)' <=> Ahead(a, b) /\ ~ (a = n /\ b = k)
  <2>1. Ahead(n, k)
    BY <1>1, <1>4, <1>5, <1>6 DEF Ahead
  <2>2. ASSUME NEW a \in 1..Len(pushed), NEW b \in Nat
        PROVE  Ahead(a, b)' <=> Ahead(a, b) /\ ~ (a = n /\ b = k)
    <3>1. CASE a # n
      <4>1. \A j \in 1..Len(positions) :
              positions'[j].of = a /\ positions'[j].at <= b <=>
              positions[j].of = a /\ positions[j].at <= b
        BY <1>1, <1>5, <1>7, <1>8, <3>1
      <4> QED BY <1>8, <3>1, <4>1 DEF Ahead
    <3>2. CASE a = n
      <4>1. Ahead(n, b) <=> k <= b
        BY <1>1, <1>4, <1>5, <1>9 DEF Ahead
      <4>2. Ahead(n, b)' <=> k+1 <= b
        <5>1. \A j \in 1..Len(positions') : positions'[j].of = n => j = i
          BY <1>8, <1>9
        <5>2. positions'[i].of = n /\ positions'[i].at = k+1 /\ i \in 1..Len(positions')
          BY <1>4, <1>7, <1>8
        <5>3. (\E j \in 1..Len(positions') : positions'[j].of = n /\ positions'[j].at <= b)
              <=> k+1 <= b
          BY <5>1, <5>2
        <5>4. PICK nn : nn = n
          OBVIOUS
        <5> QED BY <5>3 DEF Ahead
      <4> QED BY <1>6, <3>2, <4>1, <4>2
    <3> QED BY <3>1, <3>2
  <2> QED BY <2>1, <2>2
<1>15. \A a, b : IsCollected(a, b)' <=> IsCollected(a, b) \/ (a = n /\ b = k)
  <2>1. 1..Len(currently_synchronized') =
          (1..Len(currently_synchronized)) \cup {Len(currently_synchronized)+1}
    BY <1>12
  <2>2. ASSUME NEW a, NEW b
        PROVE  p = [of |-> a, at |-> b] <=> a = n /\ b = k
    <3>1. p = [of |-> a, at |-> b] => p.of = a /\ p.at = b
      OBVIOUS
    <3>2. p = [of |-> n, at |-> k]
      BY <1>6
    <3>3. p = [of |-> a, at |-> b] => a = n /\ b = k
      BY <1>5, <3>1
    <3> QED BY <3>2, <3>3
  <2>3. ASSUME NEW a, NEW b
        PROVE  IsCollected(a, b)' <=> IsCollected(a, b) \/ (a = n /\ b = k)
    <3>1. PICK r : r = [of |-> a, at |-> b]
      OBVIOUS
    <3>2. p = r <=> a = n /\ b = k
      BY <2>2, <3>1
    <3>3. (\E c \in 1..Len(currently_synchronized') : currently_synchronized'[c] = r)
          <=> (\E c \in 1..Len(currently_synchronized) : currently_synchronized[c] = r) \/ p = r
      BY <1>12, <2>1
    <3> QED BY <3>1, <3>2, <3>3 DEF IsCollected
  <2> QED BY <2>3
<1>16. Behind' /\ Undelivered'
  <2>1. \A a \in 1..Len(pushed) : \A b \in 1..Len(pushed[a]) : b \in Nat
    BY DEF EInv, Stored
  <2>2. Behind'
    BY <1>3, <1>6, <1>14, <1>15, <2>1 DEF EInv, Behind
  <2>3. Undelivered'
    BY <1>3, <1>14, <2>1 DEF EInv, Undelivered
  <2> QED BY <2>2, <2>3
<1>17. Walking'
  <2>1. /\ i - 1 \in Nat /\ LeastOf(i-1)
        /\ \A j \in 1..i-1 : Value(positions[j]) > current_minimum
        /\ OnValue(current_minimum)
        /\ i = 1 => next_minimum = current_minimum
    BY <1>3, <1>4 DEF EInv, Walking
  <2>2. \A j \in 1..i-1 :
          j \in 1..Len(positions) /\ positions'[j] = positions[j]
    BY <1>4, <1>8
  <2>3. LeastOf(i-1)' /\ \A j \in 1..i-1 : pushed'[positions'[j].of][positions'[j].at] > current_minimum
    BY <1>3, <2>1, <2>2 DEF LeastOf, Value
  <2>4. current_minimum > last
    BY <1>6, <1>14 DEF EInv, Undelivered
  <2>5. OnValue(current_minimum)'
    <3>1. ASSUME NEW r, DoneWith(r, current_minimum)
          PROVE  DoneWith(r, current_minimum)' /\ r # p
      <4>1. PICK a, b : a = r.of /\ b = r.at
        OBVIOUS
      <4>2. /\ a \in 1..Len(pushed) /\ b \in 1..Len(pushed[a]) /\ ~ Ahead(a, b)
            /\ pushed[a][b] = current_minimum
        BY <3>1, <4>1 DEF DoneWith
      <4>3. b \in Nat
        BY <4>2 DEF EInv, Stored
      <4>4. ~ Ahead(a, b)' /\ ~ (a = n /\ b = k)
        BY <1>14, <4>2, <4>3
      <4> QED BY <1>3, <1>5, <4>1, <4>2, <4>4 DEF DoneWith, Ahead
    <3>2. DoneWith(p, current_minimum)'
      <4>1. ~ Ahead(n, k)'
        BY <1>6, <1>14
      <4> QED BY <1>3, <1>5, <1>6, <4>1 DEF DoneWith, Ahead
    <3>3. ASSUME NEW c \in 1..Len(currently_synchronized')
          PROVE  \/ c = Len(currently_synchronized) + 1 /\ currently_synchronized'[c] = p
                 \/ /\ c \in 1..Len(currently_synchronized)
                    /\ currently_synchronized'[c] = currently_synchronized[c]
                    /\ DoneWith(currently_synchronized[c], current_minimum)
      BY <1>12, <2>1 DEF OnValue
    <3>4. \A c \in 1..Len(currently_synchronized') :
            DoneWith(currently_synchronized[c], current_minimum)'
      <4> SUFFICES ASSUME NEW c \in 1..Len(currently_synchronized')
                   PROVE  DoneWith(currently_synchronized[c], current_minimum)'
        OBVIOUS
      <4>1. PICK r : r = currently_synchronized'[c]
        OBVIOUS
      <4>2. r = p \/ DoneWith(r, current_minimum)
        BY <3>3, <4>1
      <4>3. DoneWith(r, current_minimum)'
        BY <3>1, <3>2, <4>2
      <4> QED BY <4>1, <4>3 DEF DoneWith, Ahead
    <3>5. ASSUME NEW c \in 1..Len(currently_synchronized'),
                 NEW d \in 1..Len(currently_synchronized'),
                 currently_synchronized'[c] = currently_synchronized'[d]
          PROVE  c = d
      BY <1>12, <2>1, <3>1, <3>3, <3>5 DEF OnValue
    <3> QED BY <1>3, <3>4, <3>5 DEF OnValue
  <2>6. currently_synchronized' # <<>>
    BY <1>12
  <2>7. i' <= Len(positions') + 1
    BY <1>3, <1>4, <1>8
  <2> QED BY <1>3, <2>1, <2>3, <2>4, <2>5, <2>6, <2>7 DEF Walking, Value
<1>18. AtRest' /\ Asked'
  BY <1>3 DEF EInv, AtRest, Asked, Sought, Offered
<1> QED BY <1>10, <1>11, <1>13, <1>16, <1>17, <1>18 DEF EInv


(* A larger value is passed over; it may be the next minimum.              *)
LEMMA PassKeeps ==
  ASSUME EInv, Pass
  PROVE  EInv'
<1>1. PICK v : v = Value(positions[i])
  OBVIOUS
<1>2. /\ pc = "walk" /\ i <= Len(positions) /\ positions[i] # ends[i]
      /\ v # current_minimum
      /\ next_minimum' = IF next_minimum > v \/ next_minimum = current_minimum
                         THEN v ELSE next_minimum
      /\ i' = i + 1
      /\ pushed' = pushed /\ positions' = positions /\ ends' = ends
      /\ currently_synchronized' = currently_synchronized
      /\ current_minimum' = current_minimum
      /\ pc' = pc /\ goal' = goal /\ from' = from /\ last' = last /\ answer' = answer
  BY <1>1 DEF Pass, places, asked
<1>3. i \in 1..Len(positions) /\ Len(positions) \in Nat /\ i \in Nat
  BY <1>2 DEF EInv, InStep, Numbers
<1>4. v \in Nat /\ v > current_minimum
  <2>1. PICK n, k : n = positions[i].of /\ k = positions[i].at
    OBVIOUS
  <2>2. /\ n \in 1..Len(pushed) /\ k \in 1..Len(pushed[n]) /\ v = pushed[n][k] /\ v \in Nat
    BY <1>1, <1>2, <1>3, <2>1, PositionFacts
  <2>3. Ahead(n, k)
    <3>1. k <= k
      BY <2>2 DEF EInv, Stored
    <3> QED BY <1>3, <2>1, <3>1 DEF Ahead
  <2>4. v >= current_minimum
    BY <1>2, <2>2, <2>3 DEF EInv, Undelivered
  <2> QED BY <1>2, <2>2, <2>4 DEF EInv, Numbers
<1>5. Stored' /\ InStep'
  BY <1>2 DEF EInv, Stored, InStep
<1>6. Numbers'
  <2>1. i + 1 \in 1..MaxPushed+1
    BY <1>3 DEF EInv, Stored, InStep
  <2> QED BY <1>2, <1>4, <2>1 DEF EInv, Numbers
<1>7. Behind' /\ Undelivered'
  BY <1>2 DEF EInv, Behind, Undelivered, Ahead, IsCollected
<1>8. Walking'
  <2>1. /\ i - 1 \in Nat /\ LeastOf(i-1) /\ (i+1)-1 = i
        /\ \A j \in 1..i-1 : Value(positions[j]) > current_minimum
        /\ OnValue(current_minimum)
        /\ i = 1 => next_minimum = current_minimum
        /\ currently_synchronized # <<>> => current_minimum > last
        /\ next_minimum \in Nat /\ current_minimum \in Nat
    BY <1>2, <1>3 DEF EInv, Walking, Numbers
  <2>2. \A j \in 1..i : j = i \/ j \in 1..i-1
    BY <1>3
  <2>3. ASSUME NEW j \in 1..i-1 PROVE Value(positions[j]) \in Nat
    <3>1. j \in 1..Len(positions) /\ positions[j] # ends[j]
      BY <1>3, <2>1 DEF LeastOf
    <3> QED BY <3>1, PositionFacts
  <2>4. i # 1 => next_minimum > current_minimum
    <3>1. i # 1 => i - 1 > 0
      BY <1>3
    <3> QED BY <2>1, <2>3, <3>1 DEF LeastOf
  <2>5. \A j \in 1..i : Value(positions[j]) > current_minimum
    BY <1>1, <1>4, <2>1, <2>2
  <2>6. ASSUME NEW j \in 1..i
        PROVE  positions[j] # ends[j] /\ next_minimum' <= Value(positions[j])
    <3>1. CASE j = i
      BY <1>1, <1>2, <1>4, <2>1, <3>1
    <3>2. CASE j \in 1..i-1
      <4>1. positions[j] # ends[j] /\ next_minimum <= Value(positions[j])
        BY <2>1, <3>2 DEF LeastOf
      <4>2. i # 1
        BY <1>3, <3>2
      <4> QED BY <1>2, <1>4, <2>1, <2>3, <2>4, <3>2, <4>1, <4>2
    <3> QED BY <2>2, <3>1, <3>2
  <2>7. \E j \in 1..i : next_minimum' = Value(positions[j])
    <3>1. CASE next_minimum' = v
      BY <1>1, <1>3, <3>1
    <3>2. CASE next_minimum' # v
      <4>1. next_minimum' = next_minimum /\ next_minimum # current_minimum
        BY <1>2, <3>2
      <4>2. i - 1 > 0
        BY <1>3, <2>1, <4>1
      <4>3. PICK j \in 1..i-1 : next_minimum = Value(positions[j])
        BY <2>1, <4>2 DEF LeastOf
      <4>4. j \in 1..i
        BY <1>3
      <4> QED BY <4>1, <4>3, <4>4
    <3> QED BY <3>1, <3>2
  <2>8. LeastOf(i-1)'
    BY <1>2, <1>3, <2>1, <2>6, <2>7 DEF LeastOf, Value
  <2>9. \A j \in (1..i-1)' : (Value(positions[j]) > current_minimum)'
    BY <1>2, <2>1, <2>5 DEF Value
  <2>10. OnValue(current_minimum)'
    <3>1. PICK m : m = current_minimum
      OBVIOUS
    <3>2. OnValue(m)'
      BY <1>2, <2>1, <3>1, StaysOnValue DEF Ahead
    <3> QED BY <1>2, <3>1, <3>2 DEF OnValue, DoneWith
  <2>11. ASSUME currently_synchronized = <<>>, positions # <<>>
         PROVE  \E j \in i+1..Len(positions) :
                  positions[j] # ends[j] /\ Value(positions[j]) = current_minimum
    <3>1. PICK j \in i..Len(positions) :
            positions[j] # ends[j] /\ Value(positions[j]) = current_minimum
      BY <1>2, <2>11 DEF EInv, Walking
    <3>2. j # i
      BY <1>1, <1>2, <3>1
    <3> QED BY <1>3, <3>1, <3>2
  <2>12. currently_synchronized' = <<>> /\ positions' # <<>> =>
           \E j \in (i..Len(positions))' :
             (positions[j] # ends[j] /\ Value(positions[j]) = current_minimum)'
    BY <1>2, <2>11 DEF Value
  <2>13. i' <= Len(positions') + 1 /\ i' # 1
    BY <1>2, <1>3
  <2> QED BY <1>2, <2>1, <2>8, <2>9, <2>10, <2>12, <2>13 DEF Walking
<1>9. AtRest' /\ Asked'
  BY <1>2 DEF EInv, AtRest, Asked, Sought, Offered
<1> QED BY <1>5, <1>6, <1>7, <1>8, <1>9 DEF EInv

(* advance() returns with the value collected, or with nothing when        *)
(* nothing is ahead.                                                       *)
LEMMA ReturnsValue ==
  ASSUME EInv, Return
  PROVE  /\ pc = "walk" /\ i > Len(positions)
         /\ pushed' = pushed /\ positions' = positions /\ ends' = ends
         /\ next_minimum' = next_minimum /\ goal' = goal /\ from' = from
         /\ LeastOf(Len(positions)) /\ SplitAt(last')
         /\ \/ /\ currently_synchronized # <<>> /\ OnValue(current_minimum)
               /\ last' = current_minimum /\ answer' = "yes" /\ last' > last
               /\ last' \in Offered
               /\ IF last' < goal THEN StartWalk
                  ELSE /\ pc' = "idle" /\ i' = i /\ current_minimum' = current_minimum
                       /\ currently_synchronized' = currently_synchronized
            \/ /\ currently_synchronized = <<>> /\ positions = <<>>
               /\ last' = last /\ answer' = "no"
               /\ pc' = "idle" /\ i' = i /\ current_minimum' = current_minimum
               /\ currently_synchronized' = currently_synchronized
<1>1. /\ pc = "walk" /\ i > Len(positions)
      /\ pushed' = pushed /\ positions' = positions /\ ends' = ends
      /\ next_minimum' = next_minimum /\ goal' = goal /\ from' = from
  BY DEF Return, places, asked
<1>2. LeastOf(Len(positions))
  BY <1>1, SplitAfterWalk
<1>3. CASE currently_synchronized # <<>>
  <2>1. OnValue(current_minimum) /\ current_minimum > last /\ SplitAt(current_minimum)
    BY <1>1, <1>3, SplitAfterWalk DEF EInv, Walking
  <2>2. 1 \in 1..Len(currently_synchronized)
    BY <1>3 DEF EInv, Numbers
  <2>3. PICK p : p = currently_synchronized[1]
    OBVIOUS
  <2>4. DoneWith(p, current_minimum)
    BY <2>1, <2>2, <2>3 DEF OnValue
  <2>5. Value(currently_synchronized[1]) = current_minimum
    BY <2>3, <2>4 DEF DoneWith, Value
  <2>6. current_minimum \in Offered
    BY <2>4 DEF DoneWith, Offered, EInv, Stored
  <2>7. last' = current_minimum /\ answer' = "yes"
    BY <1>3, <2>5 DEF Return, is_synchronized
  <2>8. IF last' < goal THEN StartWalk
        ELSE /\ pc' = "idle" /\ i' = i /\ current_minimum' = current_minimum
             /\ currently_synchronized' = currently_synchronized
    BY <1>3 DEF Return, is_synchronized
  <2> QED BY <1>1, <1>2, <1>3, <2>1, <2>6, <2>7, <2>8 DEF SplitAt
<1>4. CASE currently_synchronized = <<>>
  <2>1. SplitAt(last) /\ positions = <<>>
    BY <1>1, <1>4, SplitAfterWalk
  <2>2. /\ last' = last /\ answer' = "no"
        /\ pc' = "idle" /\ i' = i /\ current_minimum' = current_minimum
        /\ currently_synchronized' = currently_synchronized
    BY <1>4 DEF Return, is_synchronized
  <2> QED BY <1>1, <1>2, <1>4, <2>1, <2>2 DEF SplitAt
<1> QED BY <1>3, <1>4

(* The end of a walk is the end of a call, or a walk for the next value.   *)
LEMMA ReturnKeeps ==
  ASSUME EInv, Return
  PROVE  EInv'
<1>1. /\ pc = "walk" /\ i > Len(positions)
      /\ pushed' = pushed /\ positions' = positions /\ ends' = ends
      /\ next_minimum' = next_minimum /\ goal' = goal /\ from' = from
      /\ LeastOf(Len(positions)) /\ SplitAt(last')
  BY ReturnsValue
<1>2. /\ last \in Nat \cup {-1} /\ current_minimum \in Nat /\ goal \in Nat \cup {-1}
      /\ from \in Nat /\ Len(positions) \in Nat
  BY DEF EInv, Numbers, InStep
<1>3. Offered' = Offered /\ Sought' = Sought /\ Offered \subseteq Nat
  BY <1>1 DEF Offered, Sought, EInv, Stored
<1>4. goal # -1 => from <= last + 1 /\ \A v \in Sought : v > last
  BY <1>1 DEF EInv, Asked
<1>5. Stored' /\ InStep'
  BY <1>1 DEF EInv, Stored, InStep
<1>6. \A n, k : Ahead(n, k)' <=> Ahead(n, k)
  BY <1>1 DEF Ahead
<1>7. CASE currently_synchronized # <<>> /\ current_minimum < goal
  <2>1. /\ last' = current_minimum /\ answer' = "yes" /\ last' > last /\ StartWalk
    BY <1>7, ReturnsValue
  <2>2. Behind' /\ Undelivered' /\ AtRest' /\ Walking'
    BY <1>1, <1>2, <2>1, WalkStarts DEF places
  <2>3. Numbers'
    BY <1>1, <1>2, <2>1, WalkTypes DEF places
  <2>4. Asked'
    <3>1. from <= last' + 1
      BY <1>2, <1>4, <1>7, <2>1
    <3>2. \A v \in Sought : v > last'
      BY <1>2, <1>3, <1>7, <2>1 DEF Sought
    <3>3. pc' = "walk"
      BY <2>1 DEF StartWalk
    <3> QED BY <1>1, <1>3, <3>1, <3>2, <3>3 DEF Asked
  <2> QED BY <1>5, <2>2, <2>3, <2>4 DEF EInv
<1>8. CASE currently_synchronized # <<>> /\ ~ (current_minimum < goal)
  <2>1. /\ last' = current_minimum /\ answer' = "yes" /\ last' > last
        /\ last' \in Offered /\ OnValue(current_minimum)
        /\ pc' = "idle" /\ i' = i /\ current_minimum' = current_minimum
        /\ currently_synchronized' = currently_synchronized
    BY <1>8, ReturnsValue
  <2>2. Numbers'
    BY <1>1, <1>2, <2>1 DEF EInv, Numbers
  <2>3. Behind' /\ Undelivered'
    BY <1>1, <1>6, <2>1 DEF SplitAt, Behind, Undelivered
  <2>4. AtRest'
    <3>1. LeastOf(Len(positions))'
      BY <1>1 DEF LeastOf, Value
    <3>2. OnValue(last)'
      <4>1. PICK m : m = current_minimum
        OBVIOUS
      <4>2. OnValue(m)'
        BY <1>1, <1>6, <2>1, <4>1, StaysOnValue
      <4> QED BY <2>1, <4>1, <4>2 DEF OnValue, DoneWith
    <3>3. ASSUME NEW n \in 1..Len(pushed), NEW k \in 1..Len(pushed[n]), pushed[n][k] = last'
          PROVE  IsCollected(n, k)
      <4>1. pushed[n][k] \in Nat
        BY DEF EInv, Stored
      <4>2. ~ Ahead(n, k)
        BY <1>1, <1>2, <2>1, <3>3, <4>1 DEF SplitAt
      <4> QED BY <1>2, <2>1, <3>3, <4>1, <4>2 DEF EInv, Behind
    <3> QED BY <1>1, <1>8, <2>1, <3>1, <3>2, <3>3 DEF AtRest, IsCollected
  <2>5. Walking'
    BY <2>1 DEF Walking
  <2>6. Asked'
    <3>1. ASSUME NEW v \in Offered, v > last PROVE last' <= v
      <4>1. PICK n \in 1..Len(pushed) : \E k \in 1..Len(pushed[n]) : v = pushed[n][k]
        BY DEF Offered, EInv, Stored
      <4>2. v \in Nat
        BY <1>3
      <4>3. PICK k \in 1..Len(pushed[n]) : v = pushed[n][k]
        BY <4>1
      <4> QED BY <1>1, <1>2, <2>1, <3>1, <4>2, <4>3 DEF EInv, Behind, Undelivered
    <3>2. goal # -1 => from <= last' + 1 /\ last' \in Sought /\ \A v \in Sought : last' <= v
      BY <1>2, <1>4, <1>8, <2>1, <3>1 DEF Sought
    <3> QED BY <1>1, <1>3, <2>1, <3>2 DEF Asked
  <2> QED BY <1>5, <2>2, <2>3, <2>4, <2>5, <2>6 DEF EInv
<1>9. CASE currently_synchronized = <<>>
  <2>1. /\ positions = <<>> /\ last' = last /\ answer' = "no"
        /\ pc' = "idle" /\ i' = i /\ current_minimum' = current_minimum
        /\ currently_synchronized' = currently_synchronized
    BY <1>9, ReturnsValue
  <2>2. Numbers'
    BY <1>1, <1>2, <2>1 DEF EInv, Numbers
  <2>3. Behind' /\ Undelivered'
    BY <1>1, <1>6, <2>1 DEF SplitAt, Behind, Undelivered
  <2>4. AtRest' /\ Walking'
    <3>1. LeastOf(Len(positions))'
      BY <1>1 DEF LeastOf, Value
    <3> QED BY <1>1, <1>9, <2>1, <3>1 DEF AtRest, Walking
  <2>5. Asked'
    <3>1. ASSUME NEW v \in Offered PROVE v <= last
      <4>1. PICK n \in 1..Len(pushed) : \E k \in 1..Len(pushed[n]) : v = pushed[n][k]
        BY DEF Offered, EInv, Stored
      <4>2. PICK k \in 1..Len(pushed[n]) : v = pushed[n][k]
        BY <4>1
      <4>3. ~ Ahead(n, k)
        BY <2>1 DEF Ahead
      <4> QED BY <1>1, <2>1, <4>2, <4>3 DEF SplitAt
    <3>2. goal # -1 => Sought = {}
      <4>1. \A v \in Sought : v \in Offered /\ v \in Nat
        BY <1>3 DEF Sought
      <4> QED BY <1>2, <1>4, <3>1, <4>1
    <3> QED BY <1>1, <1>3, <1>4, <2>1, <3>2 DEF Asked
  <2> QED BY <1>5, <2>2, <2>3, <2>4, <2>5 DEF EInv
<1> QED BY <1>7, <1>8, <1>9


(* Every step keeps the invariant.                                         *)
LEMMA ENextHolds == EInv /\ [ENext]_evars => EInv'
<1> SUFFICES ASSUME EInv, [ENext]_evars PROVE EInv'
  OBVIOUS
<1>1. CASE \E v \in Vectors : EPushBack(v)
  BY <1>1, PushBackKeeps
<1>2. CASE EReset
  BY <1>2, ResetKeeps
<1>3. CASE EAdvance
  BY <1>3, AdvanceKeeps
<1>4. CASE \E v \in UNION {{w[k] : k \in DOMAIN w} : w \in Vectors} : SynchronizeWith(v)
  BY <1>4, SynchronizeWithKeeps, VectorsAssumption
<1>5. CASE DropExhausted
  BY <1>5, DropKeeps
<1>6. CASE Collect
  BY <1>6, CollectKeeps
<1>7. CASE Pass
  BY <1>7, PassKeeps
<1>8. CASE Return
  BY <1>8, ReturnKeeps
<1>9. CASE UNCHANGED evars
  BY <1>9, UnchangedKeeps
<1> QED BY <1>1, <1>2, <1>3, <1>4, <1>5, <1>6, <1>7, <1>8, <1>9 DEF ENext, ELoop

(* What the runs check follows.                                            *)
LEMMA PromisesHold == EInv => AllCollected /\ SynchronizesExactly
<1> SUFFICES ASSUME EInv PROVE AllCollected /\ SynchronizesExactly
  OBVIOUS
<1>1. ETypeOK
  <2>1. /\ pushed \in Seq(Vectors \ {<<>>}) /\ Len(pushed) <= MaxPushed
        /\ Len(positions) = Len(ends) /\ Len(ends) <= Len(pushed)
        /\ DOMAIN positions = 1..Len(positions) /\ DOMAIN ends = 1..Len(positions)
        /\ DOMAIN pushed = 1..Len(pushed)
        /\ pc \in {"idle", "walk"} /\ i \in 1..MaxPushed+1
        /\ answer \in {"none", "yes", "no"}
    BY DEF EInv, Stored, InStep, Numbers
  <2>2. ASSUME NEW j \in 1..Len(positions)
        PROVE  \E n \in DOMAIN pushed :
                 /\ ends[j] = Place(n, Len(pushed[n]) + 1)
                 /\ \E k \in 1..Len(pushed[n])+1 : positions[j] = Place(n, k)
    BY <2>1, PositionFacts DEF Place
  <2>3. ASSUME NEW j \in 1..Len(positions), NEW k \in 1..Len(positions), j # k
        PROVE  ends[j] # ends[k]
    <3>1. ASSUME NEW l \in 1..Len(positions) PROVE ends[l].of = positions[l].of
      <4>1. ends[l] = [of |-> positions[l].of, at |-> Len(pushed[positions[l].of])+1]
        BY PositionFacts
      <4> QED BY <4>1
    <3>2. positions[j].of # positions[k].of
      BY <2>3 DEF EInv, InStep
    <3>3. ends[j].of = positions[j].of /\ ends[k].of = positions[k].of
      BY <3>1
    <3> QED BY <3>2, <3>3
  <2> QED BY <2>1, <2>2, <2>3 DEF ETypeOK
<1>2. Collected
  <2> SUFFICES ASSUME pc = "idle", answer = "yes" PROVE Collected
    BY DEF Collected
  <2>1. /\ OnValue(last)
        /\ \A n \in 1..Len(pushed) : \A k \in 1..Len(pushed[n]) :
             pushed[n][k] = last => IsCollected(n, k)
    BY DEF EInv, AtRest
  <2>2. /\ DOMAIN currently_synchronized = 1..Len(currently_synchronized)
        /\ DOMAIN pushed = 1..Len(pushed)
        /\ \A n \in 1..Len(pushed) : DOMAIN pushed[n] = 1..Len(pushed[n])
    BY DEF EInv, Numbers, Stored
  <2>3. \A c \in 1..Len(currently_synchronized) : Value(currently_synchronized[c]) = last
    BY <2>1 DEF OnValue, DoneWith, Value
  <2> QED BY <2>1, <2>2, <2>3 DEF Collected, IsCollected, OnValue, Place
<1>3. SynchronizesExactly
  <2> SUFFICES ASSUME pc = "idle", goal # -1 PROVE SynchronizesExactly
    BY DEF SynchronizesExactly
  <2>1. answer # "none"
    BY DEF EInv, AtRest
  <2>2. CASE answer = "yes"
    BY <2>2 DEF EInv, AtRest, Asked, Sought, SynchronizesExactly, is_synchronized
  <2>3. CASE answer = "no"
    BY <2>3 DEF EInv, AtRest, Asked, Sought, SynchronizesExactly, is_synchronized
  <2> QED BY <2>1, <2>2, <2>3 DEF EInv, Numbers
<1> QED BY <1>1, <1>2, <1>3 DEF AllCollected

(* Positions and ends stay in step while vectors leave and the rest change *)
(* places, and when advance() delivers a value, every place that holds it  *)
(* is among those collected, once.                                         *)
THEOREM Collects == ESpec => []AllCollected
<1>1. EInit => EInv
  BY EInitHolds, MaxPushedAssumption
<1> QED BY <1>1, ENextHolds, PromisesHold, PTL DEF ESpec

(* synchronize_with() stops at the least value that is left and not below  *)
(* the one asked for, and says no exactly when there is none.              *)
THEOREM Synchronizes == ESpec => []SynchronizesExactly
<1>1. EInit => EInv
  BY EInitHolds, MaxPushedAssumption
<1> QED BY <1>1, ENextHolds, PromisesHold, PTL DEF ESpec

(* A value offered is one that a vector holds.                             *)
LEMMA OfferedPlaces ==
  Stored => \A v \in Offered :
              /\ v \in Nat
              /\ \E n \in 1..Len(pushed) : \E k \in 1..Len(pushed[n]) : v = pushed[n][k]
<1> SUFFICES ASSUME Stored, NEW v \in Offered
             PROVE  /\ v \in Nat
                    /\ \E n \in 1..Len(pushed) : \E k \in 1..Len(pushed[n]) : v = pushed[n][k]
  OBVIOUS
<1>1. DOMAIN pushed = 1..Len(pushed) /\ \A n \in 1..Len(pushed) : DOMAIN pushed[n] = 1..Len(pushed[n])
  BY DEF Stored
<1>2. PICK n \in 1..Len(pushed) : v \in {pushed[n][k] : k \in 1..Len(pushed[n])}
  BY <1>1 DEF Offered
<1>3. PICK k \in 1..Len(pushed[n]) : v = pushed[n][k]
  BY <1>2
<1> QED BY <1>3 DEF Stored

(* All values offered are numbers.                                         *)
LEMMA OfferedNumbers == Stored => Offered \in SUBSET Nat
BY OfferedPlaces

(* The walk of a call is hidden from the one who asks; its end delivers    *)
(* the least value left or says that there is none.                        *)
LEMMA StepShown ==
  EInv /\ [ENext]_evars => [EPromise!Next]_(EPromise!vars)
<1> SUFFICES ASSUME EInv, [ENext]_evars PROVE [EPromise!Next]_(EPromise!vars)
  OBVIOUS
<1>1. pushed' = pushed => Offered' = Offered
  BY DEF Offered
<1>2. Offered \in SUBSET Nat /\ Offered' \in SUBSET Nat
  <2>1. Stored /\ Stored'
    BY ENextHolds DEF EInv
  <2>2. (Stored => Offered \in SUBSET Nat)'
    BY OfferedNumbers, PTL
  <2> QED BY <2>1, <2>2, OfferedNumbers
<1>3. CASE pushed' = pushed /\ last' = last /\ answer' = answer
  BY <1>1, <1>3 DEF EPromise!vars
<1>4. CASE pushed' = pushed /\ last' = last /\ answer' = "none"
  BY <1>1, <1>4 DEF EPromise!Next, EPromise!Ask
<1>5. CASE last' = -1 /\ answer' = "none"
  BY <1>2, <1>5 DEF EPromise!Next, EPromise!Refill
<1>6. ASSUME NEW v \in Vectors, EPushBack(v)
      PROVE  last' = -1 /\ answer' = "none"
  BY <1>6 DEF EPushBack, EInv, AtRest
<1>7. CASE EReset
  BY <1>5, <1>7 DEF EReset
<1>8. CASE EAdvance
  BY <1>4, <1>8 DEF EAdvance, places
<1>9. CASE \E v \in UNION {{w[k] : k \in DOMAIN w} : w \in Vectors} : SynchronizeWith(v)
  BY <1>3, <1>4, <1>9 DEF SynchronizeWith, places
<1>10. CASE DropExhausted \/ Collect \/ Pass \/ UNCHANGED evars
  BY <1>3, <1>10 DEF DropExhausted, Collect, Pass, places, evars
<1>11. CASE Return
  <2>1. pushed' = pushed /\ SplitAt(last') /\ Offered' = Offered
    BY <1>1, <1>11, ReturnsValue
  <2>2. CASE currently_synchronized # <<>>
    <3>1. /\ last' = current_minimum /\ answer' = "yes" /\ last' > last
          /\ last' \in Offered
      BY <1>11, <2>2, ReturnsValue
    <3>2. ASSUME NEW v \in Offered, v > last PROVE last' <= v
      <4>1. PICK n \in 1..Len(pushed) : \E k \in 1..Len(pushed[n]) : v = pushed[n][k]
        BY OfferedPlaces DEF EInv
      <4>2. PICK k \in 1..Len(pushed[n]) : v = pushed[n][k]
        BY <4>1
      <4>3. v \in Nat /\ last \in Nat \cup {-1} /\ current_minimum \in Nat
        BY <1>2 DEF EInv, Numbers
      <4>4. pc = "walk"
        BY <1>11 DEF Return
      <4> QED BY <3>1, <3>2, <4>2, <4>3, <4>4 DEF EInv, Behind, Undelivered
    <3> QED BY <2>1, <3>1, <3>2 DEF EPromise!Next, EPromise!Deliver
  <2>3. CASE currently_synchronized = <<>>
    <3>1. positions = <<>> /\ last' = last /\ answer' = "no"
      BY <1>11, <2>3, ReturnsValue
    <3>2. ASSUME NEW v \in Offered PROVE v <= last
      <4>1. PICK n \in 1..Len(pushed) : \E k \in 1..Len(pushed[n]) : v = pushed[n][k]
        BY OfferedPlaces DEF EInv
      <4>2. PICK k \in 1..Len(pushed[n]) : v = pushed[n][k]
        BY <4>1
      <4>3. ~ Ahead(n, k)
        BY <3>1 DEF Ahead
      <4> QED BY <2>1, <3>1, <4>2, <4>3 DEF SplitAt
    <3> QED BY <2>1, <3>1, <3>2 DEF EPromise!Next, EPromise!Exhaust
  <2> QED BY <2>2, <2>3
<1> QED BY <1>5, <1>6, <1>7, <1>8, <1>9, <1>10, <1>11 DEF ENext, ELoop

(* The existential iterator delivers exactly the values that some vector   *)
(* holds, each once and in ascending order, however often it is refilled.  *)
THEOREM OfferedDelivered == ESpec => DeliversOffered
<1>1. EInit => EInv
  BY EInitHolds, MaxPushedAssumption
<1>2. EInit => EPromise!Init
  BY DEF EInit, EPromise!Init, Offered
<1> QED BY <1>1, <1>2, ENextHolds, StepShown, PTL
       DEF ESpec, DeliversOffered, EPromise!Spec
=============================================================================
