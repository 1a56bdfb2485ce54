------------------------------ MODULE SparseSet ------------------------------
(***************************************************************************)
(* mata::utils::SparseSet, the set of initial or final states of an        *)
(* automaton.  `dense` holds the elements in positions 0..size-1, in any   *)
(* order; `sparse` maps a number to its position in dense.  Neither vector *)
(* is ever cleaned: beyond `size`, and for numbers that are not elements,  *)
(* both keep whatever an earlier operation left there.                     *)
(*                                                                         *)
(* The one-shot methods are one action each.  complement(), filter() and   *)
(* rename() update the structure while they walk over it, so every         *)
(* iteration of their loops is a step of its own; `before` remembers the   *)
(* contents at the call, which the result is compared with.                *)
(***************************************************************************)
EXTENDS Integers, FiniteSets

CONSTANT MaxState       \* the largest number an instance stores

ASSUME MaxStateAssumption == MaxState \in Nat

VARIABLES
  dense, sparse,        \* std::vector<Number>, functions on 0..length-1
  size,                 \* size_
  domain,               \* domain_size_
  loop,                 \* which loop is running, "idle" between calls
  at,                   \* the loop counter
  limit,                \* complement(): new_domain_size
  old_domain,           \* domain when the running call began (complement()'s
                        \* old_domain_size, auxiliary in the other two)
  keep,                 \* filter(): the numbers is_staying() accepts
  renaming,             \* rename(): the renaming
  before                \* contents when the running call began (auxiliary)

structure == <<dense, sparse, size, domain>>
call == <<loop, at, limit, old_domain, keep, renaming, before>>
vars == <<structure, call>>

State == 0..MaxState
Lengths == 0..MaxState+1
Identity == [s \in State |-> s]

Contents == {dense[k] : k \in 0..size-1}

contains(v) == v < domain /\ sparse[v] < size /\ dense[sparse[v]] = v

Larger(m, n) == IF m < n THEN n ELSE m

-----------------------------------------------------------------------------
(* vector.resize(u, 0): cuts the vector or pads it with zeros. *)
resize(vec, u) == [k \in 0..u-1 |-> IF k \in DOMAIN vec THEN vec[k] ELSE 0]

\* reserve(u) as the other methods call it: only a larger domain resizes.
reserved(vec, u) == IF u > domain THEN resize(vec, u) ELSE vec

\* insert(v) of a number that is not an element.
InsertNew(v) ==
  /\ dense' = [reserved(dense, v+1) EXCEPT ![size] = v]
  /\ sparse' = [reserved(sparse, v+1) EXCEPT ![v] = size]
  /\ size' = size + 1
  /\ domain' = Larger(domain, v+1)

\* A mutant of erase_nocheck: sparse keeps the old position of the element
\* that moved.
EraseLeavingSparse(v) ==
  /\ dense' = [dense EXCEPT ![sparse[v]] = dense[size-1]]
  /\ size' = size - 1
  /\ UNCHANGED <<sparse, domain>>

\* A mutant of erase_nocheck: erasing the largest number of the domain gives
\* its place in the domain back.
EraseShrinkingDomain(v) ==
  LET last == dense[size-1]
  IN  /\ dense' = [dense EXCEPT ![sparse[v]] = last]
      /\ sparse' = [sparse EXCEPT ![last] = sparse[v]]
      /\ size' = size - 1
      /\ domain' = IF v + 1 = domain THEN v ELSE domain

\* The last element takes the place of the erased one.
erase_nocheck(v) ==
  LET last == dense[size-1]
  IN  /\ dense' = [dense EXCEPT ![sparse[v]] = last]
      /\ sparse' = [sparse EXCEPT ![last] = sparse[v]]
      /\ size' = size - 1
      /\ domain' = domain

EraseOrSkip(v) ==
  IF contains(v) THEN erase_nocheck(v) ELSE UNCHANGED structure

Init ==
  /\ \E n \in Lengths : /\ dense = [k \in 0..n-1 |-> 0]
                        /\ sparse = [k \in 0..n-1 |-> 0]
                        /\ domain = n
  /\ size = 0
  /\ loop = "idle" /\ at = 0 /\ limit = 0 /\ old_domain = 0
  /\ keep = {} /\ renaming = Identity /\ before = {}

-----------------------------------------------------------------------------
(* Methods without a loop that rewrites the structure. *)

Insert(v) ==
  /\ loop = "idle"
  /\ IF contains(v) THEN UNCHANGED structure ELSE InsertNew(v)
  /\ UNCHANGED call

Erase(v) == loop = "idle" /\ EraseOrSkip(v) /\ UNCHANGED call

Clear == loop = "idle" /\ size' = 0 /\ UNCHANGED <<dense, sparse, domain, call>>

Reserve(u) ==
  /\ loop = "idle"
  /\ dense' = reserved(dense, u) /\ sparse' = reserved(sparse, u)
  /\ domain' = Larger(domain, u)
  /\ UNCHANGED <<size, call>>

\* std::sort of the elements, then the loop that points sparse at them.
Sort ==
  /\ loop = "idle"
  /\ \E sorted \in [DOMAIN dense -> State] :
       /\ {sorted[k] : k \in 0..size-1} = Contents
       /\ \A k, l \in 0..size-1 : k < l => sorted[k] < sorted[l]
       /\ \A k \in DOMAIN dense : k >= size => sorted[k] = dense[k]
       /\ dense' = sorted
       /\ sparse' = [x \in DOMAIN sparse |->
                       IF x \in Contents
                       THEN CHOOSE k \in 0..size-1 : sorted[k] = x
                       ELSE sparse[x]]
  /\ UNCHANGED <<size, domain, call>>

\* domain_size_ = max() + 1, or 0 for the empty set.
Truncate ==
  /\ loop = "idle"
  /\ \/ Contents = {} /\ domain' = 0
     \/ \E m \in Contents : /\ \A x \in Contents : x <= m
                            /\ domain' = m + 1
  /\ UNCHANGED <<dense, sparse, size, call>>

\* The moved-from side of the move constructor and of move assignment.
MoveOut ==
  /\ loop = "idle" /\ dense' = << >> /\ sparse' = << >> /\ size' = 0 /\ domain' = 0
  /\ UNCHANGED call

-----------------------------------------------------------------------------
(* Methods that walk over the set they change. *)

LoopReturn ==
  /\ loop' = "idle" /\ at' = 0 /\ limit' = 0 /\ old_domain' = 0
  /\ keep' = {} /\ renaming' = Identity /\ before' = {}

ComplementCall(n) ==
  /\ loop = "idle" /\ loop' = "toggle" /\ at' = 0
  /\ limit' = n /\ old_domain' = domain /\ before' = Contents
  /\ UNCHANGED <<structure, keep, renaming>>

ComplementToggle ==
  /\ loop = "toggle" /\ at < limit
  /\ IF contains(at) THEN erase_nocheck(at) ELSE InsertNew(at)
  /\ at' = at + 1
  /\ UNCHANGED <<loop, limit, old_domain, keep, renaming, before>>

\* The second loop of complement() starts where the first one stopped.
ComplementErase ==
  /\ loop = "toggle" /\ limit <= at /\ at < old_domain
  /\ EraseOrSkip(at)
  /\ at' = at + 1
  /\ UNCHANGED <<loop, limit, old_domain, keep, renaming, before>>

ComplementReturn ==
  /\ loop = "toggle" /\ limit <= at /\ old_domain <= at
  /\ LoopReturn /\ UNCHANGED structure

FilterCall(P) ==
  /\ loop = "idle" /\ loop' = "filter" /\ at' = 0
  /\ keep' = P /\ old_domain' = domain /\ before' = Contents
  /\ UNCHANGED <<structure, limit, renaming>>

\* Mutants of FilterErase: the element swapped in is never looked at, and
\* the position is erased instead of the element at it.
FilterEraseAndAdvance ==
  /\ loop = "filter" /\ at < size /\ dense[at] \notin keep
  /\ EraseOrSkip(dense[at])
  /\ at' = at + 1
  /\ UNCHANGED <<loop, limit, old_domain, keep, renaming, before>>

FilterErasePosition ==
  /\ loop = "filter" /\ at < size /\ dense[at] \notin keep
  /\ EraseOrSkip(at)
  /\ UNCHANGED call

\* The inner while: position at is looked at again after the swap.
FilterErase ==
  /\ loop = "filter" /\ at < size /\ dense[at] \notin keep
  /\ EraseOrSkip(dense[at])
  /\ UNCHANGED call

FilterAdvance ==
  /\ loop = "filter" /\ at < size /\ dense[at] \in keep
  /\ at' = at + 1
  /\ UNCHANGED <<structure, loop, limit, old_domain, keep, renaming, before>>

FilterReturn == loop = "filter" /\ at >= size /\ LoopReturn /\ UNCHANGED structure

\* Callers rename with a function that is injective on the elements (trim()
\* numbers the useful states consecutively).
RenameCall(f) ==
  /\ loop = "idle"
  /\ \A x, y \in Contents : f[x] = f[y] => x = y
  /\ loop' = "rename" /\ at' = 0
  /\ renaming' = f /\ old_domain' = domain /\ before' = Contents
  /\ UNCHANGED <<structure, limit, keep>>

RenameElement ==
  /\ loop = "rename" /\ at < size
  /\ LET old == dense[at]
         new == renaming[old]
     IN  IF old = new
         THEN UNCHANGED structure
         ELSE /\ dense' = reserved([dense EXCEPT ![at] = new], new+1)
              /\ sparse' = [reserved(sparse, new+1) EXCEPT ![new] = at]
              /\ domain' = Larger(domain, new+1)
              /\ size' = size
  /\ at' = at + 1
  /\ UNCHANGED <<loop, limit, old_domain, keep, renaming, before>>

RenameReturn == loop = "rename" /\ at >= size /\ LoopReturn /\ UNCHANGED structure

-----------------------------------------------------------------------------
Call ==
  \/ \E v \in State : Insert(v) \/ Erase(v)
  \/ \E u \in Lengths : Reserve(u) \/ ComplementCall(u)
  \/ \E P \in SUBSET State : FilterCall(P)
  \/ \E f \in [State -> State] : RenameCall(f)
  \/ Clear \/ Sort \/ Truncate \/ MoveOut

Loop ==
  \/ ComplementToggle \/ ComplementErase \/ ComplementReturn
  \/ FilterErase \/ FilterAdvance \/ FilterReturn
  \/ RenameElement \/ RenameReturn

Next == Call \/ Loop

\* A call runs to its end; nobody has to make another one.
Spec == Init /\ [][Next]_vars /\ WF_vars(Loop)

-----------------------------------------------------------------------------
(* Types.  The two vectors always have the same length, which truncate()   *)
(* leaves larger than the domain.                                          *)
StructureOK ==
  /\ size \in Nat /\ domain \in Lengths
  /\ \E n \in Lengths : /\ domain <= n
                        /\ dense \in [0..n-1 -> State]
                        /\ sparse \in [0..n-1 -> Nat]

CallOK ==
  /\ loop \in {"idle", "toggle", "filter", "rename"}
  /\ at \in Nat /\ limit \in Lengths /\ old_domain \in Lengths
  /\ keep \subseteq State /\ before \subseteq State
  /\ renaming \in [State -> State]

TypeOK == StructureOK /\ CallOK

(* Outside rename(), sparse points every element at its own position, which *)
(* the constant-time erase relies on.  rename() suspends this: it          *)
(* overwrites sparse[new] of an element whose own renaming has yet to be   *)
(* done.                                                                   *)
IndexesElements ==
  loop # "rename" =>
    \A k \in 0..size-1 : dense[k] < domain /\ sparse[dense[k]] = k

(* Each element is indexed, and contains() tells exactly the elements from *)
(* the other numbers, whose entries in sparse are what an earlier call     *)
(* left there: a position that another element has now, or zero.           *)
Representation ==
  /\ IndexesElements
  /\ loop # "rename" => \A v \in State : contains(v) <=> v \in Contents

(* The class's own consistent(), which its methods assert on their way     *)
(* out: the elements fit into the domain, and the domain into the vectors. *)
consistent ==
  /\ domain >= size
  /\ (\A x \in Contents : x < domain) \/ (size = 0 /\ domain = 0)
  /\ 0..domain-1 \subseteq DOMAIN dense \cap DOMAIN sparse

(* What the loops preserve.  With IndexesElements and consistent these     *)
(* make the invariant inductive.                                           *)
Smaller(m, n) == IF m < n THEN m ELSE n

\* Numbers below at have been toggled (below limit) or erased (above it).
ToggleInv ==
  loop = "toggle" =>
    /\ at <= Larger(limit, old_domain)
    /\ \A x \in before : x < old_domain
    /\ Contents = (before \ (0..at-1)) \cup ((0..Smaller(at, limit)-1) \ before)
    /\ domain = Larger(old_domain, Smaller(at, limit))

\* Only rejected elements go, and the first at positions have been accepted.
FilterInv ==
  loop = "filter" =>
    /\ at <= size /\ domain = old_domain
    /\ Contents \subseteq before /\ before \cap keep \subseteq Contents
    /\ \A k \in 0..at-1 : dense[k] \in keep

\* The first at positions are renamed and indexed; a later one is still
\* indexed at least if the renaming leaves it as it is.
RenameInv ==
  loop = "rename" =>
    /\ at <= size
    /\ \A x, y \in before : renaming[x] = renaming[y] => x = y
    /\ \A x \in before : x < old_domain
    /\ \A k \in 0..size-1 : dense[k] < domain
    /\ \A k \in 0..at-1 : sparse[dense[k]] = k
    /\ \A k \in at..size-1 :
         /\ dense[k] \in before
         /\ renaming[dense[k]] = dense[k] => sparse[dense[k]] = k
         /\ \A l \in 0..at-1 : dense[l] # renaming[dense[k]]
         /\ \A l \in at..size-1 : dense[k] = dense[l] => k = l
    /\ {renaming[x] : x \in before} =
         {dense[k] : k \in 0..at-1} \cup {renaming[dense[k]] : k \in at..size-1}
    /\ old_domain <= domain
    /\ domain = old_domain \/ \E k \in 0..at-1 : domain = dense[k] + 1

IInv == TypeOK /\ IndexesElements /\ consistent
        /\ ToggleInv /\ FilterInv /\ RenameInv

(* A loop that is about to return has done to the contents at the call     *)
(* what the caller asked for, although it overwrote and swapped elements   *)
(* while it walked over them.                                              *)
LoopResult ==
  /\ loop = "toggle" /\ at >= Larger(limit, old_domain) => Contents = (0..limit-1) \ before
  /\ loop = "filter" /\ at >= size => Contents = before \cap keep
  /\ loop = "rename" /\ at >= size => Contents = {renaming[x] : x \in before}

(* No loop runs for ever: complement() and rename() count up to a fixed    *)
(* bound; filter() either advances or shrinks the set.                     *)
LoopEnds == loop # "idle" ~> loop = "idle"

(* The contract.  Seen from outside, with a running call showing the set   *)
(* it began with, every method does to the set and to domain_size() what   *)
(* StateSet says, and sort() does nothing.                                 *)
shown == IF loop = "idle" THEN Contents ELSE before
shown_domain == IF loop = "idle" THEN domain ELSE old_domain

Promise == INSTANCE StateSet WITH set <- shown, domain <- shown_domain

ImplementsStateSet == Promise!Spec
=============================================================================
