# A TLA+ verification project for Mata

[Mata](../src/README.md) is a C++20 library for finite automata: nondeterministic
finite automata (NFAs), transducers (NFTs) and the operations that string
solvers and regular model checkers need. It is sequential: one call runs at a
time, on values the caller owns. What is hard about it is not concurrency but
long imperative algorithms over mutable representations - worklists that grow
while they are read, sets that are changed while they are iterated over, numbers
of states that nobody stores, caches and stacks that must stay consistent - and
sequences of calls that each are tested but not together.

The modules here model these algorithms step by step and the containers call by
call. TLC checks them on small instances, exhaustively; TLAPS proves the central
facts for every instance. Source paths below are relative to `src/` of the
repository checkout, so `src/src/nfa/nfa.cc` is `src/nfa/nfa.cc` of Mata.

## 1. Inventory

| Component | State it keeps | Operations | What makes it correct |
|---|---|---|---|
| **SparseSet** `utils/sparse-set.hh` | `dense`, `sparse`, `size_`, `domain_size_` | insert, erase, filter, complement, rename, truncate, sort, reserve | it is a set with a domain size; lookups never trust stale entries; the in-place loops reach every element once |
| **OrdVector, utils** `utils/ord-vector.hh`, `utils.hh` | an ascending vector | insert, union, difference, rename | order kept, set semantics |
| **Delta** `nfa/delta.cc` | posts by state, symbol posts by symbol, targets in order | add, remove, allocate, append, renumber, defragment, iterators | no empty symbol post, order at both levels, every target has a post |
| **Nfa object** `nfa/nfa.cc` | a Delta, `initial` and `final` as sparse sets; the number of states is derived | add_state, insert_word, unify, unite, complement, trim, clear, concatenate | the three parts stay in step; each operation has the language it promises |
| **Strongly connected components** `nfa/nfa.cc` 185-430 | call stack, Tarjan stack, `index`/`lowlink` | `tarjan_scc_discover()` with callbacks | components exact; the callbacks' flags exact |
| **Determinization** `nfa/operations.cc` 1396-1461 | macrostate map, worklist, result | `determinize()` with a callback | deterministic, same language, numbering one to one, ends |
| **Language inclusion** `nfa/inclusion.cc` | antichain, worklist, paths | naive, antichains | answer exact, counterexample real |
| **Universality** `nfa/universal.cc` | antichain, worklist, paths | naive, antichains | as inclusion |
| **Synchronized iterators** `utils/synchronized-iterator.hh` | positions and ends in several vectors | advance, push_back, reset | each common (each) symbol once, in order |
| **Emptiness and word search** `operations.cc` 775-922, 1513-1823 | stack of iterators, searched states | is_lang_empty, get_word(s), get_word_from_complement, is_in_lang | a word iff there is one, and one of the right language |
| **Product and boolean operations** `nfa/product.cc`, `operations.cc` 1306-1326, 1707-1811 | product storage, worklist | intersection, union_product, lang_difference | language of the pair, epsilons included |
| **Minimization** `operations.cc` 925-1303 | refinable partition | Hopcroft, Brzozowski | minimal, same language |
| **Reduction** `operations.cc` 26-488 | macrostates, covering sets | simulation, residual | same language |
| **Epsilon removal, reversal** `operations.cc` 529-767 | closure, worklist | remove_epsilon, three reverts | same / reversed language |
| **Complement, concatenation, builder** | - | compositions of the above | languages |
| **Alphabets** `alphabet.cc` | symbol map, next value | add, erase, translate | numbers stay one to one |
| **Transducers** `nft/*` | an automaton, the number of levels and a level per state | compose, apply, project, insert levels, intersection, concatenation, replacements, and what takes them for automata | relations over words: each operation makes the relation its name promises, and levels that describe it |
| **String queries** `strings/nfa-strings.cc` | a map from states to sets of shortest words, a queue | shortest words, word lengths, accepted symbols | all of the shortest words, exactly the lengths |
| **Noodlification, segmentation** `strings/nfa-*.cc` | depths of epsilon transitions, counts of epsilons by state, automata changed in place | segments, noodlify, noodlify_for_equation | the noodles are the solutions of the equation, no more and no less |
| **Closed sets** `utils/closed-set.hh` | an antichain | insert, union, intersection, complement | the antichain generates the set |
| **Parser, intermediate automata, mintermization, regex** | text, formula trees, BDDs | parse, mintermize | minterms partition |
| **Python bindings** | - | forwarding | - |

How they interact: an `Nfa` owns a `Delta` and two `SparseSet`s and its methods
call theirs; the algorithms read automata through `delta[q]` and the synchronized
iterators and build results by `add_state()` and `mutable_state_post()`;
`tarjan_scc_discover()` and `determinize()` call back into code their caller
passes, which may stop them; the inclusion check reads `distances_to_final()`
and `get_shortest_accepting_run_from_state()`; `complement()` is determinize,
trim, then `complement_deterministic()`. There is no shared state between calls
except the objects themselves and output parameters (a `Run`, a renaming, a map
of macrostates) that the caller may reuse.

The hard behaviours, listed at their lines in `PROJECT.json`, are of four kinds:
loops that change what they iterate over (`filter()`, `complement()`,
`rename()`, the pruning of antichains); facts derived from several containers
(the number of states; `on_stack` and the stack); early exits (a callback, a
distance, a break); and outputs and caches that outlive a call (`clear()`, a
reused `Run`, `utils::rename()`'s shortcut).

## 2. Modules

| Module | Models | Source |
|---|---|---|
| `StateSet` | abstract: a set of numbers with a domain size, what `SparseSet` promises | - |
| `SparseSet` | the class, each loop that changes what it iterates over one iteration at a time | `utils/sparse-set.hh` |
| `Automata` | graphs, automata, languages: the definitions to measure against | - |
| `AutomataProofs` | lemmas about these, about lists and about recursion over numbers, which the other proof modules share | |
| `TarjanScc` | `Nfa::tarjan_scc_discover()` and its four clients | `nfa/nfa.cc` 185-430 |
| `TarjanSccProofs` | theorems about it | |
| `Delta` | the transition relation as values: what changes it, its lookups, the lazy iterators over transitions and moves, the used symbols | `nfa/delta.cc`, `nfa/delta.hh`, `utils/utils.hh` |
| `TransitionGraph` | abstract: an automaton as a set of transitions, two sets of states and a number | - |
| `NfaValues` | the automaton as a value and the calls that change it in place | `nfa/nfa.cc`, `nfa/operations.cc` 497-526, `nfa/concatenation.cc` 17-58 |
| `Nfa` | an automaton object under any sequence of these calls | as `NfaValues` |
| `NfaProofs` | theorems about it, and lemmas about each operator of the two above | |
| `NfaOperations` | searches, the three reverts, determinization as a function, epsilon removal, product, difference, concatenation over an epsilon, complement | `nfa/operations.cc`, `nfa/product.cc`, `nfa/concatenation.cc` 60-132, `nfa/complement.cc` |
| `WordQueries` | emptiness, membership, the words of an automaton, a complement or a difference; universality, equivalence, naive inclusion, distances | `nfa/operations.cc` 775-922, 1513-1823, `nfa/universal.cc`, `nfa/inclusion.cc`, `nfa/nfa.cc` 97-125 |
| `Reductions` | the quotient by simulation and the two residual reductions | `nfa/operations.cc` 26-488 |
| `StringQueries` | shortest words, word lengths, segments and noodles | `strings/nfa-strings.cc`, `nfa-segmentation.cc`, `nfa-noodlification.cc` |
| `LanguageAlgebra` | abstract: a register that holds a language | - |
| `Calculator` | a register that holds an automaton, under any sequence of the operations; what the queries answer about it | the same files |
| `NftValues` | a transducer as a value: its levels, states with levels, words inserted, trimming | `nft/nft.cc`, `nft/nft.hh` |
| `NftOperations` | projection, insertion of levels, intersection, composition, application, concatenation, union; what takes a transducer for an automaton; tuples, universality, equivalence | `nft/operations.cc`, `nft/intersection.cc`, `nft/composition.cc`, `nft/concatenation.cc`, `nft/complement.cc`, `nft/universal.cc`, `nft/inclusion.cc` |
| `Replacements` | the transducers that replace a symbol, a literal or a regular expression | `nft/strings.cc` |
| `Transducer` | a register that holds a transducer, under any sequence of these operations and both jump modes; before that, relations over words on tracks and replacing, the definitions to measure against | the same files |
| `Exploration` | abstract: a search that finds successors of what it has found, and its two theorems | - |
| `Determinize` | `nfa::determinize()` | `nfa/operations.cc` 1396-1461 |
| `DeterminizeProofs` | theorems about it | |
| `Merge` | abstract: a collection of values delivered in order, what a synchronized iterator promises | - |
| `SynchronizedIterator` | the vectors and the state that both iterators have | `utils/synchronized-iterator.hh` 42-96 |
| `SyncUniversal` | the iterator of the products | `utils/synchronized-iterator.hh` 98-167 |
| `SyncExistential` | the iterator of determinization, and `synchronize_with()` | `utils/synchronized-iterator.hh` 169-275, `nfa/delta.cc` 720-732 |
| `UtilitiesProofs` | theorems about the sparse set and the two iterators | |
| `AntichainInclusion` | `is_included_antichains()` with the counterexample run | `nfa/inclusion.cc` 44-241 |
| `AntichainInclusionProofs` | theorems about it | |
| `WordSearch` | `Nfa::get_word()` and its stack of iterators | `nfa/operations.cc` 1559-1626 |
| `WordSearchProofs` | theorems about it | |
| `RefinablePartition` | the partition class of the minimization, as values | `nfa/operations.cc` 955-1174 |
| `Hopcroft` | `minimize_hopcroft()` over two such partitions | `nfa/operations.cc` 1178-1303 |
| `HopcroftProofs` | theorems about both | |

`MC*` modules give the constants values; each has one or more `.cfg`. `SparseSet`
needs none, its constant is a number.
The operators named "A mutant of ..." are plausible bugs of the definition they
stand before. No specification uses them; each property was seen to fail when
one of them replaces its definition, and `PROJECT.json` lists the pairs.

### How state and actions correspond to the code

**SparseSet.** `dense` and `sparse` are functions over the allocated indexes.
`reserve()` pads both with zeros, as `std::vector::resize()` does, and what
`erase()` leaves behind stays in `sparse`: `contains()` is right only because it
looks the entry up in `dense`, which is part of `Representation`. `insert()`, `erase()`, `clear()`, `reserve()`,
`sort()` and `truncate()` are one action each. `complement()`, `filter()` and
`rename()` are a call, one action per loop iteration and a return, because
the loops change `dense` while they walk it. The refinement mapping hides a
call in progress: the abstract set changes at the return.

**TarjanScc.** A step is one iteration of the outer `while`, split where the code
calls a client: `Discover`, `Resume`, `FollowMove`, `Descend`, `CloseRoot` with
`CloseMember`, `SkipClosed`. The clients' lambdas are actions of their own, so
`get_useful_states()` marks and propagates in the order of the code.

**Delta and Nfa.** The data structure is kept, with its order: a delta is a
sequence of posts, a post a sequence of symbol posts, targets an ascending
sequence. Every method is an operator from a value to a value, written from its
body, and an action of `Nfa` replaces the variable `aut` by the result.
A sparse set is a record of its elements and domain size: `SparseSet`'s
refinement of `StateSet` justifies that. `remove()` of a missing transition
throws and changes nothing, so it is not a step. `utils::rename()` skips numbers
equal to their index; the model does too.

**Calculator.** The step-by-step modules above take one algorithm apart. The
calculator puts the operations of `mata::nfa` in sequence: each is a function
from automata to automata, written from its loop (a worklist is a sequence, an
automaton under construction a record), and an action replaces the register `aut`
by its result, the states nothing leads to, unallocated posts and epsilons that
an operation leaves included. Results are numbered in the order of discovery,
as in the code; where the code enters initial states or pairs of initial states
in the order of a sparse set, or walks over an unordered map, the model
takes the ascending order, and both orders where the result could depend on it
(`ReduceResidual`). An action's guard is what the operation documents or needs:
determinization takes epsilon for a symbol, so the complements and the
difference are called without epsilons. `union_product()` is called with any two
automata: with complete ones it must give the union, with others only what its
construction still promises (`PartOfUnion`). `concatenate_eps()` is called with the
default epsilon and with a letter in its place, which it does not remove.
The simulation that `reduce()` divides by comes from the vendored simlib and is
modelled by its definition.

**StringQueries.** The worklists of `ShortestWordsMap` and `Segmentation` are
sequences and keep their order. A list of noodles is modelled by its set, because
nothing reads its order. The automata of an equation are names in a heap, so that
one that is named twice is one object: the version with references unifies it as
often as it is named, the one with two sides once.

**Transducer.** A transducer is an automaton with a sequence of levels and their
number. The sequence may be shorter or longer than the states, as the vector in
the code: `trim()` takes levels out by flags that end before the levels do, and
what lies there then depends on them, a choice over `unset_levels`. Operations
that read the level of every state are guarded by `has_levels`. `jump_mode` is
chosen at the start and passed to every call. Operations that trim on their way
(`project_out()`, `compose()`, `apply()`, the replacements) are sets of results, one for
each choice of the stale levels. `compose()` is modelled with the assertion of
`project_out()` checked and noted in the call (`called[4]`) and the call carried on
as a build without assertions does. `is_tuple_in_lang()` goes round by round
over what its worklist holds, without a record of what was visited, as in the
code, and has three outcomes: accepted, rejected, never returns.

**Determinize.** `macrostates` is the map read backwards: the macrostate of number
i. A step takes a macrostate, or handles one symbol of the iterator. The
callback is a choice after each discovery between going on and stopping. The
caller's `subset_map` is empty at first: it is an output (`nfa.hh` 683).

**SyncUniversal and SyncExistential.** The class they derive from is
`SynchronizedIterator`; what each of them makes of its methods has its own name
(`UAdvance`, `EAdvance`), so that one module can speak of both. A step is an iteration of a loop of
`advance()`. A vector holds numbers, which stand for symbols. The universal
iterator's position is an index; the existential one's names its vector too,
because `positions` is reordered and `currently_synchronized` and `next_minimum`
are copies of positions. `next_minimum` and `current_minimum` are kept as values:
the vectors are not changed, so an iterator to a value and the value say the
same. `layout` is where the second vector lies in memory relative to the first,
chosen when the iterator is filled: the code compares iterators into the two.
Formally that comparison is undefined; on a flat address space it has these
outcomes, which are the ones a build produces.

**AntichainInclusion.** A step handles one transition of `smaller`, in the order of
the posts. The pairs are pruned from `processed` and `worklist` in the step
that adds a pair, as the code does. The distances are computed once, at the
start. The initial states are entered in any order, because a sparse set is
iterated in the order of its `dense` array. `cex` starts as whatever the caller's
`Run` holds.

**WordSearch.** A step is an iteration of the inner loop, or one of the loop over the
initial states. An entry of the stack is a state, the symbols its first iterator
has yet to leave and the targets its second one has yet to leave: posts and
targets are ordered, so the iterators stand at the least of each. A target stays
the current one of its entry while it is searched, and is passed when its own
entry is popped. After the last entry is popped, the code increments what
`back()` of the empty vector refers to; the model follows the outcome that
nothing the search reads is changed, and notes the event in `overrun`.

**RefinablePartition and Hopcroft.** A partition is a record of the vectors of the
class, and each method an operator on it. A step of `Hopcroft` marks one state or
one transition, splits one block or splits one splitter, so that the walk along
`get_next()` and the writes of `mark()` and `split()` interleave as in the code.
`split_block()` marks the transitions into the smaller half one by one (`moved`
holds those still to come). The final states are marked in any order, that of
the sparse set. The inputs are those the function asserts: deterministic, with
one initial state, every state useful.

## 3. Runs

| Run | Instance | What it shows |
|---|---|---|
| `sparse_set` | numbers 0..2, all calls | the structure stays sound, the in-place loops end with the right contents, calls return, and it implements `StateSet` |
| `tarjan` | every graph on 3 states, some with parallel moves, every set of final states and choice of client | the stacks, the components, the useful states and the clients' answers are exact; the search ends |
| `nfa` | 3 states, 1 symbol, up to 3 added transitions, words up to 3 | the representation stays sound, the operations have their languages (`concatenate()` with another automaton and with itself among them), and the object implements `TransitionGraph` |
| `determinize` | 3 states, 2 symbols, up to 4 transitions, words up to 4 | soundness and completeness of the construction, language, termination; implements `Exploration` |
| `sync_universal` | vectors over 0..2: two anywhere in memory, or three with the second not above the first | delivers the common values in order, flag and positions agree, `advance()` returns; implements `Merge` |
| `sync_existential` | up to 3 vectors over 0..2 | delivers every value once with all its positions, `synchronize_with()` stops where it must; implements `Merge` |
| `inclusion` | 2 and 2 states, 2 symbols, up to 3 and 3 transitions | the antichain, the answer, the counterexample, termination |
| `word_search` | 3 states, 2 symbols of which one is an epsilon, 1 or 2 initial states, up to 4 transitions | the stack, the searched states, the answer, termination |
| `hopcroft` | deterministic trimmed automata: all on up to 3 states and 2 symbols or 4 states and 1 symbol, some on 4 states and 2 symbols | the two partitions stay consistent and fit together, only states of different languages are separated, putting smaller halves on the worklist suffices, the result is minimal and has the language, termination |
| `calculator` | 41 automata of two and three states over 0, 1 and an epsilon, two operands, two calls in a row, words up to 3 | every operation does to the language what its name promises whatever came before (`LanguageAlgebra`); after each, the queries, decisions, iterators, alternative constructions, shortest words, lengths and noodles agree with the language |
| `transducers` | 4 transducers of two and three tracks under both jump modes, two calls in a row, words up to 2 a track (3 where occurrences are replaced), up to 4 levels; the masks of up to 3 synchronized pairs on up to 5 tracks | every operation makes the relation its name promises, with the tracks it should have, the levels stay a description of the tracks, `project_out()` is called as it asserts but in the case below, the masks of `compose()` are right exactly where stated, and the queries agree with the relation or never return exactly where stated |
| `word_search_top` | as `word_search` | expected violation, see below |

A property is often a conjunction of named parts that belong together
(`ConstructionSound`, `StackSound`, `SearchSound`, `AntichainSound`,
`AllCollected`, `RefinementSound`, `LanguagesExact`, `ClientsExact`,
`RepresentationsExact`, `StringsExact`): the parts, types among them,
are defined and commented on their own.
`ImplementsStateSet` leaves the argument of `filter()`, `rename()` and
`complement()` open, because it is gone when the call returns; `LoopResult` says
which set these calls end with.

**Bounds and why they are enough.** Three numbers give a sparse set whose erase
moves an element that is neither first nor last. Three states are the least
with a component of two reached from a third, and with a state that is useful
only by an edge back to a component that is closed already. In `Nfa` the bound on
transitions limits what the user adds (by `add()`, `insert_word()` and
`make_complete()`); the operations may exceed it (complement, unification and
concatenation add their own), and `MaxStates` lets an automaton be united with
another. The automata to unite or concatenate with include one whose initial state has no
post. `MaxWord` is at least the number of states, so a difference
between an automaton and its determinized or trimmed form on these sizes shows
within the bound. Determinizing three states
reaches eight macrostates. Inclusion on two-state automata has pairs that
subsume each other in both directions, words refused by length and words
refused by finality; the mutants show that pruning matters there. The iterators
compare values of at most two or three vectors at a time; with three values and
three vectors a position can be overtaken twice, and a vector can leave from
every place of the array. The word search on three states goes two entries
deep, returns, changes the symbol, meets searched targets and starts again from
a second initial state. Hopcroft's algorithm on three states and two
symbols splits a block whose old splitter still waits and one whose splitter
has been used; on a cycle of four states a block is split three times.

In the calculator the second call starts from every kind of automaton the first one
can leave: several initial states (reversal), unreachable states and epsilons
(concatenation), no states at all (trimming, Brzozowski), a sink (complement).
Automata of more than three states are asked about but not worked on further. One
beginning has three states because only its determinization has two final
states that shorten another's words in an order that matters. Words up to three
tell two-state languages apart. Equations are solved with the register once
and twice on the left side, and on both sides at once over one letter. The four
transducers have an inner state and a jump, a silent half, a track only jumps
pass, and no states; two partners of two tracks are composed with them on either
side. Replacements are read on all inputs of up to three letters, enough for an
occurrence, a failed beginning of one and an overlap. Masks depend on the numbers of
tracks and the levels alone: three pairs are the least for which an assigned offset
differs from one that is added up, and five tracks leave room for two paddings.

**Fairness.** The algorithms are loops without blocking: as long as the program
runs, the next iteration happens. `WF_vars(Next)` says exactly that, and is used
for the `Terminates` properties only. The containers have no fairness: the user
may stop calling. The iterators have it for the loops of a call (`WF_vars(Loop)`).

**Deadlock.** Checking is off where a specification models one call, which ends.
`SparseSet` and `Nfa` never stop: some call is always possible.

### What the runs found

*`word_search_top`.* The inner loop of `get_word()` pops the entry of a state that
is used up and then increments the target iterator of the entry below
(`operations.cc` 1611-1613), also when none is left. Any automaton with a
transition from an initial state that leads to no final state gets there. What
the write hits is not the search's, so the answer is right as far as the run
`word_search` follows it.

Observations without a run of their own, met while the models were written or
when a property was first stated without the guard it now has:

* *A used `Run`.* `is_included_antichains()` appends the counterexample to the `Run`
  it is handed (`inclusion.cc` 179); only the early return for an initial state
  clears it. With an empty `Run`, which every caller in the repository passes,
  `CexExact` holds.
* *Three vectors anywhere in memory.* After moving the first position `advance()`
  means to compare all positions again. It tests `positions[0] > positions[1]`
  (`synchronized-iterator.hh` 149): iterators, not values, of two containers.
  Where the second container lies above the first the test is never true; with
  the vectors 0 1, 0 and 1 it then returns true on 1, 0, 1. With two vectors
  starting over is the same as going on, so the products are not affected.
* *`clear()`*: `nfa.hh:155-158` says that it sets each member to its zero value.
  `SparseSet::clear()` keeps the domain size, and `num_of_states()` reads it, so a
  cleared automaton that had an initial state 1 still has two states. `Nfa`
  models this, and `TransitionGraph!Clear` allows it.
* *Jumps in the intersection of transducers.* With `RepeatSymbol`, a side that
  waits in a jump does so in the jump's source (`nft/intersection.cc` 160-170,
  227-234) and forgets which transition, over which symbol, it was on. The result
  then has tuples that one operand does not. `Intersect` is guarded accordingly.
* *Epsilons of transducers.* `remove_epsilon()` on a transducer skips levels where
  an epsilon stands on one track only. `get_one_level_aut()` returns its argument
  unchanged when the number of levels and of states differ (`nft.cc` 269-277), so
  `are_equivalent()` then compares jumps that were not spelt out.
* *Levels that get lost.* `concatenate_eps()` and the operations inherited from
  automata return transducers of two levels without a vector of levels; `uni()`
  leaves it short; the sink of a complement has no level; `concatenate()` misplaces
  the second operand's levels when the first has more levels than states.
* *`compose()` of an operand without a language.* The intersection then returns a plain
  `Nft{}` of two levels (`nft/intersection.cc` 33-34), whatever the operands have, and
  the result comes back with one track. When the synchronized level is beyond
  these two, the assertion of `project_out()` (`nft/operations.cc` 185) fails; a
  build without assertions goes on. `TransductionsExact` says so: the assertion
  holds if and only if both operands have a language or the first, synchronized at its
  last track, has at most two.
* *`compose()` over several pairs of synchronized levels* keeps one offset by addition
  and assigns the other (`composition.cc` 67, 70). `MasksAligned` says when that is
  right, provided that at most one of the operands has levels between a pair
  and the one before: exactly if the second operand is padded at most once
  before the last pair. With levels of both sides between two pairs the masks
  go wrong in other cases too.
* *Tuples.* `is_tuple_in_lang()` (`nft/operations.cc` 990-1052) never returns on a tuple that is not
  accepted and can be read up to a cycle of epsilons; projecting to one track can leave
  such a cycle. `AnswersExact` says exactly when. The query reads the symbol of a
  jump on the first track it passes only; the property asks for transducers whose
  jumps are `DONT_CARE`.
* *Iterators.* `project_out()` inserts into `closure[s]` inside the range loop over it
  (`nft/operations.cc` 280-283), and `marker_nft()` keeps a reference to a state post and
  iterators into it over `add_state()` and changes of its targets (`strings.cc` 282-291). The
  models work on values and show what the code does where nothing dangles.
* *Noodles* are solutions only of segment automata, where each state has one depth:
  a state is expanded with the depth at which it was first met.
* *`get_word_from_complement()`* dereferences the end of the alphabet when the
  automaton reads a symbol beyond it (`operations.cc` 1700), which is not modelled.
  *`union_product()`* is not the union of incomplete automata (`nfa.hh` 563-571 does not say
  so), and *`concatenate_eps()`* removes the default epsilon, whatever the caller's
  (`concatenation.cc` 128); `ImplementsLanguageAlgebra` states what they give instead.
  The static set of `get_used_symbols_set()` is
  never cleared (`delta.cc` 582-598); *`decode_utf8()`* loses targets when sequences
  share a first byte (`nfa.cc` 740).

## 4. Proofs

All theorems are checked by TLAPS from the definitions, for every value of the
constants. The named assumptions on constants say what the types of the code
say: `MaxState` is a natural number; states and symbols are natural numbers, the
states of an automaton finitely many, and the inputs automata over them
(`InputsAssumption`, `AntichainAssumption`, `TarjanAssumption`), deterministic and
trimmed where the code asserts it (`InputsAssumption` of `Hopcroft`); the vectors of an
iterator are ascending, and any number of them may be pushed; the alphabet of an
`Nfa` object is a finite set of numbers, its bounds are numbers, the words inserted are
not empty (the code asserts it) and the other operands of a union have a sound
representation themselves (`SymbolAssumption`, `BoundsAssumption`,
`WordsAssumption`, `OtherAssumption`). Two theorems have a hypothesis of their own, named below.

* **`UtilitiesProofs!Represented` and `LoopsRight`**: for every size, the structure is
  well typed, `sparse` indexes every element, `contains()` answers exactly outside
  `rename()`, the class's own `consistent()` holds, and the loops of `complement()`, `filter()` and `rename()`, which swap and
  overwrite the elements they walk over, end with the contents asked for.
  The invariant speaks of the state between two iterations of a loop: which
  part of `dense` is done, which is to come, and which entries of `sparse` are
  not to be trusted during `rename()`. Without these the three loops cannot be
  shown to restore the representation.
* **`UtilitiesProofs!SparseSetRefinement`**: `SparseSet` implements `StateSet`. For the
  loops the invariant relates what has been done to the set at the call, so that
  the return is the abstract step.
* **`TarjanSccProofs!Stack`, `ComponentsRight`, `Clients`**: for every graph, with
  parallel moves and in every order of them. `program_stack` holds two things,
  initial states that still wait and the states whose simulated calls are open; the
  invariant says where it changes from one to the other and where the open
  calls end (`Found`). Then it is the classical argument about open calls, made of
  the iterations of the code: a state on Tarjan's stack leads back to the open call
  it was found from, no processed move of it passes below that call's `lowlink`,
  and what is closed is closed under successors. So a root's
  part of the stack is strongly connected, nothing outside it is, and when
  the outer loop ends every reachable state is in a reported set. `Marks` says
  of the clients' flags what they are when a component is closed (a state is
  useful if a final one or a useful component has been seen from it; a jump
  back into the component, a second move inside it), which gives the four answers.
* **`NfaProofs!NfaWellFormed`**: whatever is called in whatever order, for every alphabet
  and every bound on the number of states, posts and targets are ordered, no symbol
  post is empty and no target lies beyond the posts. The invariant adds the types
  and the bound; what takes work is that each operation keeps it. `Delta::add()`
  searches for the place of a symbol only behind the last one, `renumber_targets()`
  and `rename()` write over targets without sorting them, `defragment()` moves
  posts and drops those that become empty, and `rename()` leaves a number alone
  that is its own index, which is right because all smaller states then stay
  (`RenamedVector`). Each operation has a lemma that says what it does
  to the moves of a post, the transitions of a delta, or the parts of an automaton.
* **`NfaProofs!NfaImplementsTransitionGraph`**: each call is the step that
  `TransitionGraph` prescribes, or a stutter. The loops over containers are folds and
  recursive functions; `FoldOverList` and `SubsetInduction` reason about the former
  one element at a time. The two sides compute
  useful states differently, `trim()` from the layers of two closures and the promise in
  rounds of its own; both are shown to be what is reachable and leads to
  a final state, and the ranks of these among themselves to be the new numbers.
* **`NfaProofs!NfaLanguagesExact`**: whatever was called before, the next `trim()`,
  `unify_initial()` or `unify_final()` keeps the language, `unite_nondet_with()`
  unites two, `concatenate()` accepts what can be divided into a word of each, and
  `complement_deterministic()` accepts of the words over its symbols
  those that a deterministic automaton does not. The bound on the length of words is a
  constant, any number, so this is about all words. What the first k letters lead to
  is a layer (`Layered`), and by induction over k the layers of the result are, for
  `unify_initial()`, those of the operand from the first letter on; for `unify_final()`
  these and perhaps the new state; for `unite_nondet_with()` those of the two operands
  side by side (`SideBySide`); for `trim()` the ranks of the useful states among
  those of the operand, because a state on an accepting run is useful; for
  `concatenate()` those of the first operand and, beside them, what the second makes
  of every rest of the word that begins where the first could have ended (`Beyond`);
  an automaton concatenated with itself has allocated its posts by the time it reads
  them, which changes no layer; for the
  complement the same single state, or the sink where the operand is stuck (`InStep`).
  `trim()` also leaves none but useful states, numbered without gaps.
* **`DeterminizeProofs!Invariance`**: types, one-to-one numbering, soundness and
  completeness of the transitions. `FirstAlone` is the strengthening: the first
  macrostate, the only one that may be empty, waits alone, so the `break` on an
  empty macrostate skips nothing. `MovesComplete` needs what the iterator
  has yet to deliver, its second conjunct.
* **`DeterminizeProofs!Language`** and **`Refinement`**: the result accepts exactly the
  words of the input, of any length, and some of them only if a callback stopped
  the construction; `Determinize` implements `Exploration`. The former by
  induction over the prefixes of a word: the state reached in the result
  is the number of the macrostate reached in the input.
* **`AntichainInclusionProofs!Antichains`, `Answers`, `Inclusion`**: for any two automata,
  `is_included_antichains()` answers "included" exactly when every word the smaller
  automaton accepts, of whatever length, is accepted by the bigger one.
  The pairs that are processed cover, up to subsumption, the initial pairs and
  every successor of a pair that no longer waits, whatever is pruned between; so
  when none waits they cover all pairs there are, and none of them
  refutes. The early exits need more: that the layers of
  `distances_to_final()` are the lengths of shortest accepted words (`Far` of them
  suffice because there are finitely many states), and that a pair whose state is
  nearer to acceptance than every state of its macrostate has a word that only the
  smaller automaton accepts.
* **`AntichainInclusionProofs!Counterexamples`**: the `Run` returned is a run of the smaller
  automaton over a word the bigger one rejects. Hypothesis: the `Run` handed in
  is empty (section 3). `paths` is a forest over all pairs ever met: each
  leads back to an initial pair by a chain of steps, no longer than there are pairs,
  that spells its word; the rest of the word is a shortest one to a final state.
* **`UtilitiesProofs!Invariance` and `CommonDelivered`**: the universal iterator for any
  vectors, as many as wanted if the second does not lie above the first, at most
  two otherwise (`Trusted`, the hypothesis both theorems name). The invariant:
  nothing common to all lies between `last` and a position, and the positions
  before `i` stand on the first one's value or the loop will start over.
* **`WordSearchProofs!Invariance`, `AnswerJustified`, `Answers`, `NoneAccepted`**: for any
  automaton, a word comes with an accepting run over the letters collected, of
  different states, so it is no longer than there are states; and "no word" with a
  set of states that holds the initial ones, no final one, and that no
  transition leaves, so no word of any length is accepted. The invariant: the
  stack is a path (`Linked`), and a target of a searched state is searched or still
  ahead of the state's entry (`Expanded`). Its two parts are stated for any stack
  and any set of searched states, so that replacing the top, pushing and popping
  are three lemmas and each action cites one or two of them.
* **`UtilitiesProofs!Collects`, `Synchronizes`, `OfferedDelivered`**: the existential
  iterator for any vectors, however many. The difficulty is that a vector that is used up
  is replaced by the last one while the loop walks over them. So the invariant
  does not speak of a vector's place among `positions` but of the vector: a value that its
  position has passed has been delivered or, during a walk, collected
  (`Behind`); one that it has not passed lies above `last` and not below
  `current_minimum` (`Undelivered`). `LeastOf(m)` says what `next_minimum` is after
  the first `m` positions of a walk, `Walking` why a walk finds the value it was
  started for, and `Asked` what `synchronize_with()` still has to find.
* **`HopcroftProofs!MarkRepresents`, `RoomForSplit`, `SplitRepresents`,
  `TransitionsRepresent`**: for a partition of any size, marking and splitting keep
  `elems` and `location` inverse to each other and every set at its places, do to the
  marks and to the sets what is asked, and never need more sets than there are
  elements, which is the length of the vectors. The last is a counting argument: the
  first places of the sets and the mark of the one that splits are different. The
  constructor makes a set for each symbol, by the number of first transitions before
  it, and places for its elements, by the number of transitions before them.
* **`HopcroftProofs!Invariance`, `Partitions`, `SmallerHalves`, `Minimal`,
  `Language`**: `minimize_hopcroft()` for every deterministic trimmed automaton, with
  the walk along `get_next()` while `mark()` moves elements, and `split_block()` in its
  single steps. The invariant `HInv`, checked by TLC before it was proved, has
  these parts. `Touched`: what is marked is on a stack, so no split is forgotten.
  `Fit`: while the transitions into the smaller half x of a split block are being
  marked, the splitters still fit to the old blocks, and those already sorted to the
  new ones; afterwards to the new ones, which is `PartitionsSound`.
  `Coarse` and `Uniform`: blocks are unions of classes of states with the same words,
  and tell final states from others. `Current`: this is why smaller halves suffice. A
  transition of a state and the transition of another state of its block over
  the same symbol are in one splitter, or a splitter that tells them apart waits, or
  the one in use does (`Settled`). The splitter in use may be split and its halves
  put on the stack while it is being used, so the invariant remembers the set C of
  transitions it had when it was taken; `Firing` says which of its sources are marked
  and `Fired` which blocks have been split by them. When nothing is left to split, every block
  lies inside or outside the sources of C, and the third case is gone.
  That blocks are never too coarse uses that the automaton is trimmed: a state without
  a move over a symbol and one with it have different words only because some word
  leads on from every state (`Congruence`). `Minimal` compares words shorter than the
  number of states, as the run does; `Moore` shows that these tell apart whatever any
  words do, by counting the classes of states that n letters tell apart. `Language`
  says it of all words.
* **`DeterminizeProofs!OnlyReachable`, `FoundAll`**: what every search of the shape of
  `Exploration` guarantees, for determinization: it finds only reachable
  macrostates and, when not stopped, all of them.

How recursion is dealt with: the closures, layers and languages of `Automata` and of
the models are recursive functions, which the provers see as a CHOICE of a
function that satisfies its equation. `AutomataProofs` shows that there is one
(`Iteration`), so the equation may be used, and does induction over
numbers through least counterexamples (`UpTo`), because the library's induction
theorems cannot be instantiated here. Lists that the code only iterates over
(successors of a pair, moves of a state) enter the proofs through three facts: their
members, their length, their order.

Only model-checked: the properties of the calculator and of the transducers, whose operations and
relations are recursive operators, which the prover does not accept; all `Terminates` and
`...Returns` properties and `LoopEnds` (liveness is out of the proof system's reach).

## 5. Not modelled, and the plan

The vendored libraries (CUDD, RE2, simlib), text formats, printing, the random
automata and the Python wrappers are left out: they hold no state of Mata's own.
So are allocation limits; vectors grow as needed. Of the components that are
modelled, what is left out is:

* of the Nfa object: `decode_utf8()`, whose inputs are automata over bytes, and the
  printing;
* of the transducers: printing, parsing, the builders from text, the antichain
  inclusion (the code of the automata's, over transducers) and, of compositions
  over several pairs of levels, all but their masks (the run synchronizes one pair);
* what is read through a dangling or past-the-end iterator, where the notes above say so,
  a counterexample in a `Run` that was used before, and a `subset_map` that is not empty;
* of the vectors: the merging loops of `OrdVector`, which the unit tests cover case
  by case; `filter()` and `filter_indexes()` have no caller.

Left to do, in this order:

1. **`Alphabet`** and **`ClosedSet`** as functions on values: the next symbol after
   additions and erasures; an antichain under union, intersection and complement.
2. **`Minterms`**, with the decision diagrams modelled by what they stand for, and
   the conversion of formulas to postfix.
3. **`DecodeUtf8`** over an abstract split of a symbol into two bytes.
