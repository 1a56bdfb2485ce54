--------------------------- MODULE LanguageAlgebra ---------------------------
(***************************************************************************)
(* What the operations on automata promise: a calculator with one register *)
(* that holds a language, seen through its words of length up to MaxWord.  *)
(* A call replaces the language by what its operation makes of it and, for *)
(* an operation with two operands, of an operand from a fixed stock.       *)
(***************************************************************************)
EXTENDS Naturals, Sequences, FiniteSets, SequencesExt

CONSTANTS
  Letter,           \* the alphabet
  MaxWord,          \* words up to this length are seen
  Stock,            \* names of operands
  LanguageOf        \* their languages

VARIABLES language, called

Word == UNION {[1..n -> Letter] : n \in 0..MaxWord}

concatenation(K, L) == {w \in Word : \E i \in 0..Len(w) :
                          SubSeq(w, 1, i) \in K /\ SubSeq(w, i+1, Len(w)) \in L}

\* The language that operation op makes of L.
made(op, L) ==
  CASE op[1] = "same" -> L
    [] op[1] = "reverse" -> {Reverse(w) : w \in L}
    [] op[1] = "complement" -> Word \ L
    [] op[1] = "intersection" -> L \cap LanguageOf[op[2]]
    [] op[1] = "union" -> L \cup LanguageOf[op[2]]
    [] op[1] = "concatenation" -> concatenation(L, LanguageOf[op[2]])
    [] op[1] = "joined" -> concatenation(concatenation(L, {<<op[2][2]>>}), LanguageOf[op[2][1]])
    [] op[1] = "difference" -> L \ LanguageOf[op[2]]
    [] op[1] = "one_letter" -> {w \in Word : \E v \in L : Len(v) = Len(w) /\ Range(w) \subseteq {op[2]}}

Calls ==
  {"same", "reverse", "complement"} \X {0}
    \cup {"intersection", "union", "concatenation", "difference"} \X Stock
    \cup {"joined"} \X (Stock \X Letter)
    \cup {"one_letter"} \X Letter

Init == language \in SUBSET Word /\ called = <<"same", 0>>

\* One call, recorded with the operation it promises.
Call(op) == called' = op /\ language' = made(op, language)

\* A union that may lose words, but none that both languages have.
PartOfUnion(o) ==
  /\ called' = <<"part_of_union", o>>
  /\ language' \in SUBSET (language \cup LanguageOf[o])
  /\ language \cap LanguageOf[o] \subseteq language'

Next == (\E op \in Calls : Call(op)) \/ \E o \in Stock : PartOfUnion(o)

Spec == Init /\ [][Next]_<<language, called>>
=============================================================================
