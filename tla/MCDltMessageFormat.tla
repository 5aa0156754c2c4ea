------------------------- MODULE MCDltMessageFormat -------------------------
EXTENDS DltMessageFormat

\* Messages made of the lexemes of A, of length at most n, in which no two
\* identifiers touch and no empty string literal "" occurs.
Wellformed(A, n) ==
  {m \in BoundedSeq(A, n) :
     \A i \in 1..Len(m) - 1 :
       /\ ~(m[i] \in {WORD, FUNC} /\ m[i + 1] \in {WORD, FUNC})
       /\ ~(m[i] = QUOTE /\ m[i + 1] = QUOTE)}

\* Every message of up to 8 lexemes without member access or "+".
PlainMessages == Wellformed({QUOTE, WORD, FUNC, SEP, NL}, 8)

\* The round-trip example of spec 8: "prefix " + x.toString() + " suffix"
RoundTrip ==
  {<<QUOTE, WORD, SEP, QUOTE, SEP, PLUS, SEP, WORD, DOT, FUNC, SEP, SEP, SEP,
     PLUS, SEP, QUOTE, SEP, WORD, QUOTE>>}
=============================================================================
