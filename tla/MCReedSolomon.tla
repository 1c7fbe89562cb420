---------------------------- MODULE MCReedSolomon -----------------------------
(***************************************************************************)
(* Words of a field of eight elements for ReedSolomon: code words, received*)
(* with every pattern of few errors.                                       *)
(***************************************************************************)
EXTENDS ReedSolomon

CONSTANTS
  Codes,       \* pairs: length of a word, number of its check symbols
  Messages     \* polynomials that code words are multiples of

VARIABLES
  sent,    \* the code word before the errors
  errors   \* how many of its symbols were received wrong

\* The polynomial whose roots are those the syndromes are taken at.
Generator(checks) ==
  LET product[i \in 0..checks] ==
        IF i = 0 THEN One
                 ELSE TimesPoly(product[i - 1], <<1, Root(i - 1)>>)
  IN  product[checks]

CodeWord(message, length, checks) ==
  Padded(TimesPoly(message, Generator(checks)), length)

\* The positions and values of at most n errors.
Errors(length, n) ==
  UNION {[P -> Element \ {0}] :
           P \in {Q \in SUBSET (1..length) : Cardinality(Q) <= n}}

\* Three errors at the beginning of a word, more than can be corrected.
Burst == {[p \in 1..3 |-> <<a, b, 1>>[p]] : a, b \in Element \ {0}}

Received(code, e) ==
  [i \in DOMAIN code |->
     IF i \in DOMAIN e THEN Plus(code[i], e[i]) ELSE code[i]]

Init ==
  \E c \in Codes, m \in Messages :
    LET code == CodeWord(m, c[1], c[2])
    IN  \E e \in Errors(c[1], c[2] \div 2) \cup Burst :
          /\ Called(Received(code, e), c[2])
          /\ sent = code
          /\ errors = Cardinality(DOMAIN e)

Returned == rsPc \in {"ok", "null"}

Next ==
  \/ RSNext /\ UNCHANGED <<sent, errors>>
  \/ Returned /\ UNCHANGED <<rsVars, sent, errors>>

Spec == Init /\ [][Next]_<<rsVars, sent, errors>>

\* A word with at most half as many wrong symbols as it has check symbols comes
\* back as it was sent.
CorrectsUpToHalf ==
  Returned /\ 2 * errors <= twoS => rsPc = "ok" /\ word = sent

SmallCodes == {<<7, 4>>, <<5, 3>>}
SmallMessages == {<<0>>, <<1>>, <<6, 3>>}
=============================================================================
