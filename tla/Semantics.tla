------------------------------ MODULE Semantics ------------------------------
(***************************************************************************)
(* FunctionRepository.semanticize (mr-registry/app/repository.py): the     *)
(* canonical name under which the registry stores and looks up a function. *)
(* A name is a sequence of characters.                                     *)
(***************************************************************************)
EXTENDS SequencesExt

CONSTANTS
    LowerOf,   \* capital letter -> its small letter
    Others,    \* small letters and digits
    Marks      \* what is neither letter nor digit

ASSUME AlphabetAssumption ==
    /\ LowerOf \in [DOMAIN LowerOf -> Others]
    /\ DOMAIN LowerOf \cap Others = {}
    /\ (DOMAIN LowerOf \cup Others) \cap Marks = {}
    /\ {"_", ".", " "} \subseteq Marks

Chars == DOMAIN LowerOf \cup Others \cup Marks

IsUpper(ch) == ch \in DOMAIN LowerOf
InWord(ch) == IsUpper(ch) \/ ch \in Others

\* A capital begins a new word after a letter or a digit, so that each capital
\* of "FOO" does; what is no part of a word separates words.
\* Mutated form: of two capitals in a row the second begins no word.
BeginsWordSmall(name, i) == i > 1 /\ name[i - 1] \in Others
BeginsWord(name, i) == i > 1 /\ InWord(name[i - 1])

Spelled(name, i) ==
    IF IsUpper(name[i])
    THEN (IF BeginsWord(name, i) THEN <<"_">> ELSE <<>>) \o <<LowerOf[name[i]]>>
    ELSE IF name[i] \in Others \cup {"."} THEN <<name[i]>> ELSE <<"_">>

\* split(sep), drop what is empty, join(sep): one separator stays between two
\* pieces that are not empty.  Marks end a piece, too.
Separates(s, i, sep, marks) ==
    /\ i > 1
    /\ s[i - 1] \notin marks \cup {sep}
    /\ \E j \in (i + 1)..Len(s) :
          /\ s[j] \notin marks \cup {sep}
          /\ \A k \in (i + 1)..(j - 1) : s[k] = sep

Joined(s, sep, marks) ==
    FlattenSeq([i \in DOMAIN s |->
        IF s[i] = sep /\ ~Separates(s, i, sep, marks) THEN <<>> ELSE <<s[i]>>])

\* strip() of a name of which nothing else is left.
Stripped(name) ==
    LET solid == {i \in DOMAIN name : name[i] # " "}
    IN  IF solid = {} THEN <<>> ELSE SubSeq(name, Min(solid), Max(solid))

Semanticize(name) ==
    LET words == FlattenSeq([i \in DOMAIN name |-> Spelled(name, i)])
        parts == Joined(Joined(words, "_", {"."}), ".", {})
    IN  IF parts = <<>> THEN Stripped(name) ELSE parts

----------------------------------------------------------------------------
(* What it is for, said without it: two names are spellings of one if they *)
(* have the same words, whatever writes the words apart.                   *)

Letters(name) == {i \in DOMAIN name : InWord(name[i])}
Small(ch) == IF IsUpper(ch) THEN LowerOf[ch] ELSE ch

\* What is between a letter at i and the next one at j: a dot, a word's end.
Dotted(name, i, j) == \E k \in i..j : name[k] = "."
Parted(name, i, j) == j > i + 1 \/ IsUpper(name[j])

\* The letters of m can be read as those of n, one by one and in their order,
\* so that the letters are the same and what is between them is.
SameWords(m, n) ==
    \E at \in [Letters(m) -> Letters(n)] :
        /\ \A j \in Letters(n) : \E i \in Letters(m) : at[i] = j
        /\ \A i \in Letters(m) : Small(m[i]) = Small(n[at[i]])
        /\ \A i, j \in Letters(m) :
              i < j =>
                 /\ at[i] < at[j]
                 /\ (i + 1)..(j - 1) \cap Letters(m) = {} =>
                       /\ Dotted(m, i, j) <=> Dotted(n, at[i], at[j])
                       /\ Parted(m, i, j) <=> Parted(n, at[i], at[j])
=============================================================================
