--------------------------- MODULE HighlightProofs ---------------------------
(* Proofs about the highlighter, for lines of any length, any letters and any  *)
(* keywords of which none begins another: PrintInv is inductive, one lemma per *)
(* kind of branch.                                                             *)
EXTENDS Highlight, Integers, FiniteSetTheorems, TLAPS

\* The letters of a line are numbered from 0.
LEMMA LineIs ==
  ASSUME TypeOK
  PROVE  /\ Length \in Nat /\ Length <= MaxLength /\ MaxLength \in Nat
         /\ DOMAIN line = 0 .. (Length - 1) /\ line \in [0 .. (Length - 1) -> Char]
<1>1. PICK n \in 0 .. MaxLength : line \in [0 .. (n - 1) -> Char]
  BY DEF TypeOK, Lines
<1>2. n \in Nat /\ n <= MaxLength /\ MaxLength \in Nat
  BY HighlightAssumption
<1>3. DOMAIN line = 0 .. (n - 1)
  BY <1>1
<1>4. Cardinality(0 .. (n - 1)) = n
  <2>1. 0 \in Int /\ n - 1 \in Int
    BY <1>2
  <2>2. Cardinality(0 .. (n - 1)) = IF 0 > n - 1 THEN 0 ELSE (n - 1) - 0 + 1
    BY <2>1, FS_Interval
  <2> QED BY <1>2, <2>2
<1>5. Length = n
  BY <1>3, <1>4 DEF Length
<1> QED BY <1>1, <1>2, <1>3, <1>5

\* A letter of the line is none of the zero bytes after it.
LEMMA AtIs ==
  ASSUME TypeOK, NEW i \in Nat
  PROVE  /\ i \in DOMAIN line <=> i < Length
         /\ i < Length => At(i) = line[i] /\ At(i) \in Char
         /\ ~(i < Length) => At(i) = "NUL"
         /\ At(i) # "NUL" <=> i < Length
<1>1. "NUL" \notin Char
  BY HighlightAssumption DEF Char, Quotes
<1>2. i \in DOMAIN line <=> i < Length
  BY LineIs
<1>3. i < Length => At(i) = line[i] /\ At(i) \in Char
  BY LineIs DEF At
<1>4. ~(i < Length) => At(i) = "NUL"
  BY DEF At
<1> QED BY <1>1, <1>2, <1>3, <1>4

\* A word that matches is inside the line, and begins with a letter.
LEMMA MatchInside ==
  ASSUME TypeOK, NEW k \in Keyword, NEW i \in Nat, Matches(k, i)
  PROVE  /\ k \in Seq(Letter) /\ Len(k) \in Nat /\ Len(k) > 0
         /\ i + Len(k) <= Length
         /\ At(i) \in Letter
<1>1. k \in Seq(Letter) /\ Len(k) \in Nat /\ Len(k) > 0
  BY HighlightAssumption
<1>2. \A j \in 1 .. Len(k) : k[j] \in Letter /\ k[j] # "NUL" /\ At(i + j - 1) = k[j]
  BY <1>1, HighlightAssumption DEF Matches
<1>3. At(i + Len(k) - 1) # "NUL"
  BY <1>1, <1>2
<1>4. i + Len(k) - 1 \in Nat
  BY <1>1
<1>5. i + Len(k) - 1 < Length
  BY <1>3, <1>4, AtIs
<1>6. At(i) \in Letter
  <2>1. 1 \in 1 .. Len(k) /\ i + 1 - 1 = i
    BY <1>1
  <2> QED BY <1>2, <2>1
<1> QED BY <1>1, <1>4, <1>5, <1>6, LineIs

\* No two keywords match at the same place, as none begins another.
LEMMA OneWord ==
  ASSUME TypeOK, NEW k \in Keyword, NEW m \in Keyword, NEW i \in Nat,
         Matches(k, i), Matches(m, i), Len(k) <= Len(m)
  PROVE  k = m
<1>1. /\ k \in Seq(Letter) /\ Len(k) \in Nat /\ m \in Seq(Letter) /\ Len(m) \in Nat
  BY MatchInside
<1>2. \A j \in 1 .. Len(k) : m[j] = k[j]
  BY <1>1 DEF Matches
<1>3. SubSeq(m, 1, Len(k)) = k
  BY <1>1, <1>2
<1> QED BY <1>3, HighlightAssumption

\* Slashes, quotes and letters are different.
LEMMA Kinds ==
  /\ "/" \notin Letter /\ "/" \notin Quotes /\ Letter \cap Quotes = {}
  /\ "NUL" \notin Letter /\ "NUL" \notin Quotes
BY HighlightAssumption DEF Quotes

\* Outside an annotation there is one way to go on from a letter.
LEMMA OneWay ==
  ASSUME TypeOK, NEW i \in Nat, NEW x \in Nat, NEW y \in Nat, Goes(i, x), Goes(i, y)
  PROVE  x = y
<1>1. CASE \E k \in Keyword : Matches(k, i) /\ x = i + Len(k)
  <2>1. PICK k \in Keyword : Matches(k, i) /\ x = i + Len(k)
    BY <1>1
  <2>2. At(i) \in Letter
    BY <2>1, MatchInside
  <2>3. PICK m \in Keyword : Matches(m, i) /\ y = i + Len(m)
    BY <2>1, <2>2, Kinds DEF Goes
  <2>4. Len(k) \in Nat /\ Len(m) \in Nat
    BY HighlightAssumption
  <2>5. k = m
    BY <2>1, <2>3, <2>4, OneWord
  <2> QED BY <2>1, <2>3, <2>5
<1>2. CASE At(i) \in Letter /\ (\A k \in Keyword : ~Matches(k, i)) /\ x = i + 1
  <2>1. y = i + 1
    BY <1>2, Kinds DEF Goes
  <2> QED BY <1>2, <2>1
<1>3. CASE At(i) \in Quotes
  <2>1. \A k \in Keyword : ~Matches(k, i)
    BY <1>3, Kinds, MatchInside
  <2>2. ASSUME NEW z \in Nat, Goes(i, z)
        PROVE  \/ \E end \in DOMAIN line : IsClosing(i, end) /\ z = end + 1
               \/ Closing(i) = {} /\ z = 0
    BY <1>3, <2>1, <2>2, Kinds DEF Goes
  <2>3. ASSUME NEW a \in DOMAIN line, NEW b \in DOMAIN line, IsClosing(i, a), IsClosing(i, b)
        PROVE  a = b
    <3>1. a <= b /\ b <= a
      BY <2>3 DEF IsClosing
    <3>2. a \in Int /\ b \in Int
      BY LineIs
    <3> QED BY <3>1, <3>2
  <2>4. \A a \in DOMAIN line : IsClosing(i, a) => Closing(i) # {}
    BY DEF IsClosing
  <2> QED BY <2>2, <2>3, <2>4
<1> QED BY <1>1, <1>2, <1>3 DEF Goes

\* Printing the letters from mark on up to b, when those before it are printed.
LEMMA Emitted ==
  ASSUME TypeOK, NEW a \in Nat, NEW b \in Nat, a <= b, Emit(a, b)
  PROVE  /\ printed' \in [DOMAIN line -> 0 .. 2]
         /\ (\A i \in DOMAIN line : printed[i] = IF i < a THEN 1 ELSE 0)
               => \A i \in DOMAIN line : printed'[i] = IF i < b THEN 1 ELSE 0
<1>1. \A i \in DOMAIN line : i \in Nat
  BY LineIs
<1>2. \A i \in DOMAIN line : printed[i] \in 0 .. 2
  BY DEF TypeOK
<1>3. printed' = [i \in DOMAIN line |->
                    IF i \in a .. (b - 1) /\ printed[i] < 2 THEN printed[i] + 1 ELSE printed[i]]
  BY DEF Emit
<1>4. \A i \in DOMAIN line : printed'[i] \in 0 .. 2
  BY <1>2, <1>3
<1>5. ASSUME \A i \in DOMAIN line : printed[i] = IF i < a THEN 1 ELSE 0, NEW i \in DOMAIN line
      PROVE  printed'[i] = IF i < b THEN 1 ELSE 0
  BY <1>1, <1>3, <1>5
<1> QED BY <1>3, <1>4, <1>5

\* A round of the loop that prints the letters from mark on up to mark' and stays
\* inside the line.
LEMMA RoundPrints ==
  ASSUME PrintInv, InLoop, UNCHANGED <<line, wrong, pc>>, annotation' \in {0, 1},
         annotation' = 1 => ~wrong,
         NEW b \in Nat, mark <= b, b <= MaxLength + 1, Emit(mark, b), mark' = b
  PROVE  TypeOK' /\ EachLetterOnce' /\ PrintedSoFar'
<1>1. TypeOK /\ mark \in Nat /\ MaxLength \in Nat /\ pc = "loop"
  BY HighlightAssumption DEF PrintInv, TypeOK, InLoop
<1>2. /\ printed' \in [DOMAIN line -> 0 .. 2]
      /\ (\A i \in DOMAIN line : printed[i] = IF i < mark THEN 1 ELSE 0)
            => \A i \in DOMAIN line : printed'[i] = IF i < b THEN 1 ELSE 0
  BY <1>1, Emitted
<1>3. TypeOK'
  <2>1. mark' \in 0 .. (MaxLength + 1)
    BY <1>1
  <2> QED BY <1>1, <1>2, <2>1 DEF TypeOK
<1>4. EachLetterOnce'
  BY <1>1 DEF EachLetterOnce
<1>5. ~wrong => \A i \in DOMAIN line : printed[i] = IF i < mark THEN 1 ELSE 0
  BY <1>1 DEF PrintInv, PrintedSoFar
<1>6. PrintedSoFar'
  BY <1>1, <1>2, <1>5 DEF PrintedSoFar
<1> QED BY <1>3, <1>4, <1>6

\* A round that goes from the letter at mark to another place has seen that letter.
LEMMA RoundReplays ==
  ASSUME PrintInv, InLoop, annotation = 0, UNCHANGED <<line, annotation, pc>>,
         NEW to \in 0 .. (MaxLength + 1), Goes(mark, to), At(mark) # "/", mark' = to,
         wrong' => wrong \/ to = 0
  PROVE  Replays'
<1>1. /\ TypeOK /\ mark \in Nat /\ mark \in DOMAIN line /\ MaxLength \in Nat
      /\ pc = "loop" /\ wrong \in BOOLEAN
  BY AtIs, HighlightAssumption DEF PrintInv, TypeOK, InLoop
<1>2. PICK seen \in SUBSET DOMAIN line :
          /\ 0 \in seen \cup {mark}
          /\ \A i \in seen : At(i) # "/" /\ \A x \in 0 .. (MaxLength + 1) : Goes(i, x) => x \in seen \cup {mark}
          /\ wrong => mark \in seen
  BY <1>1 DEF PrintInv, Replays
<1> DEFINE now == seen \cup {mark}
<1>3. now \in SUBSET DOMAIN line /\ 0 \in now
  BY <1>1, <1>2
<1>4. \A i \in now : At(i) # "/" /\ \A x \in 0 .. (MaxLength + 1) : Goes(i, x) => x \in now \cup {to}
  <2>1. \A x \in 0 .. (MaxLength + 1) : Goes(mark, x) => x = to
    BY <1>1, OneWay
  <2> QED BY <1>2, <2>1
<1>5. wrong => to \in now
  BY <1>2
<1>6. wrong' => to \in now
  BY <1>3, <1>5
<1> HIDE DEF now
<1>7. \A i : (At(i)' # "/" <=> At(i) # "/") /\ \A x : Goes(i, x)' <=> Goes(i, x)
  BY DEF At, Length, Goes, Matches, Closing, IsClosing
<1>8. /\ now \in SUBSET DOMAIN line'
      /\ 0 \in now \cup {mark'}
      /\ \A i \in now : At(i)' # "/" /\ \A x \in 0 .. (MaxLength + 1) : Goes(i, x)' => x \in now \cup {mark'}
      /\ wrong' => mark' \in now
  BY <1>3, <1>4, <1>6, <1>7
<1> QED BY <1>8, Zenon DEF Replays

\* A keyword.
LEMMA WordInv ==
  ASSUME PrintInv, NEW k \in Keyword, Word(k)
  PROVE  PrintInv'
<1>1. /\ TypeOK /\ mark \in Nat /\ InLoop /\ annotation = 0 /\ Matches(k, mark)
      /\ Emit(mark, mark + Len(k)) /\ mark' = mark + Len(k)
      /\ UNCHANGED <<line, annotation, wrong, pc>>
  BY HighlightAssumption DEF PrintInv, TypeOK, Word
<1>2. Len(k) \in Nat /\ mark + Len(k) <= Length /\ At(mark) \in Letter
  BY <1>1, MatchInside
<1>3. mark + Len(k) \in Nat /\ mark <= mark + Len(k) /\ mark + Len(k) <= MaxLength + 1
  BY <1>1, <1>2, LineIs
<1>4. TypeOK' /\ EachLetterOnce' /\ PrintedSoFar'
  BY <1>1, <1>3, RoundPrints
<1>5. At(mark) # "/"
  BY <1>2, Kinds
<1>6. Goes(mark, mark + Len(k))
  BY <1>1 DEF Goes
<1>7. mark + Len(k) \in 0 .. (MaxLength + 1)
  BY <1>3, HighlightAssumption
<1>8. Replays'
  BY <1>1, <1>5, <1>6, <1>7, RoundReplays, Zenon
<1> QED BY <1>4, <1>8 DEF PrintInv

\* A letter, digit or bracket.
LEMMA PlainInv ==
  ASSUME PrintInv, Plain
  PROVE  PrintInv'
<1>1. /\ TypeOK /\ mark \in Nat /\ InLoop /\ annotation = 0 /\ At(mark) \in Letter
      /\ \A k \in Keyword : ~Matches(k, mark)
      /\ Emit(mark, mark + 1) /\ mark' = mark + 1
      /\ UNCHANGED <<line, annotation, wrong, pc>>
  BY HighlightAssumption DEF PrintInv, TypeOK, Plain
<1>2. mark < Length
  BY <1>1, AtIs DEF InLoop
<1>3. mark + 1 \in Nat /\ mark <= mark + 1 /\ mark + 1 <= MaxLength + 1
  BY <1>1, <1>2, LineIs
<1>4. TypeOK' /\ EachLetterOnce' /\ PrintedSoFar'
  BY <1>1, <1>3, RoundPrints
<1>5. At(mark) # "/"
  BY <1>1, Kinds
<1>6. Goes(mark, mark + 1)
  BY <1>1 DEF Goes
<1>7. mark + 1 \in 0 .. (MaxLength + 1)
  BY <1>3, HighlightAssumption
<1>8. Replays'
  BY <1>1, <1>5, <1>6, <1>7, RoundReplays, Zenon
<1> QED BY <1>4, <1>8 DEF PrintInv

\* A slash begins an annotation: the loop has not started over, and never will.
LEMMA SlashInv ==
  ASSUME PrintInv, Slash
  PROVE  PrintInv'
<1>1. /\ TypeOK /\ mark \in Nat /\ InLoop /\ annotation = 0 /\ At(mark) = "/"
      /\ Emit(mark, mark + 2) /\ mark' = mark + 2 /\ annotation' = 1
      /\ UNCHANGED <<line, wrong, pc>>
  BY HighlightAssumption DEF PrintInv, TypeOK, Slash
<1>2. mark < Length
  BY <1>1, AtIs DEF InLoop
<1>3. mark + 2 \in Nat /\ mark <= mark + 2 /\ mark + 2 <= MaxLength + 1
  BY <1>1, <1>2, LineIs
<1>4. ~wrong
  BY <1>1 DEF PrintInv, Replays, InLoop
<1>5. TypeOK' /\ EachLetterOnce' /\ PrintedSoFar'
  BY <1>1, <1>3, <1>4, RoundPrints
<1>6. Replays'
  BY <1>1 DEF Replays
<1> QED BY <1>5, <1>6 DEF PrintInv

\* A letter of an annotation.
LEMMA AnnotatedInv ==
  ASSUME PrintInv, Annotated
  PROVE  PrintInv'
<1>1. /\ TypeOK /\ mark \in Nat /\ InLoop /\ annotation = 1
      /\ Emit(mark, mark + 1) /\ mark' = mark + 1
      /\ UNCHANGED <<line, annotation, wrong, pc>>
  BY HighlightAssumption DEF PrintInv, TypeOK, Annotated
<1>2. mark < Length
  BY <1>1, AtIs DEF InLoop
<1>3. mark + 1 \in Nat /\ mark <= mark + 1 /\ mark + 1 <= MaxLength + 1
  BY <1>1, <1>2, LineIs
<1>4. ~wrong
  BY <1>1 DEF PrintInv, PrintedSoFar
<1>5. TypeOK' /\ EachLetterOnce' /\ PrintedSoFar'
  BY <1>1, <1>3, <1>4, RoundPrints
<1>6. Replays'
  BY <1>1 DEF Replays
<1> QED BY <1>5, <1>6 DEF PrintInv

\* A quote, with or without its end.
LEMMA QuotedInv ==
  ASSUME PrintInv, Quoted
  PROVE  PrintInv'
<1>1. /\ TypeOK /\ mark \in Nat /\ MaxLength \in Nat /\ InLoop /\ annotation = 0 /\ At(mark) \in Quotes
      /\ UNCHANGED <<line, annotation, pc>> /\ At(mark) # "/" /\ pc = "loop"
  BY Kinds, HighlightAssumption DEF PrintInv, TypeOK, Quoted, InLoop
<1>2. CASE \E end \in DOMAIN line : /\ IsClosing(mark, end)
                                    /\ Emit(mark, end + 1)
                                    /\ mark' = end + 1
                                    /\ UNCHANGED wrong
  <2>1. PICK end \in DOMAIN line : /\ IsClosing(mark, end)
                                   /\ Emit(mark, end + 1)
                                   /\ mark' = end + 1
                                   /\ UNCHANGED wrong
    BY <1>2
  <2>2. end \in Nat /\ end < Length
    BY <1>1, LineIs
  <2>3. mark < end
    BY <2>1 DEF IsClosing, Closing
  <2>4. end + 1 \in Nat /\ mark <= end + 1 /\ end + 1 <= MaxLength + 1
    BY <1>1, <2>2, <2>3, LineIs
  <2>5. TypeOK' /\ EachLetterOnce' /\ PrintedSoFar'
    BY <1>1, <2>1, <2>4, RoundPrints
  <2>6. Goes(mark, end + 1)
    BY <1>1, <2>1 DEF Goes
  <2>7. end + 1 \in 0 .. (MaxLength + 1)
    BY <1>1, <2>4
  <2>8. Replays'
    BY <1>1, <2>1, <2>6, <2>7, RoundReplays, Zenon
  <2> QED BY <2>5, <2>8 DEF PrintInv
<1>3. CASE Closing(mark) = {} /\ mark' = 0 /\ wrong' = TRUE /\ UNCHANGED printed
  <2>1. TypeOK'
    BY <1>1, <1>3 DEF TypeOK
  <2>2. EachLetterOnce' /\ PrintedSoFar'
    BY <1>1, <1>3 DEF EachLetterOnce, PrintedSoFar
  <2>3. Goes(mark, 0)
    BY <1>1, <1>3 DEF Goes
  <2>4. 0 \in 0 .. (MaxLength + 1)
    BY <1>1
  <2>5. Replays'
    BY <1>1, <1>3, <2>3, <2>4, RoundReplays
  <2> QED BY <2>1, <2>2, <2>5 DEF PrintInv
<1> QED BY <1>2, <1>3, Zenon DEF Quoted

\* The line is a comment, or the loop begins with nothing printed.
LEMMA StartInv ==
  ASSUME PrintInv, Start
  PROVE  PrintInv'
<1>1. /\ TypeOK /\ pc = "start" /\ mark = 0 /\ annotation = 0 /\ ~wrong
      /\ \A i \in DOMAIN line : printed[i] = IF i < mark THEN 1 ELSE 0
      /\ UNCHANGED <<line, mark, annotation, wrong>>
  BY DEF PrintInv, PrintedSoFar, Start
<1>2. CASE Emit(0, Length) /\ pc' = "done"
  <2>1. Length \in Nat
    BY <1>1, LineIs
  <2>2. /\ printed' \in [DOMAIN line -> 0 .. 2]
        /\ \A i \in DOMAIN line : printed'[i] = IF i < Length THEN 1 ELSE 0
    BY <1>1, <1>2, <2>1, Emitted
  <2>3. \A i \in DOMAIN line : i < Length
    BY <1>1, LineIs
  <2>4. TypeOK'
    BY <1>1, <1>2, <2>2 DEF TypeOK
  <2> QED BY <1>1, <1>2, <2>2, <2>3, <2>4 DEF PrintInv, EachLetterOnce, PrintedSoFar, Replays
<1>3. CASE pc' = "loop" /\ UNCHANGED printed
  <2>1. TypeOK'
    BY <1>1, <1>3 DEF TypeOK
  <2>2. EachLetterOnce' /\ PrintedSoFar'
    BY <1>1, <1>3 DEF EachLetterOnce, PrintedSoFar
  <2>3. /\ {} \in SUBSET DOMAIN line' /\ 0 \in {} \cup {mark'} /\ ~wrong'
    BY <1>1
  <2>4. Replays'
    BY <2>3, Zenon DEF Replays
  <2> QED BY <2>1, <2>2, <2>4 DEF PrintInv
<1> QED BY <1>2, <1>3 DEF Start

\* The loop ends at the end of the line, and not when it has started over.
LEMMA FinishInv ==
  ASSUME PrintInv, Finish
  PROVE  PrintInv'
<1>1. /\ TypeOK /\ mark \in Nat /\ pc = "loop" /\ pc' = "done" /\ At(mark) = "NUL"
      /\ UNCHANGED <<line, mark, annotation, printed, wrong>>
  BY DEF PrintInv, TypeOK, Finish
<1>2. ~(mark < Length) /\ mark \notin DOMAIN line
  BY <1>1, AtIs
<1>3. ~wrong
  BY <1>1, <1>2 DEF PrintInv, TypeOK, PrintedSoFar, Replays
<1>4. \A i \in DOMAIN line : i < mark
  BY <1>1, <1>2, LineIs
<1>5. \A i \in DOMAIN line : printed[i] = 1
  BY <1>1, <1>3, <1>4 DEF PrintInv, PrintedSoFar
<1>6. TypeOK'
  BY <1>1 DEF TypeOK
<1> QED BY <1>1, <1>3, <1>5, <1>6 DEF PrintInv, EachLetterOnce, PrintedSoFar, Replays

\* Whatever is on the line, the highlighter prints each letter exactly once when
\* its loop ends (editor.c:679); a quote that is not closed makes it start over,
\* and then it never ends, as it meets the same quote again.
THEOREM LettersPrintedOnce == Spec => []PrintInv
<1>1. Init => PrintInv
  <2> SUFFICES ASSUME Init
               PROVE  PrintInv
    OBVIOUS
  <2>1. TypeOK
    <3>1. 0 \in 0 .. (MaxLength + 1) /\ 0 \in 0 .. 2
      BY HighlightAssumption
    <3>2. printed \in [DOMAIN line -> 0 .. 2]
      BY <3>1 DEF Init
    <3> QED BY <3>1, <3>2, Zenon DEF Init, TypeOK
  <2>2. \A i \in DOMAIN line : i \in Nat
    BY <2>1, LineIs
  <2>3. \A i \in DOMAIN line : printed[i] = IF i < mark THEN 1 ELSE 0
    BY <2>2 DEF Init
  <2> QED BY <2>1, <2>3 DEF Init, PrintInv, EachLetterOnce, PrintedSoFar, Replays
<1>2. PrintInv /\ [Next]_vars => PrintInv'
  <2> SUFFICES ASSUME PrintInv, [Next]_vars
               PROVE  PrintInv'
    OBVIOUS
  <2>1. CASE UNCHANGED vars
    BY <2>1 DEF vars, PrintInv, TypeOK, EachLetterOnce, PrintedSoFar, Replays, Goes, Matches, At, Length,
                Closing, IsClosing
  <2> QED BY <2>1, StartInv, AnnotatedInv, SlashInv, QuotedInv, PlainInv, FinishInv, WordInv DEF Next
<1> QED BY <1>1, <1>2, PTL DEF Spec

=============================================================================
