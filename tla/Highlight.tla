------------------------------ MODULE Highlight ------------------------------
(* The syntax highlighter (show_text_syntax_highlighting in editor.c) on one   *)
(* line: the loop over mark, with a branch for annotations, keywords, slashes, *)
(* quoted strings and everything else.  Colours are left out; what matters is  *)
(* which letters are printed, as what, and whether the loop ends.  Letters are *)
(* numbered from 0; past the end of a line there are zero bytes.               *)
EXTENDS Naturals, Sequences, FiniteSets

CONSTANTS
    Letter,      \* letters that are not slashes, quotes or zero
    Blank,       \* the blank, one of them
    Keyword,     \* words that the chain of tests knows; the test for "else if"
                 \* comes after the one for "else" and never succeeds
    MaxLength    \* longest line

ASSUME HighlightAssumption ==
    /\ Blank \in Letter /\ Letter \cap {"/", "dquote", "squote", "NUL"} = {}
    /\ Keyword \subseteq Seq(Letter) /\ \A k \in Keyword : Len(k) > 0
    /\ \A k, m \in Keyword : k # m /\ Len(k) <= Len(m) => SubSeq(m, 1, Len(k)) # k
    /\ MaxLength \in Nat

VARIABLES
    line,        \* text[j]
    mark,        \* the letter to print next
    annotation,  \* flag_annotation
    printed,     \* how often each letter was printed: 0, 1, or 2 for more
    wrong,       \* history: mark went back to 0
    pc           \* "start", "loop" or "done"

vars == <<line, mark, annotation, printed, wrong, pc>>

Quotes == {"dquote", "squote"}
Char == Letter \cup Quotes \cup {"/"}
Lines == UNION {[0 .. (n - 1) -> Char] : n \in 0 .. MaxLength}

Length == Cardinality(DOMAIN line)
At(i) == IF i < Length THEN line[i] ELSE "NUL"

Init ==
    /\ line \in Lines
    /\ mark = 0
    /\ annotation = 0
    /\ printed = [i \in DOMAIN line |-> 0]
    /\ wrong = FALSE
    /\ pc = "start"

\* The letters from i up to, not including, j are printed.
Emit(i, j) ==
    printed' = [k \in DOMAIN line |->
                    IF k \in i .. (j - 1) /\ printed[k] < 2 THEN printed[k] + 1 ELSE printed[k]]

\* The first letter that is not a blank (pos).
First == CHOOSE i \in 0 .. Length : At(i) # Blank /\ \A k \in 0 .. (i - 1) : At(k) = Blank

IsComment == At(First) = "/" /\ At(First + 1) = "/"

\* A line that is a comment is printed at once, the others by the loop.
Start ==
    /\ pc = "start"
    /\ IF IsComment
       THEN Emit(0, Length) /\ pc' = "done"
       ELSE pc' = "loop" /\ UNCHANGED printed
    /\ UNCHANGED <<line, mark, annotation, wrong>>

InLoop == pc = "loop" /\ At(mark) # "NUL"

Annotated ==
    /\ InLoop /\ annotation = 1
    /\ Emit(mark, mark + 1)
    /\ mark' = mark + 1
    /\ UNCHANGED <<line, annotation, wrong, pc>>

\* The word k is at letter i of the line.
Matches(k, i) == \A j \in 1 .. Len(k) : At(i + j - 1) = k[j]

\* Broken: a keyword advances mark by one letter less than it prints.
WordShort(k) ==
    /\ InLoop /\ annotation = 0 /\ Matches(k, mark)
    /\ Emit(mark, mark + Len(k))
    /\ mark' = mark + Len(k) - 1
    /\ UNCHANGED <<line, annotation, wrong, pc>>

\* printf, int, float, ..., return: all the letters of the word.
Word(k) ==
    /\ InLoop /\ annotation = 0 /\ Matches(k, mark)
    /\ Emit(mark, mark + Len(k))
    /\ mark' = mark + Len(k)
    /\ UNCHANGED <<line, annotation, wrong, pc>>

\* One slash (the second test repeats the first): two letters, and what follows
\* is an annotation.
Slash ==
    /\ InLoop /\ annotation = 0 /\ At(mark) = "/"
    /\ Emit(mark, mark + 2)
    /\ mark' = mark + 2
    /\ annotation' = 1
    /\ UNCHANGED <<line, wrong, pc>>

\* The quotes after letter i that are the same as it, and the first of them.
Closing(i) == {j \in DOMAIN line : j > i /\ line[j] = At(i)}
IsClosing(i, end) == end \in Closing(i) /\ \A j \in Closing(i) : end <= j

\* Broken: without its end, a quote is not passed and nothing is printed.
QuotedStays ==
    /\ InLoop /\ annotation = 0 /\ At(mark) \in Quotes
    /\ \E end \in DOMAIN line :
          /\ IsClosing(mark, end)
          /\ Emit(mark, end + 1)
          /\ mark' = end + 1
    /\ UNCHANGED <<line, annotation, wrong, pc>>

\* Broken: an annotation goes on past the end of the line.
FinishLate ==
    /\ pc = "loop" /\ At(mark) = "NUL"
    /\ IF annotation = 1
       THEN mark' = mark + 1 /\ UNCHANGED pc
       ELSE pc' = "done" /\ UNCHANGED mark
    /\ UNCHANGED <<line, annotation, printed, wrong>>

\* A quoted string, printed to its end; without one, end is -1 and mark
\* becomes 0.
Quoted ==
    /\ InLoop /\ annotation = 0 /\ At(mark) \in Quotes
    /\ \/ \E end \in DOMAIN line :
             /\ IsClosing(mark, end)
             /\ Emit(mark, end + 1)
             /\ mark' = end + 1
             /\ UNCHANGED wrong
       \/ /\ Closing(mark) = {}
          /\ mark' = 0
          /\ wrong' = TRUE
          /\ UNCHANGED printed
    /\ UNCHANGED <<line, annotation, pc>>

\* Digits, brackets and everything else: one letter.
Plain ==
    /\ InLoop /\ annotation = 0 /\ At(mark) \in Letter
    /\ \A k \in Keyword : ~Matches(k, mark)
    /\ Emit(mark, mark + 1)
    /\ mark' = mark + 1
    /\ UNCHANGED <<line, annotation, wrong, pc>>

\* The end of the line.
Finish ==
    /\ pc = "loop" /\ At(mark) = "NUL"
    /\ pc' = "done"
    /\ UNCHANGED <<line, mark, annotation, printed, wrong>>

Next ==
    \/ Start \/ Annotated \/ Slash \/ Quoted \/ Plain \/ Finish
    \/ \E k \in Keyword : Word(k)

Spec == Init /\ [][Next]_vars /\ WF_vars(Next)

-----------------------------------------------------------------------------
\* Types; mark never leaves the line by more than the zero byte a slash skips.
TypeOK ==
    /\ line \in Lines
    /\ mark \in 0 .. (MaxLength + 1)
    /\ annotation \in {0, 1}
    /\ printed \in [DOMAIN line -> 0 .. 2]
    /\ wrong \in BOOLEAN
    /\ pc \in {"start", "loop", "done"}

\* "print all the statements by the way of one letter by one letter": when the
\* loop ends every letter of the line has been printed exactly once.
EachLetterOnce == pc = "done" => \A i \in DOMAIN line : printed[i] = 1

\* Until a quote is found that is not closed, the letters before mark, and no
\* others, have been printed.
PrintedSoFar ==
    /\ pc = "start" => mark = 0 /\ annotation = 0 /\ ~wrong
    /\ pc # "done" /\ ~wrong => \A i \in DOMAIN line : printed[i] = IF i < mark THEN 1 ELSE 0
    /\ annotation = 1 => ~wrong

\* Where the loop goes from letter i, outside an annotation.
Goes(i, to) ==
    \/ \E k \in Keyword : Matches(k, i) /\ to = i + Len(k)
    \/ At(i) \in Letter /\ (\A k \in Keyword : ~Matches(k, i)) /\ to = i + 1
    \/ At(i) \in Quotes /\ \/ \E end \in DOMAIN line : IsClosing(i, end) /\ to = end + 1
                           \/ Closing(i) = {} /\ to = 0

\* Outside an annotation there is a set of letters, with the first, from each of
\* which but the one at mark the loop goes on inside the set; when it has started
\* over, it has also left the one at mark before.
Replays ==
    pc = "loop" /\ annotation = 0 =>
        \E seen \in SUBSET DOMAIN line :
            /\ 0 \in seen \cup {mark}
            /\ \A i \in seen : At(i) # "/" /\ \A to \in 0 .. (MaxLength + 1) : Goes(i, to) => to \in seen \cup {mark}
            /\ wrong => mark \in seen

\* mark stays on the line, and each letter is printed once: an unmatched quote
\* makes the loop start over, and then it does not end.
PrintInv == TypeOK /\ EachLetterOnce /\ PrintedSoFar /\ Replays

\* The loop ends, or it meets a quote that is not closed; and then it never
\* ends: every round starts over and meets the same quote.
EndsOrRepeats == <>(pc = "done") \/ <>[](wrong /\ pc # "done")

\* The display of a line ends (what the editor's prompt loop relies on).
DisplayEnds == <>(pc = "done")

=============================================================================
