---------------------------- MODULE EditorProofs ----------------------------
(* Proofs about the editor: the invariant of its tables and of the file, for   *)
(* every size of the tables and every file to start with.                      *)
EXTENDS EditorUndo, SequenceTheorems, TLAPS

Text == [Slots -> Line \cup {NULL}]
Record == [op : {"ins", "mod"}, line : 1 .. (MAX_LINE_NUMBER + 1), content : Line]

\* t has the lines 0 to k, as line_number counts them, and no others.
LastIs(t, k) == k \in 0 .. (MAX_LINE_NUMBER - 1) /\ \A i \in Slots : (t[i] # NULL) <=> (i <= k + 1)

\* Files as any program may leave them.
AnyFile == {f \in Seq(Line \cup HugeLine) : Len(f) > 0} \cup {NoFile}

EditorInv == TextInv /\ UnchangedIsSaved /\ SaveLeavesPrefix

-----------------------------------------------------------------------------
(* Lemmas on the helpers of editor.c. *)

\* get_line_number() finds the last line of a text without gaps.
LEMMA LastLine ==
  ASSUME NEW t \in Text, NEW k, LastIs(t, k)
  PROVE  get_line_number(t) = k /\ Count(t) = k + 1
<1>1. CASE k = MAX_LINE_NUMBER - 1
  BY <1>1, EditorAssumption DEF LastIs, get_line_number, Count, Slots
<1>2. CASE k < MAX_LINE_NUMBER - 1
  <2>1. /\ k + 2 \in Slots /\ t[k + 2] = NULL
        /\ \A j \in 1 .. (k + 1) : j \in Slots /\ t[j] # NULL
    BY <1>2, EditorAssumption DEF LastIs, Slots
  <2>2. \A i \in Slots : t[i] = NULL /\ (\A j \in 1 .. (i - 1) : t[j] # NULL) => i = k + 2
    BY <2>1, <1>2, EditorAssumption DEF LastIs, Slots
  <2>3. (CHOOSE i \in Slots : t[i] = NULL /\ \A j \in 1 .. (i - 1) : t[j] # NULL) = k + 2
    BY <2>1, <2>2, <1>2, EditorAssumption DEF LastIs
  <2>4. get_line_number(t) = (k + 2) - 2
    BY <2>1, <2>3, Zenon DEF get_line_number
  <2> QED BY <2>4, <1>2, EditorAssumption DEF LastIs, Count
<1> QED BY <1>1, <1>2, EditorAssumption DEF LastIs

\* A new record fits the table of records.
LEMMA RecordFits ==
  ASSUME TypeOK, NEW c \in Record
  PROVE  record_command(c) \in Seq(Record) /\ Len(record_command(c)) <= MAX_ROLLBAKC_STEP
<1>1. cmds \in Seq(Record) /\ Len(cmds) \in Nat /\ Len(cmds) <= MAX_ROLLBAKC_STEP
  BY DEF TypeOK, Record
<1>2. CASE Len(cmds) < MAX_ROLLBAKC_STEP
  BY <1>1, <1>2, EditorAssumption DEF record_command
<1>3. CASE Len(cmds) >= MAX_ROLLBAKC_STEP
  <2>1. cmds # <<>>
    BY <1>1, <1>3, EditorAssumption
  <2>2. Tail(cmds) \in Seq(Record) /\ Len(Tail(cmds)) = Len(cmds) - 1
    BY <1>1, <2>1
  <2> QED BY <1>1, <1>3, <2>2, EditorAssumption DEF record_command
<1> QED BY <1>1, <1>2, <1>3, EditorAssumption

\* Moving lines down leaves no gap before line n.
LEMMA ShiftedDown ==
  ASSUME NEW t \in Text, NEW k, LastIs(t, k), NEW n \in 1 .. (k + 2), n \in Slots, NEW x \in Line
  PROVE  LET u == [ShiftDown(t, n) EXCEPT ![n] = x]
         IN  u \in Text /\ LastIs(u, IF k + 1 = MAX_LINE_NUMBER THEN k ELSE k + 1)
<1> DEFINE u == [ShiftDown(t, n) EXCEPT ![n] = x]
<1>1. ShiftDown(t, n) \in Text
  BY EditorAssumption DEF ShiftDown, Text, Slots, LastIs
<1>2. u \in Text
  BY <1>1, Zenon DEF Text
<1>3. \A i \in Slots : u[i] = IF i = n THEN x ELSE IF i > n /\ t[i - 1] # NULL THEN t[i - 1] ELSE t[i]
  BY <1>1, Zenon DEF ShiftDown, Text
<1>4. \A i \in Slots : i > n => i - 1 \in Slots
  BY EditorAssumption DEF Slots
<1>5. LastIs(u, IF k + 1 = MAX_LINE_NUMBER THEN k ELSE k + 1)
  BY <1>3, <1>4, EditorAssumption DEF LastIs, Slots
<1> QED BY <1>2, <1>5, Zenon

\* Moving lines up leaves no gap, and always a line.
LEMMA ShiftedUp ==
  ASSUME NEW t \in Text, NEW k, LastIs(t, k), NEW n \in 1 .. (k + 1)
  PROVE  ShiftUp(t, n) \in Text /\ LastIs(ShiftUp(t, n), IF k = 0 THEN 0 ELSE k - 1)
<1>1. Count(t) = k + 1
  BY LastLine, Zenon
<1>2. \A i \in Slots : ShiftUp(t, n)[i] =
          CASE i < n -> t[i] [] i >= n /\ i < k + 1 -> t[i + 1]
            [] i = k + 1 -> (IF i = 1 THEN Empty ELSE NULL) [] OTHER -> NULL
  BY <1>1, Zenon DEF ShiftUp
<1>3. \A i \in Slots : i < k + 1 => i + 1 \in Slots
  BY EditorAssumption DEF Slots, LastIs
<1>4. ShiftUp(t, n) \in Text
  BY <1>2, <1>3, EditorAssumption DEF ShiftUp, Text, Slots, LastIs
<1>5. \A i \in Slots : (ShiftUp(t, n)[i] # NULL) <=> (i <= (IF k = 0 THEN 0 ELSE k - 1) + 1)
  <2> SUFFICES ASSUME NEW i \in Slots
               PROVE  (ShiftUp(t, n)[i] # NULL) <=> (i <= (IF k = 0 THEN 0 ELSE k - 1) + 1)
    BY Zenon
  <2>1. CASE i < n
    <3>1. i \in Nat /\ n \in Nat /\ k \in Nat /\ n <= k + 1
      BY EditorAssumption DEF LastIs, Slots
    <3>2. ShiftUp(t, n)[i] = t[i]
      BY <2>1, <3>1, <1>2
    <3> QED BY <2>1, <3>1, <3>2 DEF LastIs, Slots
  <2>2. CASE i >= n /\ i < k + 1
    <3>1. i \in Nat /\ k \in Nat /\ n \in Nat \ {0} /\ ~(i < n) /\ i + 1 \in Slots /\ i + 1 <= k + 1
      BY <2>2, <1>3, EditorAssumption DEF LastIs, Slots
    <3>2. ShiftUp(t, n)[i] = t[i + 1]
      BY <2>2, <3>1, <1>2
    <3>3. t[i + 1] # NULL
      BY <3>1, Zenon DEF LastIs
    <3> QED BY <2>2, <3>1, <3>2, <3>3
  <2>3. CASE i = k + 1
    BY <2>3, <1>2, EditorAssumption DEF LastIs, Slots
  <2>4. CASE i > k + 1
    <3>1. i \in Nat /\ k \in Nat /\ ~(i < n) /\ ~(i < k + 1) /\ i # k + 1
      BY <2>4, EditorAssumption DEF LastIs, Slots
    <3>2. ShiftUp(t, n)[i] = NULL
      BY <3>1, <1>2
    <3> QED BY <2>4, <3>1, <3>2
  <2> QED BY <2>1, <2>2, <2>3, <2>4 DEF LastIs, Slots
<1> QED BY <1>4, <1>5, EditorAssumption DEF LastIs

\* A new file.
LEMMA NewFile ==
  <<Empty>> \in Seq(FileLine) /\ Len(<<Empty>>) = 1 /\ <<Empty>>[1] = Empty /\ <<Empty>> # NoFile
<1>1. Empty \in FileLine /\ NoFile \notin Seq(FileLine)
  BY EditorAssumption, Zenon DEF FileLine
<1>2. <<Empty>> \in Seq(FileLine)
  BY <1>1
<1> QED BY <1>1, <1>2, Zenon

\* What loading makes of a file has no gap.
LEMMA Loaded ==
  ASSUME NEW f \in Seq(FileLine), Len(f) > 0,
         \A i \in Slots : i <= Len(f) => f[i] \in Line \cup HugeLine
  PROVE  /\ Load(f) \in Text
         /\ LastIs(Load(f), IF Len(f) > MAX_LINE_NUMBER THEN MAX_LINE_NUMBER - 1 ELSE Len(f) - 1)
<1>1. \A i \in Slots : i <= Len(f) => Load(f)[i] \in Line
  <2> SUFFICES ASSUME NEW i \in Slots, i <= Len(f)
               PROVE  Load(f)[i] \in Line
    BY Zenon
  <2>1. Load(f)[i] = IF f[i] \in HugeLine THEN Kept[f[i]] ELSE f[i]
    BY DEF Load, Slots
  <2> QED BY <2>1, EditorAssumption, Zenon
<1>2. \A i \in Slots : i > Len(f) => Load(f)[i] = NULL
  BY Zenon DEF Load
<1>3. Load(f) \in Text
  BY <1>1, <1>2 DEF Load, Text, Slots
<1>4. LastIs(Load(f), IF Len(f) > MAX_LINE_NUMBER THEN MAX_LINE_NUMBER - 1 ELSE Len(f) - 1)
  BY <1>1, <1>2, EditorAssumption DEF LastIs, Slots
<1> QED BY <1>3, <1>4, Zenon

-----------------------------------------------------------------------------
(* The invariant, action by action. *)

\* What an editor that answers knows of its text.
LEMMA Answers ==
  ASSUME EditorInv, mode \notin Over \cup {"hung"}
  PROVE  text \in Text /\ LastIs(text, line_number) /\ Count(text) = line_number + 1
<1>1. text \in Text /\ LastIs(text, line_number)
  BY Zenon DEF EditorInv, TextInv, TypeOK, LinesContiguous, Running, LastIs, Text
<1> QED BY <1>1, LastLine, Zenon

\* The end of the process keeps the invariant, whatever the file is then.
LEMMA GoneInv ==
  ASSUME EditorInv, NEW m \in Over, Gone(m), UNCHANGED <<file, goal>>
  PROVE  EditorInv'
<1>1. TypeOK'
  <2>1. Fresh \in Beyond /\ Blank \in [Slots -> Line \cup {NULL}]
    BY Zenon DEF Fresh, Beyond, Blank
  <2> QED BY <2>1, EditorAssumption DEF EditorInv, TextInv, TypeOK, Gone, Modes
<1>2. LinesContiguous' /\ UnchangedIsSaved' /\ StaysFull'
  BY Zenon DEF Gone, LinesContiguous, StaysFull, Running, UnchangedIsSaved, Over
<1>3. FileSound'
  BY Zenon DEF EditorInv, TextInv, FileSound, Saving, Gone, Over
<1>4. SaveLeavesPrefix'
  BY Zenon DEF EditorInv, SaveLeavesPrefix, Saving, Running, Gone, Over
<1> QED BY <1>1, <1>2, <1>3, <1>4, Zenon DEF EditorInv, TextInv

\* A command that sets changed keeps the invariant if it leaves a text without
\* gaps and, unless the display hangs, counts its lines.
LEMMA EditedInv ==
  ASSUME EditorInv, mode = "prompt", mode' \in {"prompt", "hung"}, changed' = 1,
         UNCHANGED <<file, savei, auto_show, goal>>,
         text' \in Text, line_number' \in 0 .. (MAX_LINE_NUMBER - 1),
         cmds' \in Seq(Record), Len(cmds') <= MAX_ROLLBAKC_STEP, beyond' \in Beyond,
         mode' = "prompt" => LastIs(text', line_number'),
         mode' = "prompt" /\ beyond'.words # 1 => line_number' = MAX_LINE_NUMBER - 1
  PROVE  EditorInv'
<1>1. TypeOK'
  BY Zenon DEF EditorInv, TextInv, TypeOK, Modes, Text, Record
<1>2. LinesContiguous' /\ UnchangedIsSaved'
  BY DEF LinesContiguous, Running, UnchangedIsSaved, Over, LastIs
<1>3. FileSound'
  BY Zenon DEF EditorInv, TextInv, FileSound, Saving
<1>4. SaveLeavesPrefix'
  BY Zenon DEF EditorInv, SaveLeavesPrefix, Saving, Running, Over
<1>5. StaysFull'
  <2>1. mode' = "prompt" => Count(text') = line_number' + 1
    BY LastLine, Zenon
  <2>2. line_number' = MAX_LINE_NUMBER - 1 => line_number' + 1 = MAX_LINE_NUMBER
    BY EditorAssumption
  <2> QED BY <2>1, <2>2, Zenon DEF StaysFull, Running, Full
<1> QED BY <1>1, <1>2, <1>3, <1>4, <1>5, Zenon DEF EditorInv, TextInv

\* A command that changes neither the text nor the file keeps the invariant.
LEMMA ViewedInv ==
  ASSUME EditorInv, mode = "prompt", mode' \in {"prompt", "hung", "leaving"}, auto_show' \in {0, 1},
         UNCHANGED <<file, savei, text, line_number, changed, beyond, goal>>,
         cmds' \in Seq(Record), Len(cmds') <= MAX_ROLLBAKC_STEP
  PROVE  EditorInv'
<1>1. TypeOK'
  BY Zenon DEF EditorInv, TextInv, TypeOK, Modes, Record
<1>2. LinesContiguous' /\ UnchangedIsSaved' /\ StaysFull'
  BY Zenon DEF EditorInv, TextInv, LinesContiguous, StaysFull, Full, Running, UnchangedIsSaved, Over
<1>3. FileSound'
  BY Zenon DEF EditorInv, TextInv, FileSound, Saving
<1>4. SaveLeavesPrefix'
  BY Zenon DEF EditorInv, SaveLeavesPrefix, Saving, Running, Over
<1> QED BY <1>1, <1>2, <1>3, <1>4, Zenon DEF EditorInv, TextInv

\* More than one word past the table means that it is full.
LEMMA WordsFull ==
  ASSUME EditorInv, mode = "prompt"
  PROVE  beyond.words # 1 => line_number = MAX_LINE_NUMBER - 1
<1>1. LastIs(text, line_number) /\ Count(text) = line_number + 1
  BY Answers, Zenon DEF Over
<1>2. beyond.words # 1 => Count(text) = MAX_LINE_NUMBER
  BY Zenon DEF EditorInv, TextInv, StaysFull, Running, Over, Full
<1> QED BY <1>1, <1>2, EditorAssumption DEF LastIs

\* com_ins() keeps the invariant.
LEMMA InsInv ==
  ASSUME EditorInv, mode = "prompt", NEW n \in Nat, NEW x \in Line,
         com_ins(n, x), UNCHANGED <<disk, auto_show>>
  PROVE  EditorInv'
<1>1. text \in Text /\ LastIs(text, line_number) /\ Count(text) = line_number + 1
  BY Answers, Zenon DEF Over
<1>2. /\ cmds \in Seq(Record) /\ Len(cmds) <= MAX_ROLLBAKC_STEP /\ auto_show \in {0, 1} /\ TypeOK
      /\ beyond \in Beyond
  BY Zenon DEF EditorInv, TextInv, TypeOK, Record
<1>0. beyond.words # 1 => line_number = MAX_LINE_NUMBER - 1
  BY WordsFull, Zenon
<1>3. CASE n <= 0 \/ n > Count(text) + 1
  BY <1>2, <1>3, ViewedInv, Zenon DEF com_ins, Idle, disk
<1>4. CASE n \in 1 .. (Count(text) + 1)
  <2> DEFINE c == [op |-> "ins", line |-> n, content |-> Empty]
  <2>1. c \in Record
    BY <1>1, <1>4, EditorAssumption DEF Record, LastIs
  <2>2. record_command(c) \in Seq(Record) /\ Len(record_command(c)) <= MAX_ROLLBAKC_STEP
    BY <2>1, <1>2, RecordFits, Zenon
  <2>3. CASE n > MAX_LINE_NUMBER
    <3>1. /\ changed' = 1 /\ cmds' = record_command(c) /\ mode' \in {"prompt", "hung"}
          /\ beyond' = [beyond EXCEPT !.quote = @ \/ x \in HangLine]
          /\ UNCHANGED <<text, line_number, file, savei, auto_show, goal>>
      BY <1>1, <1>4, <2>3, EditorAssumption DEF com_ins, disk, Shown, Display, LastIs
    <3>2. beyond' \in Beyond /\ beyond'.words = beyond.words
      BY <3>1, <1>2, Zenon DEF Beyond
    <3> QED BY <3>1, <3>2, <1>0, <1>1, <2>2, EditedInv, Zenon DEF LastIs
  <2>4. CASE n <= MAX_LINE_NUMBER
    <3>1. /\ changed' = 1 /\ cmds' \in {cmds, record_command(c)} /\ mode' \in {"prompt", "hung"}
          /\ text' = IF FillsLast(n) THEN [text EXCEPT ![n - 1] = x, ![n] = Empty]
                     ELSE [ShiftDown(text, n) EXCEPT ![n] = x]
          /\ line_number' = IF mode' = "hung" THEN line_number ELSE get_line_number(text')
          /\ UNCHANGED <<file, savei, auto_show, beyond, goal>>
      BY <1>1, <1>4, <2>4, EditorAssumption DEF com_ins, disk, Shown, Display, Renumber, LastIs
    <3>2. PICK k : text' \in Text /\ LastIs(text', k) /\ (line_number = MAX_LINE_NUMBER - 1 => k = line_number)
      <4>1. CASE FillsLast(n)
        <5>1. n - 1 = line_number + 1 /\ n \in Slots /\ n - 1 \in Slots
          BY <4>1, <1>1, <1>4, EditorAssumption DEF FillsLast, LastIs, Slots
        <5>2. text' \in Text
          BY <3>1, <4>1, <1>1, <5>1, EditorAssumption, Zenon DEF Text
        <5>3. \A i \in Slots : text'[i] = IF i = n THEN Empty ELSE IF i = n - 1 THEN x ELSE text[i]
          BY <3>1, <4>1, <1>1, <5>1, Zenon DEF Text
        <5>4. LastIs(text', line_number + 1) /\ line_number # MAX_LINE_NUMBER - 1
          BY <5>1, <5>3, <1>1, EditorAssumption DEF LastIs, Slots
        <5> QED BY <5>2, <5>4, Zenon
      <4>2. CASE ~FillsLast(n)
        <5>1. n \in 1 .. (line_number + 2) /\ n \in Slots
          BY <1>1, <1>4, <2>4 DEF LastIs, Slots
        <5>2. line_number = MAX_LINE_NUMBER - 1 => line_number + 1 = MAX_LINE_NUMBER
          BY EditorAssumption
        <5> QED BY <3>1, <4>2, <5>1, <5>2, <1>1, ShiftedDown, Zenon
      <4> QED BY <4>1, <4>2, Zenon
    <3>3. get_line_number(text') = k /\ k \in 0 .. (MAX_LINE_NUMBER - 1)
      BY <3>2, LastLine, Zenon DEF LastIs
    <3>4. /\ line_number' \in 0 .. (MAX_LINE_NUMBER - 1) /\ (mode' = "prompt" => LastIs(text', line_number'))
          /\ beyond'.words # 1 => line_number' = MAX_LINE_NUMBER - 1
      BY <3>1, <3>2, <3>3, <1>0, <1>1, Zenon DEF LastIs
    <3> QED BY <3>1, <3>2, <3>4, <1>2, <2>2, EditedInv, Zenon
  <2> QED BY <2>3, <2>4, EditorAssumption
<1> QED BY <1>1, <1>3, <1>4 DEF LastIs

\* com_mod() keeps the invariant, for a command and for an undo.
LEMMA ModInv ==
  ASSUME EditorInv, mode = "prompt", NEW n \in Nat, NEW x \in Line, NEW flag \in BOOLEAN,
         NEW r \in Seq(Record), Len(r) <= MAX_ROLLBAKC_STEP, com_mod(n, x, flag, r),
         UNCHANGED <<disk, auto_show, beyond>>,
         line_number' \in {line_number, IF mode' = "hung" THEN line_number ELSE get_line_number(text')}
  PROVE  EditorInv'
<1>1. text \in Text /\ LastIs(text, line_number) /\ Count(text) = line_number + 1
  BY Answers, Zenon DEF Over
<1>2. auto_show \in {0, 1} /\ TypeOK /\ beyond \in Beyond
  BY Zenon DEF EditorInv, TextInv, TypeOK
<1>0. beyond.words # 1 => line_number = MAX_LINE_NUMBER - 1
  BY WordsFull, Zenon
<1>3. CASE n <= 0 \/ n > Count(text)
  <2>1. UNCHANGED <<text, changed, mode, file, savei, auto_show, goal>> /\ cmds' = r
    BY <1>3, Zenon DEF com_mod, disk
  <2>2. UNCHANGED line_number
    BY <2>1, <1>1, LastLine, Zenon
  <2> QED BY <1>2, <2>1, <2>2, ViewedInv, Zenon
<1>4. CASE n \in 1 .. Count(text)
  <2> DEFINE c == [op |-> "mod", line |-> n, content |-> Recorded(text[n])]
  <2>1. n \in Slots /\ n <= line_number + 1 /\ text[n] \in Line
    BY <1>1, <1>4, EditorAssumption DEF LastIs, Slots, Text
  <2>2. c \in Record
    BY <2>1, EditorAssumption DEF Record, Recorded, Slots
  <2>3. record_command(c) \in Seq(Record) /\ Len(record_command(c)) <= MAX_ROLLBAKC_STEP
    BY <2>2, <1>2, RecordFits, Zenon
  <2>4. /\ changed' = 1 /\ cmds' \in {r, record_command(c)} /\ mode' \in {"prompt", "hung"}
        /\ text' = [text EXCEPT ![n] = x] /\ UNCHANGED <<file, savei, auto_show, goal>>
    BY <1>1, <1>4, <2>1 DEF com_mod, disk, Shown, Display, LastIs
  <2>5. text' \in Text /\ LastIs(text', line_number)
    BY <2>1, <2>4, <1>1, EditorAssumption, Zenon DEF LastIs, Text, Slots
  <2>6. get_line_number(text') = line_number
    BY <2>5, LastLine, Zenon
  <2>7. line_number' = line_number
    BY <2>6, Zenon
  <2> QED BY <2>3, <2>4, <2>5, <2>7, <1>0, <1>2, EditedInv, Zenon DEF LastIs
<1> QED BY <1>1, <1>3, <1>4 DEF LastIs

\* com_del() keeps the invariant, for a command and for an undo.
LEMMA DelInv ==
  ASSUME EditorInv, mode = "prompt", NEW n \in Nat, NEW len8 \in BOOLEAN,
         NEW r \in Seq(Record), Len(r) <= MAX_ROLLBAKC_STEP, com_del(n, len8, r), UNCHANGED <<file, goal>>
  PROVE  EditorInv'
<1>1. text \in Text /\ LastIs(text, line_number) /\ Count(text) = line_number + 1
  BY Answers, Zenon DEF Over
<1>2. auto_show \in {0, 1} /\ beyond \in Beyond
  BY Zenon DEF EditorInv, TextInv, TypeOK
<1>0. beyond.words # 1 => line_number = MAX_LINE_NUMBER - 1
  BY WordsFull, Zenon
<1>3. CASE n \in Slots /\ Full
  <2>1. CASE Gone("killed")
    BY <2>1, GoneInv, Zenon DEF Over
  <2>2. CASE DelRunsOn(n, r) /\ beyond.words \in {1, 7, 8}
    <3>1. PICK l \in Line :
             text' = [i \in Slots |-> IF i < n THEN text[i]
                                      ELSE IF i < MAX_LINE_NUMBER THEN text[i + 1] ELSE l]
      BY <2>2, Zenon DEF DelRunsOn, Found
    <3>2. /\ changed' = 1 /\ cmds' = r /\ mode' \in {"prompt", "hung"}
          /\ beyond' = [beyond EXCEPT !.words = IF @ = 1 THEN 1 ELSE @ - 1, !.freed = TRUE]
          /\ UNCHANGED <<file, savei, auto_show, goal, line_number>>
      BY <2>2, Zenon DEF DelRunsOn, Shown, Display
    <3>3. line_number = MAX_LINE_NUMBER - 1
      BY <1>1, <1>3, EditorAssumption DEF Full, LastIs
    <3>4. \A i \in Slots : text[i] \in Line /\ (i < MAX_LINE_NUMBER => text[i + 1] \in Line)
      BY <1>1, <3>3, EditorAssumption DEF LastIs, Slots, Text
    <3>5. \A i \in Slots : text'[i] \in Line
      BY <3>1, <3>4, Zenon
    <3>6. text' \in Text
      BY <3>1, <3>5 DEF Text
    <3>7. LastIs(text', line_number)
      BY <3>3, <3>5, EditorAssumption DEF LastIs, Slots
    <3>8. beyond' \in Beyond
      <4>1. (IF beyond.words = 1 THEN 1 ELSE beyond.words - 1) \in {1, 6, 7, 8}
        BY <2>2
      <4> QED BY <4>1, <3>2, <1>2, Zenon DEF Beyond
    <3> QED BY <3>2, <3>3, <3>6, <3>7, <3>8, EditedInv, Zenon DEF LastIs
  <2> QED BY <1>3, <2>1, <2>2, Zenon DEF com_del
<1>4. CASE ~(n \in Slots /\ Full) /\ (n <= 0 \/ n > Count(text))
  <2>1. UNCHANGED <<text, line_number, changed, mode, file, savei, auto_show, beyond, goal>> /\ cmds' = r
    BY <1>4, Zenon DEF com_del, DelLine
  <2> QED BY <2>1, <1>2, ViewedInv, Zenon
<1>5. CASE ~(n \in Slots /\ Full) /\ n \in 1 .. Count(text)
  <2>1. /\ changed' = 1 /\ cmds' = r /\ mode' \in {"prompt", "hung"} /\ text' = ShiftUp(text, n)
        /\ line_number' = IF mode' = "hung" THEN line_number ELSE get_line_number(text')
        /\ UNCHANGED <<file, savei, auto_show, beyond, goal>>
    BY <1>1, <1>5 DEF com_del, DelLine, Shown, Display, Renumber, LastIs
  <2>2. PICK k : text' \in Text /\ LastIs(text', k)
    BY <2>1, <1>1, <1>5, ShiftedUp DEF LastIs
  <2>3. get_line_number(text') = k
    BY <2>2, LastLine, Zenon
  <2>4. line_number' \in 0 .. (MAX_LINE_NUMBER - 1) /\ (mode' = "prompt" => LastIs(text', line_number'))
    BY <2>1, <2>2, <2>3, <1>1, Zenon DEF LastIs
  <2>5. beyond'.words = 1
    BY <2>1, <1>0, <1>1, <1>5, EditorAssumption DEF Full, LastIs, Slots
  <2> QED BY <2>1, <2>2, <2>4, <2>5, <1>2, EditedInv, Zenon
<1> QED BY <1>1, <1>3, <1>4, <1>5 DEF LastIs

\* What com_rollback() takes from the table of records.
LEMMA NewestRecord ==
  ASSUME TypeOK, Records > 0
  PROVE  cmds[Records] \in Record /\ Older \in Seq(Record) /\ Len(Older) <= MAX_ROLLBAKC_STEP
<1>1. cmds \in Seq(Record) /\ Len(cmds) \in Nat /\ Len(cmds) <= MAX_ROLLBAKC_STEP
  BY DEF TypeOK, Record
<1>2. Records \in 1 .. Len(cmds)
  BY <1>1 DEF Records
<1>3. Older \in Seq(Record) /\ Len(Older) = Records - 1
  <2>1. 1 \in 1 .. (Len(cmds) + 1) /\ Records - 1 \in 0 .. Len(cmds) /\ Records - 1 = (Records - 1) - 1 + 1
    BY <1>1, <1>2
  <2> QED BY <1>1, <2>1, SubSeqProperties DEF Older
<1> QED BY <1>1, <1>2, <1>3, EditorAssumption

\* The commands that edit keep the invariant.
LEMMA EditInv ==
  ASSUME EditorInv, Edit
  PROVE  EditorInv'
<1>1. TypeOK /\ cmds \in Seq(Record) /\ Len(cmds) <= MAX_ROLLBAKC_STEP /\ line_number \in Nat
  BY EditorAssumption DEF EditorInv, TextInv, TypeOK, Record
<1>2. ASSUME NEW n \in Nat, NEW x \in Line, InsAt(n, x)
      PROVE  EditorInv'
  BY <1>2, InsInv, Zenon DEF InsAt
<1>3. ASSUME NEW x \in Line, InsLast(x)
      PROVE  EditorInv'
  BY <1>1, <1>3, InsInv DEF InsLast
<1>4. ASSUME NEW n \in Nat, NEW x \in Line, ModAt(n, x)
      PROVE  EditorInv'
  BY <1>1, <1>4, ModInv, Zenon DEF ModAt
<1>5. ASSUME NEW x \in Line, ModLast(x)
      PROVE  EditorInv'
  <2>1. line_number + 1 \in Nat
    BY <1>1
  <2> QED BY <1>1, <1>5, <2>1, ModInv, Zenon DEF ModLast
<1>6. ASSUME NEW n \in Nat, NEW len8 \in BOOLEAN, DelAt(n, len8)
      PROVE  EditorInv'
  BY <1>1, <1>6, DelInv, Zenon DEF DelAt
<1>7. CASE DelLast
  <2>1. line_number + 1 \in Nat
    BY <1>1
  <2> QED BY <1>1, <1>7, <2>1, DelInv, Zenon DEF DelLast
<1>8. CASE RollbackIns
  <2>1. cmds[Records].line \in Nat /\ Older \in Seq(Record) /\ Len(Older) <= MAX_ROLLBAKC_STEP
    BY <1>1, <1>8, NewestRecord DEF RollbackIns, Record
  <2> QED BY <2>1, <1>8, DelInv, Zenon DEF RollbackIns
<1>9. ASSUME NEW x \in Line, RollbackMod(x)
      PROVE  EditorInv'
  <2>1. cmds[Records].line \in Nat /\ Older \in Seq(Record) /\ Len(Older) <= MAX_ROLLBAKC_STEP
    BY <1>1, <1>9, NewestRecord DEF RollbackMod, Record
  <2> QED BY <2>1, <1>9, ModInv, Zenon DEF RollbackMod, Renumber
<1>10. CASE InitFile
  <2>1. text \in Text /\ LastIs(text, line_number)
    BY <1>10, Answers, Zenon DEF InitFile, Over
  <2>2. \A i \in Slots : i <= Len(Preset) => Preset[i] \in Line
    BY EditorAssumption DEF Slots
  <2>3. text' \in Text
    BY <1>10, <2>1, <2>2, Zenon DEF InitFile, Text
  <2>4. LastIs(text', IF line_number + 1 < Len(Preset) THEN Len(Preset) - 1 ELSE line_number)
    BY <1>10, <2>1, <2>2, EditorAssumption DEF InitFile, LastIs, Slots
  <2>5. LastIs(text', line_number')
    BY <1>10, <2>3, <2>4, LastLine, Zenon DEF InitFile
  <2>6. /\ mode = "prompt" /\ mode' \in {"prompt", "hung"} /\ changed' = (IF mode' = "hung" THEN changed ELSE 1)
        /\ UNCHANGED <<file, savei, auto_show, cmds, beyond, goal>>
    BY <1>10, Zenon DEF InitFile, Display, disk
  <2>7. CASE mode' = "prompt"
    <3>1. line_number' = IF line_number + 1 < Len(Preset) THEN Len(Preset) - 1 ELSE line_number
      BY <1>10, <2>3, <2>4, LastLine, Zenon DEF InitFile
    <3>2. beyond.words # 1 => line_number = MAX_LINE_NUMBER - 1
      BY <2>6, WordsFull, Zenon
    <3>3. beyond'.words # 1 => line_number' = MAX_LINE_NUMBER - 1
      BY <2>6, <3>1, <3>2, EditorAssumption
    <3>4. beyond' \in Beyond
      BY <2>6, <1>1, Zenon DEF TypeOK
    <3> QED BY <2>3, <2>5, <2>6, <2>7, <3>3, <3>4, <1>1, EditedInv, Zenon DEF LastIs
  <2>8. CASE mode' = "hung"
    <3>1. TypeOK'
      BY <2>3, <2>5, <2>6, <2>8, <1>1, Zenon DEF TypeOK, Text, LastIs, Modes
    <3>2. LinesContiguous' /\ UnchangedIsSaved' /\ StaysFull'
      BY <2>8, Zenon DEF LinesContiguous, StaysFull, Running, UnchangedIsSaved
    <3>3. FileSound'
      BY <2>6, <2>8, Zenon DEF EditorInv, TextInv, FileSound, Saving
    <3>4. SaveLeavesPrefix'
      BY <2>6, <2>8, Zenon DEF EditorInv, SaveLeavesPrefix, Saving, Running
    <3> QED BY <3>1, <3>2, <3>3, <3>4, Zenon DEF EditorInv, TextInv
  <2> QED BY <2>6, <2>7, <2>8, Zenon
<1>11. CASE MallocFaults
  BY <1>11, GoneInv, Zenon DEF MallocFaults, Over
<1> QED
  BY <1>2, <1>3, <1>4, <1>5, <1>6, <1>7, <1>8, <1>9, <1>10, <1>11, EditorAssumption DEF Edit

\* A step of com_save() that leaves the editor's memory alone.
LEMMA SavedInv ==
  ASSUME EditorInv, mode \notin Over \cup {"hung"}, mode' \in Modes \ (Over \cup {"hung"}),
         UNCHANGED <<text, line_number, auto_show, cmds, beyond>>
  PROVE  LinesContiguous' /\ StaysFull'
BY Zenon DEF EditorInv, TextInv, LinesContiguous, StaysFull, Full, Running

\* The steps of com_save() keep the invariant.
LEMMA SaveInv ==
  ASSUME EditorInv, Save
  PROVE  EditorInv'
<1> USE DEF EditorInv, TextInv
<1>1. CASE SaveUnlink
  <2>1. /\ mode \in {"prompt", "leaving"} /\ mode' \in {"unlinked", "unlinked_exit"} /\ file' = NoFile
        /\ goal' = text /\ UNCHANGED <<text, line_number, auto_show, cmds, beyond, changed, savei>>
    BY <1>1, Zenon DEF SaveUnlink, edits
  <2>2. TypeOK'
    BY <2>1, Zenon DEF TypeOK, Modes
  <2>3. LinesContiguous' /\ StaysFull'
    BY <2>1, SavedInv, Zenon DEF Over, Modes
  <2>4. goal' # Blank
    <3>1. LastIs(text, line_number)
      BY <2>1, Answers, Zenon DEF Over
    <3>2. 1 \in Slots /\ text[1] # NULL
      BY <3>1, EditorAssumption DEF LastIs, Slots
    <3> QED BY <2>1, <3>2, Zenon DEF Blank
  <2>5. UnchangedIsSaved' /\ FileSound' /\ SaveLeavesPrefix'
    BY <2>1, <2>4, Zenon DEF UnchangedIsSaved, SaveLeavesPrefix, FileSound, Saving
  <2> QED BY <2>2, <2>3, <2>5, Zenon
<1>2. CASE SaveOpen
  <2>1. text \in Text /\ LastIs(text, line_number)
    BY <1>2, Answers, Zenon DEF SaveOpen, Over
  <2>2. /\ mode \in {"unlinked", "unlinked_exit"} /\ mode' \in {"saving", "saving_exit"} /\ file' = <<Empty>>
        /\ savei' = 1 /\ UNCHANGED <<text, line_number, auto_show, cmds, beyond, changed, goal>>
    BY <1>2, Zenon DEF SaveOpen, edits
  <2>3. file' \in Seq(FileLine) /\ Len(file') = 1 /\ file'[1] = Empty /\ file' # NoFile
    BY <2>2, NewFile, Zenon
  <2>4. TypeOK'
    BY <2>2, <2>3, EditorAssumption DEF TypeOK, Modes
  <2>5. LinesContiguous' /\ StaysFull'
    BY <2>2, SavedInv, Zenon DEF Over, Modes
  <2>6. More'
    BY <2>1, <2>2, EditorAssumption DEF More, LastIs, Slots
  <2>7. FileSound'
    BY <2>2, <2>3, <2>6, EditorAssumption DEF FileSound, Saving, Slots
  <2>8. \A i \in Slots : (i <= 1 => i = 1) /\ ~(i < 1)
    BY EditorAssumption DEF Slots
  <2>9. SaveLeavesPrefix'
    BY <2>2, <2>3, <2>8, Zenon DEF SaveLeavesPrefix, Saving
  <2> QED BY <2>2, <2>4, <2>5, <2>7, <2>9, Zenon DEF UnchangedIsSaved
<1>3. CASE SaveOpenFails
  BY <1>3, GoneInv, Zenon DEF SaveOpenFails, Over
<1>4. CASE SaveNewline
  <2>1. /\ Saving /\ More /\ Len(file) < savei /\ file' = Append(file, Empty)
        /\ UNCHANGED <<text, line_number, auto_show, cmds, beyond, changed, mode, savei, goal>>
    BY <1>4, Zenon DEF SaveNewline, Saving, edits
  <2>2. file \in Seq(FileLine) /\ Len(file) = savei - 1 /\ savei \in Nat
    BY <2>1, EditorAssumption DEF TypeOK, FileSound, SaveLeavesPrefix
  <2>3. /\ file' \in Seq(FileLine) /\ Len(file') = savei /\ file'[savei] = Empty /\ file' # NoFile
        /\ \A i \in 1 .. (savei - 1) : file'[i] = file[i]
    <3>1. Empty \in FileLine /\ NoFile \notin Seq(FileLine)
      BY EditorAssumption, Zenon DEF FileLine
    <3>2. /\ file' \in Seq(FileLine) /\ Len(file') = savei /\ file'[savei] = Empty
          /\ \A i \in 1 .. (savei - 1) : file'[i] = file[i]
      BY <2>1, <2>2, <3>1
    <3> QED BY <3>1, <3>2, Zenon
  <2>4. TypeOK'
    BY <2>1, <2>3, Zenon DEF TypeOK
  <2>5. LinesContiguous' /\ StaysFull' /\ UnchangedIsSaved'
    <3>1. mode \notin Over \cup {"hung"} /\ mode' \in Modes \ (Over \cup {"hung"})
      BY <2>1, Zenon DEF Saving, Modes, Over
    <3> QED BY <2>1, <3>1, SavedInv, Zenon DEF UnchangedIsSaved, Saving
  <2>6. /\ \A i \in Slots : i < savei => file'[i] = file[i]
        /\ \A i \in Slots : i <= Len(file') => i < savei \/ i = savei
    BY <2>2, <2>3, EditorAssumption DEF Slots
  <2>7. SaveLeavesPrefix'
    BY <2>1, <2>3, <2>6, Zenon DEF SaveLeavesPrefix, Saving, Running
  <2>8. FileSound'
    BY <2>1, <2>2, <2>3, EditorAssumption DEF FileSound, Saving, More, Slots
  <2> QED BY <2>4, <2>5, <2>7, <2>8, Zenon
<1>5. CASE SaveLine
  <2>1. /\ Saving /\ More /\ Len(file) = savei /\ file' = [file EXCEPT ![savei] = Stored(savei)]
        /\ savei' = savei + 1 /\ UNCHANGED <<text, line_number, auto_show, cmds, beyond, changed, mode, goal>>
    BY <1>5, Zenon DEF SaveLine, Saving, edits
  <2>2. file \in Seq(FileLine) /\ savei \in 1 .. (MAX_LINE_NUMBER + 8)
    <3>1. file \in Seq(FileLine) /\ savei \in 1 .. (MAX_LINE_NUMBER + 9) /\ beyond \in Beyond
      BY <2>1, Zenon DEF TypeOK, FileSound
    <3>2. beyond.words \in {1, 6, 7, 8}
      BY <3>1, Zenon DEF Beyond
    <3>3. savei > MAX_LINE_NUMBER => savei <= MAX_LINE_NUMBER + beyond.words
      BY <2>1, Zenon DEF More
    <3> QED BY <3>1, <3>2, <3>3, EditorAssumption
  <2>3. Stored(savei) \in FileLine /\ (savei \in Slots => Stored(savei) = text[savei] /\ text[savei] \in Line)
    BY <2>1, <2>2, EditorAssumption DEF TypeOK, More, Stored, FileLine, Slots
  <2>4. /\ file' \in Seq(FileLine) /\ Len(file') = savei /\ file' # NoFile
        /\ \A i \in 1 .. savei : file'[i] = IF i = savei THEN Stored(savei) ELSE file[i]
    <3>1. NoFile \notin Seq(FileLine)
      BY EditorAssumption, Zenon DEF FileLine
    <3>2. /\ file' \in Seq(FileLine) /\ Len(file') = savei
          /\ \A i \in 1 .. savei : file'[i] = IF i = savei THEN Stored(savei) ELSE file[i]
      BY <2>1, <2>2, <2>3
    <3> QED BY <3>1, <3>2, Zenon
  <2>5. TypeOK'
    BY <2>1, <2>2, <2>4, EditorAssumption DEF TypeOK
  <2>6. LinesContiguous' /\ StaysFull' /\ UnchangedIsSaved'
    <3>1. mode \notin Over \cup {"hung"} /\ mode' \in Modes \ (Over \cup {"hung"})
      BY <2>1, Zenon DEF Saving, Modes, Over
    <3> QED BY <2>1, <3>1, SavedInv, Zenon DEF UnchangedIsSaved, Saving
  <2>7. \A i \in Slots : i <= savei => file'[i] = text[i] /\ text[i] = goal[i]
    <3>1. \A i \in Slots : i < savei => file[i] = text[i]
      BY <2>1, Zenon DEF SaveLeavesPrefix
    <3>2. goal = text
      BY <2>1, Zenon DEF SaveLeavesPrefix
    <3>3. \A i \in Slots : i <= savei => i \in 1 .. savei /\ (i = savei \/ i < savei)
      BY <2>2, EditorAssumption DEF Slots
    <3> QED BY <2>3, <2>4, <3>1, <3>2, <3>3, Zenon
  <2>8. \A i \in Slots : (i < savei' <=> i <= savei) /\ (i <= Len(file') <=> i <= savei)
    BY <2>1, <2>2, <2>4, EditorAssumption DEF Slots
  <2>9. Len(file') = savei' - 1 /\ Len(file') # savei'
    BY <2>1, <2>2, <2>4, EditorAssumption
  <2>10. SaveLeavesPrefix'
    <3>1. goal' # Blank /\ file' # NoFile =>
             \A i \in Slots : i <= Len(file') =>
                file'[i] = goal'[i] \/ (i = Len(file') /\ file'[i] = Empty)
      BY <2>1, <2>7, <2>8, Zenon
    <3>2. mode' \notin {"unlinked", "unlinked_exit"}
      BY <2>1, Zenon DEF Saving
    <3>3. goal' = text'
      BY <2>1, Zenon DEF SaveLeavesPrefix
    <3>4. \A i \in Slots : i < savei' => file'[i] = text'[i]
      BY <2>1, <2>7, <2>8, Zenon
    <3> QED BY <3>1, <3>2, <3>3, <3>4, <2>4, <2>9, Zenon DEF SaveLeavesPrefix
  <2>11. FileSound'
    <3>1. \A i \in Slots : i <= savei => text[i] \in Line
      <4>1. \A i \in Slots : i < savei => text[i] \in Line
        <5>1. \A i \in Slots : i <= Len(file) => file[i] \in Line \cup HugeLine
          BY <2>1, Zenon DEF FileSound
        <5>2. \A i \in Slots : i < savei => i <= Len(file) /\ file[i] # NULL
          BY <5>1, <2>1, <2>2, EditorAssumption DEF Slots
        <5> QED BY <5>2, <2>1, Zenon DEF SaveLeavesPrefix, TypeOK
      <4>2. \A i \in Slots : i <= savei => i = savei \/ i < savei
        BY <2>2, EditorAssumption DEF Slots
      <4> QED BY <2>3, <4>1, <4>2, Zenon
    <3>2. \A i \in Slots : i <= Len(file') => file'[i] \in Line \cup HugeLine
      BY <3>1, <2>7, <2>8, Zenon
    <3>3. Len(file') > 0
      BY <2>2, <2>4
    <3> QED BY <3>2, <3>3, <2>4, <2>9, Zenon DEF FileSound
  <2> QED BY <2>5, <2>6, <2>10, <2>11, Zenon
<1>6. CASE SaveDone
  <2>1. /\ Saving /\ ~More /\ changed' = 0 /\ savei' = 1 /\ mode' \in {"prompt", "leaving"} /\ goal' = Blank
        /\ UNCHANGED <<text, line_number, auto_show, cmds, beyond, file>>
    BY <1>6, Zenon DEF SaveDone, Saving, edits
  <2>2. text \in Text /\ LastIs(text, line_number)
    BY <2>1, Answers, Zenon DEF Saving, Over
  <2>3. /\ file \in Seq(FileLine) /\ file # NoFile /\ savei \in 1 .. (MAX_LINE_NUMBER + 9)
        /\ Len(file) = savei - 1
    BY <2>1, EditorAssumption, Zenon DEF TypeOK, FileSound, SaveLeavesPrefix
  <2>4. \A i \in Slots : i <= Len(file) => file[i] = text[i] /\ text[i] \notin HugeLine
    BY <2>1, <2>2, <2>3, EditorAssumption DEF SaveLeavesPrefix, FileSound, Slots, Text
  <2>5. \A i \in Slots : i > Len(file) => text[i] = NULL
    <3>1. CASE savei > MAX_LINE_NUMBER
      BY <3>1, <2>3, EditorAssumption DEF Slots
    <3>2. CASE savei <= MAX_LINE_NUMBER
      <4>1. savei \in Slots /\ text[savei] = NULL
        BY <3>2, <2>1, <2>3, EditorAssumption DEF More, Slots
      <4> QED BY <4>1, <2>2, <2>3, EditorAssumption DEF LastIs, Slots
    <3> QED BY <3>1, <3>2, <2>3, EditorAssumption
  <2>6. Load(file) = text
    BY <2>2, <2>4, <2>5 DEF Load, Text
  <2>7. TypeOK'
    <3>1. Blank \in [Slots -> Line \cup {NULL}]
      BY Zenon DEF Blank
    <3> QED BY <3>1, <2>1, EditorAssumption DEF TypeOK, Modes
  <2>8. LinesContiguous' /\ StaysFull'
    <3>1. mode \notin Over \cup {"hung"} /\ mode' \in Modes \ (Over \cup {"hung"})
      BY <2>1, Zenon DEF Saving, Modes, Over
    <3> QED BY <2>1, <3>1, SavedInv, Zenon
  <2>9. FileSound' /\ SaveLeavesPrefix'
    BY <2>1, <2>3, Zenon DEF SaveLeavesPrefix, FileSound, Saving
  <2>10. UnchangedIsSaved'
    BY <2>1, <2>3, <2>6, Zenon DEF UnchangedIsSaved
  <2> QED BY <2>7, <2>8, <2>9, <2>10, Zenon
<1> QED BY <1>1, <1>2, <1>3, <1>4, <1>5, <1>6, Zenon DEF Save

\* Starting and leaving keep the invariant.
LEMMA QuitInv ==
  ASSUME EditorInv, Quit
  PROVE  EditorInv'
<1> USE DEF EditorInv, TextInv
<1>1. CASE Exit
  BY <1>1, ViewedInv, Zenon DEF Exit, TypeOK, Record, edits, disk
<1>2. CASE Leave
  BY <1>2, GoneInv, Zenon DEF Leave, Over
<1>3. CASE PowerOff
  BY <1>3, GoneInv, Zenon DEF PowerOff, Over
<1>4. CASE StartFails
  BY <1>4, GoneInv, Zenon DEF StartFails, Over
<1>5. CASE Start
  <2>1. /\ file' = (IF file = NoFile THEN <<Empty>> ELSE file) /\ text' = Load(file')
        /\ line_number' = get_line_number(text') /\ mode' \in {"prompt", "hung"}
        /\ changed' = 0 /\ auto_show' = 1 /\ cmds' = <<>> /\ savei' = 1 /\ goal' = Blank
    BY <1>5, Zenon DEF Start, Display
  <2>2. /\ file' \in Seq(FileLine) /\ Len(file') > 0 /\ file' # NoFile
        /\ \A i \in Slots : i <= Len(file') => file'[i] \in Line \cup HugeLine
    <3>1. CASE file = NoFile
      BY <3>1, <2>1, NewFile, EditorAssumption DEF Slots
    <3>2. CASE file # NoFile
      BY <3>2, <2>1, Zenon DEF TypeOK, FileSound
    <3> QED BY <3>1, <3>2, Zenon
  <2>3. PICK k : /\ text' \in Text /\ LastIs(text', k)
                 /\ Len(file') > MAX_LINE_NUMBER => k = MAX_LINE_NUMBER - 1
    BY <2>1, <2>2, Loaded, Zenon
  <2>4. LastIs(text', line_number') /\ line_number' = k /\ Count(text') = k + 1
    BY <2>1, <2>3, LastLine, Zenon
  <2>8. beyond' \in Beyond /\ (Len(file') > MAX_LINE_NUMBER \/ beyond'.words = 1)
    <3>1. PICK w \in (IF Len(file') > MAX_LINE_NUMBER THEN {6, 8} ELSE {1}) :
             beyond' = [Fresh EXCEPT !.words = w]
      BY <1>5, Zenon DEF Start
    <3>2. w \in {1, 6, 7, 8} /\ (Len(file') > MAX_LINE_NUMBER \/ w = 1)
      BY <3>1, Zenon
    <3> QED BY <3>1, <3>2, Zenon DEF Fresh, Beyond
  <2>9. StaysFull'
    <3>1. beyond'.words # 1 => Count(text') = MAX_LINE_NUMBER
      BY <2>3, <2>4, <2>8, EditorAssumption
    <3> QED BY <3>1, Zenon DEF StaysFull, Full
  <2>5. TypeOK'
    <3>1. cmds' \in Seq(Record) /\ Len(cmds') <= MAX_ROLLBAKC_STEP
      BY <2>1, EditorAssumption
    <3>2. text' \in Text /\ line_number' \in 0 .. (MAX_LINE_NUMBER - 1)
      BY <2>3, <2>4, Zenon DEF LastIs
    <3>3. mode' \in Modes /\ savei' \in 1 .. (MAX_LINE_NUMBER + 9)
      BY <2>1, EditorAssumption DEF Modes
    <3>4. goal' \in Text
      BY <2>1, Zenon DEF Blank, Text
    <3> QED BY <2>1, <2>2, <2>8, <3>1, <3>2, <3>3, <3>4, Zenon DEF TypeOK, Text, Record
  <2>6. LinesContiguous' /\ UnchangedIsSaved' /\ SaveLeavesPrefix'
    BY <2>1, <2>2, <2>4, Zenon DEF LinesContiguous, LastIs, UnchangedIsSaved, SaveLeavesPrefix, Saving
  <2>7. FileSound'
    BY <2>1, <2>2, Zenon DEF FileSound, Saving
  <2> QED BY <2>5, <2>6, <2>7, <2>9, Zenon
<1> QED BY <1>1, <1>2, <1>3, <1>4, <1>5, Zenon DEF Quit

\* Every step of the editor keeps the invariant.
LEMMA StepInv ==
  ASSUME EditorInv, [Next]_vars
  PROVE  EditorInv'
<1>1. CASE UNCHANGED vars
  <2>1. TypeOK' /\ LinesContiguous' /\ FileSound' /\ StaysFull'
    BY <1>1, Zenon DEF EditorInv, TextInv, vars, TypeOK, LinesContiguous, StaysFull, Full, Running, FileSound, Saving, More
  <2>2. UnchangedIsSaved' /\ SaveLeavesPrefix'
    BY <1>1, Zenon DEF EditorInv, vars, UnchangedIsSaved, SaveLeavesPrefix, Saving, Running
  <2> QED BY <2>1, <2>2, Zenon DEF EditorInv, TextInv
<1>2. CASE Disp
  <2>1. mode = "prompt" /\ mode' \in {"prompt", "hung"} /\ auto_show' \in {0, 1}
    BY <1>2, Zenon DEF EditorInv, TextInv, TypeOK, Disp, Display
  <2> QED BY <1>2, <2>1, ViewedInv, Zenon DEF EditorInv, TextInv, TypeOK, Record, Disp, disk
<1>3. ASSUME NEW b \in {0, 1}, SetShow(b)
      PROVE  EditorInv'
  BY <1>3, ViewedInv, Zenon DEF EditorInv, TextInv, TypeOK, Record, SetShow, disk
<1> QED BY <1>1, <1>2, <1>3, EditInv, SaveInv, QuitInv, Zenon DEF Next, View

\* The invariant holds before the editor is started, on any file.
LEMMA InitInv ==
  ASSUME NEW files \in SUBSET AnyFile, InitFrom(files)
  PROVE  EditorInv
<1>1. file \in AnyFile
  BY Zenon DEF InitFrom
<1>2. TypeOK
  <2>1. Fresh \in Beyond /\ Blank \in [Slots -> Line \cup {NULL}]
    BY Zenon DEF Fresh, Beyond, Blank
  <2> QED BY <1>1, <2>1, EditorAssumption DEF InitFrom, TypeOK, AnyFile, FileLine, Modes, Over
<1>3. LinesContiguous /\ UnchangedIsSaved /\ SaveLeavesPrefix /\ StaysFull
  BY Zenon DEF InitFrom, LinesContiguous, StaysFull, Running, Over, UnchangedIsSaved, SaveLeavesPrefix, Saving
<1>4. FileSound
  BY <1>1, EditorAssumption DEF InitFrom, FileSound, Saving, AnyFile, Slots
<1> QED BY <1>2, <1>3, <1>4, Zenon DEF EditorInv, TextInv

-----------------------------------------------------------------------------
(* The theorems. *)

\* For every size of the tables and every file that another program has left,
\* after every sequence of commands, undos, saves, crashes and restarts, also when
\* the loops of com_del() and com_save() have run past a full table: no table of
\* the editor overflows, the text has no gap, line_number counts its lines
\* (get_line_number()), and the file has nothing but lines.
THEOREM TextIsSound ==
  ASSUME NEW CONSTANT files \in SUBSET AnyFile
  PROVE  InitFrom(files) /\ [][Next]_vars => []TextInv
<1>1. InitFrom(files) => EditorInv
  BY InitInv, Zenon
<1>2. EditorInv /\ [Next]_vars => EditorInv'
  BY StepInv, Zenon
<1>3. EditorInv => TextInv
  BY Zenon DEF EditorInv
<1> QED BY <1>1, <1>2, <1>3, PTL

\* When com_exit() does not ask, because changed is 0, loading the file again
\* gives the text on the screen.
THEOREM NothingUnsaved ==
  ASSUME NEW CONSTANT files \in SUBSET AnyFile
  PROVE  InitFrom(files) /\ [][Next]_vars => []UnchangedIsSaved
<1>1. InitFrom(files) => EditorInv
  BY InitInv, Zenon
<1>2. EditorInv /\ [Next]_vars => EditorInv'
  BY StepInv, Zenon
<1>3. EditorInv => UnchangedIsSaved
  BY Zenon DEF EditorInv
<1> QED BY <1>1, <1>2, <1>3, PTL

\* What a save that does not come to its end leaves, whether power fails, open()
\* fails or the editor is killed, is no file or the first lines of the new text.
THEOREM SavedSoFar ==
  ASSUME NEW CONSTANT files \in SUBSET AnyFile
  PROVE  InitFrom(files) /\ [][Next]_vars => []SaveLeavesPrefix
<1>1. InitFrom(files) => EditorInv
  BY InitInv, Zenon
<1>2. EditorInv /\ [Next]_vars => EditorInv'
  BY StepInv, Zenon
<1>3. EditorInv => SaveLeavesPrefix
  BY Zenon DEF EditorInv
<1> QED BY <1>1, <1>2, <1>3, PTL

-----------------------------------------------------------------------------
(* Undo.  The records form a chain: each one that is still good leads from the  *)
(* text that the next one starts from to the text it keeps.                     *)

Entries == [text : Text \cup {NULL}, wrote : Line, kept : {"yes", "lost", "deleted", "stale"}]

\* Executing record c on text t gives text u, without asking and without a miss.
Undoes(t, c, u) ==
  /\ c.line \in Slots /\ t[c.line] # NULL
  /\ c.op = "ins" => u = ShiftUp(t, c.line)
  /\ c.op = "mod" => c.content # Empty /\ u = [t EXCEPT ![c.line] = c.content]

\* The text that the command after record k started from.
After(k) == IF k = Len(past) THEN text ELSE past[k + 1].text

PastInv ==
  /\ past \in Seq(Entries) /\ Len(past) = Len(cmds)
  /\ \A k \in 1 .. Len(past) : past[k].kept = "yes" => Undoes(After(k), cmds[k], past[k].text)

UndoInv == EditorInv /\ PastInv

\* Two texts with the same lines are equal.
LEMMA SameText ==
  ASSUME NEW t \in Text, NEW u \in Text, \A i \in Slots : u[i] = t[i]
  PROVE  t = u
BY DEF Text

\* Deleting the line just inserted gives the text back, if no line was lost.
LEMMA UndoOfIns ==
  ASSUME NEW t \in Text, NEW k, LastIs(t, k), k + 1 < MAX_LINE_NUMBER,
         NEW n \in 1 .. (k + 2), NEW x \in Line
  PROVE  LET u == [ShiftDown(t, n) EXCEPT ![n] = x]
         IN  n \in Slots /\ u[n] # NULL /\ t = ShiftUp(u, n) /\ t = Without(u, n)
<1> DEFINE u == [ShiftDown(t, n) EXCEPT ![n] = x]
<1>1. n \in Slots /\ k \in Nat /\ k + 1 # MAX_LINE_NUMBER
  BY EditorAssumption DEF LastIs, Slots
<1>2. u \in Text /\ LastIs(u, k + 1)
  BY <1>1, ShiftedDown, Zenon
<1>3. Count(u) = k + 2
  BY <1>1, <1>2, LastLine
<1>4. \A i \in Slots : u[i] = IF i = n THEN x ELSE IF i > n /\ t[i - 1] # NULL THEN t[i - 1] ELSE t[i]
  BY <1>1, Zenon DEF ShiftDown, Text
<1>5. \A i \in Slots : i >= n /\ i < MAX_LINE_NUMBER => i + 1 \in Slots /\ u[i + 1] = t[i]
  BY <1>1, <1>4, EditorAssumption DEF LastIs, Slots
<1>6. ShiftUp(u, n) \in Text /\ Without(u, n) \in Text
  <2>1. ShiftUp(u, n) \in Text
    <3>1. n \in 1 .. (k + 1 + 1)
      BY <1>1
    <3> QED BY <1>2, <3>1, ShiftedUp, Zenon
  <2>2. Without(u, n) \in Text
    BY <1>1, <1>2, EditorAssumption DEF Without, Text, Slots
  <2> QED BY <2>1, <2>2, Zenon
<1>7. \A i \in Slots : Without(u, n)[i] = t[i]
  <2>1. \A i \in Slots : Without(u, n)[i] = IF i < n THEN u[i] ELSE IF i < MAX_LINE_NUMBER THEN u[i + 1] ELSE NULL
    BY Zenon DEF Without
  <2>2. \A i \in Slots : i < n => u[i] = t[i]
    BY <1>1, <1>4 DEF Slots
  <2>3. \A i \in Slots : i >= MAX_LINE_NUMBER => t[i] = NULL
    BY <1>1, EditorAssumption DEF LastIs, Slots
  <2>4. \A i \in Slots : ~(i < n) <=> i >= n
    BY <1>1 DEF Slots
  <2>5. \A i \in Slots : ~(i < MAX_LINE_NUMBER) <=> i >= MAX_LINE_NUMBER
    BY EditorAssumption DEF Slots
  <2> QED BY <2>1, <2>2, <2>3, <2>4, <2>5, <1>5, Zenon
<1>8. \A i \in Slots : ShiftUp(u, n)[i] = t[i]
  <2> SUFFICES ASSUME NEW i \in Slots
               PROVE  ShiftUp(u, n)[i] = t[i]
    BY Zenon
  <2>1. ShiftUp(u, n)[i] =
          CASE i < n -> u[i] [] i >= n /\ i < k + 2 -> u[i + 1]
            [] i = k + 2 -> (IF i = 1 THEN Empty ELSE NULL) [] OTHER -> NULL
    BY <1>3, Zenon DEF ShiftUp
  <2>2. i \in Nat /\ n \in Nat /\ n <= k + 2 /\ n > 0
    BY <1>1, EditorAssumption DEF Slots
  <2>3. CASE i < n
    BY <2>1, <2>2, <2>3, <1>1, <1>4
  <2>4. CASE i >= n /\ i < k + 2
    BY <2>1, <2>2, <2>4, <1>1, <1>5, EditorAssumption
  <2>5. CASE i >= k + 2
    <3>1. t[i] = NULL
      BY <2>2, <2>5, <1>1 DEF LastIs
    <3> QED BY <2>1, <2>2, <2>5, <3>1, <1>1
  <2> QED BY <2>2, <2>3, <2>4, <2>5, <1>1
<1>9. t = ShiftUp(u, n) /\ t = Without(u, n)
  BY <1>6, <1>7, <1>8, SameText, Zenon
<1>10. u[n] = x /\ x # NULL
  BY <1>1, <1>4, EditorAssumption, Zenon
<1> QED BY <1>1, <1>9, <1>10, Zenon

\* A command that is recorded adds its record to the chain.
LEMMA Pushed ==
  ASSUME PastInv, TypeOK, NEW c \in Record, NEW e \in Entries, cmds' = record_command(c), Push(e),
         e.text = text, e.kept = "yes" => Undoes(text', c, text)
  PROVE  PastInv'
<1>1. /\ cmds \in Seq(Record) /\ past \in Seq(Entries) /\ Len(past) = Len(cmds) /\ Len(cmds) \in Nat
      /\ Len(cmds) <= MAX_ROLLBAKC_STEP
  BY DEF PastInv, TypeOK, Record
<1>2. CASE Len(cmds) < MAX_ROLLBAKC_STEP
  <2>1. cmds' = Append(cmds, c) /\ past' = Append(past, e)
    BY <1>2, Zenon DEF record_command, Push, Records
  <2>2. /\ past' \in Seq(Entries) /\ Len(past') = Len(past) + 1 /\ Len(cmds') = Len(past')
        /\ past'[Len(past')] = e /\ cmds'[Len(past')] = c
        /\ \A k \in 1 .. Len(past) : past'[k] = past[k] /\ cmds'[k] = cmds[k]
    BY <1>1, <2>1
  <2>3. \A k \in 1 .. Len(past) : After(k)' = After(k)
    BY <1>1, <2>2 DEF After
  <2>4. \A k : k = Len(past') => After(k)' = text'
    BY Zenon DEF After
  <2>5. ASSUME NEW k \in 1 .. Len(past'), past'[k].kept = "yes"
        PROVE  Undoes(After(k)', cmds'[k], past'[k].text)
    <3>1. k \in 1 .. Len(past) \/ k = Len(past')
      BY <1>1, <2>2
    <3>2. CASE k \in 1 .. Len(past)
      BY <2>2, <2>3, <2>5, <3>2, Zenon DEF PastInv
    <3>3. CASE k = Len(past')
      BY <2>2, <2>4, <2>5, <3>3, Zenon
    <3> QED BY <3>1, <3>2, <3>3, Zenon
  <2> QED BY <2>2, <2>5, Zenon DEF PastInv
<1>3. CASE Len(cmds) >= MAX_ROLLBAKC_STEP
  <2>1. cmds' = Append(Tail(cmds), c) /\ past' = Append(Tail(past), e) /\ cmds # <<>> /\ past # <<>>
    BY <1>1, <1>3, EditorAssumption DEF record_command, Push, Records
  <2>2. /\ Tail(cmds) \in Seq(Record) /\ Len(Tail(cmds)) = Len(cmds) - 1
        /\ Tail(past) \in Seq(Entries) /\ Len(Tail(past)) = Len(past) - 1
        /\ \A k \in 1 .. (Len(past) - 1) : Tail(past)[k] = past[k + 1] /\ Tail(cmds)[k] = cmds[k + 1]
    BY <1>1, <2>1
  <2>3. /\ past' \in Seq(Entries) /\ Len(past') = Len(past) /\ Len(cmds') = Len(past')
        /\ past'[Len(past)] = e /\ cmds'[Len(past)] = c
        /\ \A k \in 1 .. (Len(past) - 1) : past'[k] = past[k + 1] /\ cmds'[k] = cmds[k + 1]
    BY <1>1, <2>1, <2>2
  <2>4. \A k \in 1 .. (Len(past) - 1) : After(k)' = After(k + 1)
    BY <1>1, <2>3 DEF After
  <2>5. \A k : k = Len(past') => After(k)' = text'
    BY Zenon DEF After
  <2>6. ASSUME NEW k \in 1 .. Len(past'), past'[k].kept = "yes"
        PROVE  Undoes(After(k)', cmds'[k], past'[k].text)
    <3>1. (k \in 1 .. (Len(past) - 1) /\ k + 1 \in 1 .. Len(past)) \/ k = Len(past')
      BY <1>1, <2>3
    <3>2. CASE k \in 1 .. (Len(past) - 1) /\ k + 1 \in 1 .. Len(past)
      BY <2>3, <2>4, <2>6, <3>2, Zenon DEF PastInv
    <3>3. CASE k = Len(past')
      BY <2>3, <2>5, <2>6, <3>3, Zenon
    <3> QED BY <3>1, <3>2, <3>3, Zenon
  <2> QED BY <2>3, <2>6, Zenon DEF PastInv
<1> QED BY <1>1, <1>2, <1>3, EditorAssumption

\* A change that is not recorded makes all records useless.
LEMMA Spoilt ==
  ASSUME NEW s \in Seq(Entries), Len(s) = Len(cmds'), past' \in {AllStale(s), AllDeleted(s)}
  PROVE  PastInv'
<1>1. Len(s) \in Nat /\ DOMAIN s = 1 .. Len(s) /\ \A i \in 1 .. Len(s) : s[i] \in Entries
  OBVIOUS
<1>2. past' \in [1 .. Len(s) -> Entries] /\ \A i \in 1 .. Len(s) : past'[i].kept # "yes"
  <2>1. DOMAIN past' = 1 .. Len(s) /\ past' = [i \in 1 .. Len(s) |-> past'[i]]
    BY <1>1, Zenon DEF AllStale, AllDeleted
  <2>2. ASSUME NEW i \in 1 .. Len(s)
        PROVE  past'[i] \in Entries /\ past'[i].kept # "yes"
    <3>1. CASE past' = AllStale(s)
      BY <1>1, <3>1, EditorAssumption, Zenon DEF AllStale, Entries
    <3>2. CASE past' = AllDeleted(s)
      <4>1. PICK y \in {"deleted", "stale"} : past'[i] = [s[i] EXCEPT !.text = NULL, !.kept = y]
        BY <1>1, <3>2, Zenon DEF AllDeleted
      <4> QED BY <1>1, <4>1, Zenon DEF Entries
    <3> QED BY <3>1, <3>2, Zenon
  <2> QED BY <2>1, <2>2, Zenon
<1>3. past' \in Seq(Entries) /\ Len(past') = Len(s)
  BY <1>1, <1>2
<1> QED BY <1>2, <1>3, Zenon DEF PastInv

\* Taking the newest record off, if it restored its text, keeps the chain.
LEMMA Popped ==
  ASSUME PastInv, TypeOK, Records > 0, cmds' = Older, mode' # "killed", TrackRollback
  PROVE  PastInv'
<1> DEFINE older == SubSeq(past, 1, Records - 1)
<1>1. /\ cmds \in Seq(Record) /\ past \in Seq(Entries) /\ Len(past) = Len(cmds) /\ Len(cmds) \in Nat
      /\ Records = Len(cmds)
  BY DEF PastInv, TypeOK, Record, Records
<1>2. 1 \in 1 .. (Len(cmds) + 1) /\ Records - 1 \in 0 .. Len(cmds) /\ Records - 1 = (Records - 1) - 1 + 1
  BY <1>1
<1>3. /\ older \in Seq(Entries) /\ Len(older) = Records - 1
      /\ Len(Older) = Records - 1
      /\ \A k \in 1 .. (Records - 1) : older[k] = past[k] /\ Older[k] = cmds[k]
  BY <1>1, <1>2, SubSeqProperties DEF Older
<1>4. CASE text' = past[Records].text
  <2>1. past' = older
    BY <1>4, Zenon DEF TrackRollback
  <2>2. \A k \in 1 .. (Records - 1) : After(k)' = After(k)
    BY <1>1, <1>3, <1>4, <2>1 DEF After
  <2> QED BY <1>1, <1>3, <2>1, <2>2 DEF PastInv
<1>5. CASE text' # past[Records].text
  <2>1. past' = AllStale(older)
    BY <1>5, Zenon DEF TrackRollback
  <2> QED BY <1>3, <2>1, Spoilt, Zenon
<1> QED BY <1>4, <1>5, Zenon

\* Executing a good record gives its text back, unless com_del() finds the table full.
LEMMA Executed ==
  ASSUME EditorInv, NEW u, Undoes(text, cmds[Records], u), Full => cmds[Records].op = "mod",
         RollbackIns \/ \E x \in Line : RollbackMod(x)
  PROVE  text' = u
<1>1. mode = "prompt" /\ Records > 0 /\ TypeOK
  BY Zenon DEF RollbackIns, RollbackMod, EditorInv, TextInv
<1>2. text \in Text /\ LastIs(text, line_number) /\ Count(text) = line_number + 1
  BY <1>1, Answers, Zenon DEF Over
<1> DEFINE n == cmds[Records].line
<1>3. n \in Slots /\ ~(n <= 0 \/ n > Count(text))
  BY <1>2, EditorAssumption DEF Undoes, LastIs, Slots
<1>4. CASE RollbackIns
  <2>1. text' = ShiftUp(text, n)
    BY <1>3, <1>4, Zenon DEF RollbackIns, com_del, DelLine
  <2> QED BY <1>4, <2>1, Zenon DEF RollbackIns, Undoes
<1>5. ASSUME NEW x \in Line, RollbackMod(x)
      PROVE  text' = u
  <2>1. text' = [text EXCEPT ![n] = x]
    BY <1>3, <1>5, Zenon DEF RollbackMod, com_mod
  <2> QED BY <1>5, <2>1, Zenon DEF RollbackMod, Undoes
<1> QED BY <1>4, <1>5, Zenon

\* An insertion keeps the chain; one into a table with a free slot adds a line.
LEMMA InsPast ==
  ASSUME UndoInv, mode = "prompt", NEW n \in Nat, NEW x \in Line, com_ins(n, x), TrackIns(n)
  PROVE  /\ PastInv'
         /\ text' # text /\ line_number + 1 < MAX_LINE_NUMBER
              => \E k \in Slots : text'[k] # NULL /\ Without(text', k) = text
<1>1. text \in Text /\ LastIs(text, line_number) /\ Count(text) = line_number + 1 /\ line_number \in Nat
  BY Answers DEF Over, UndoInv, LastIs
<1>2. PastInv /\ TypeOK
  BY Zenon DEF UndoInv, EditorInv, TextInv
<1>3. CASE n <= 0 \/ n > Count(text) + 1
  BY <1>2, <1>3, Zenon DEF com_ins, Idle, TrackIns, PastInv, After
<1>4. CASE ~(n <= 0 \/ n > Count(text) + 1) /\ FillsLast(n)
  <2>1. n - 1 = line_number + 1 /\ n \in Slots /\ n - 1 \in Slots /\ text[n - 1] = Empty
    BY <1>4, <1>1, EditorAssumption DEF FillsLast, LastIs, Slots
  <2>2. text' = [text EXCEPT ![n - 1] = x, ![n] = Empty] /\ cmds' = cmds /\ past' = AllStale(past)
    BY <1>4, <2>1, EditorAssumption DEF com_ins, TrackIns, Slots
  <2>3. PastInv'
    BY <1>2, <2>2, Spoilt, Zenon DEF PastInv
  <2>4. \A i \in Slots : text'[i] = IF i = n THEN Empty ELSE IF i = n - 1 THEN x ELSE text[i]
    BY <2>1, <2>2, <1>1, Zenon DEF Text
  <2>5. Without(text', n - 1) \in Text
    <3>1. \A i \in Slots : text'[i] \in Line \cup {NULL}
      BY <2>4, <1>1, EditorAssumption, Zenon DEF Text
    <3> QED BY <3>1, <2>1, EditorAssumption DEF Without, Text, Slots
  <2>6. \A i \in Slots : Without(text', n - 1)[i] = text[i]
    <3>1. \A i \in Slots : Without(text', n - 1)[i] =
             IF i < n - 1 THEN text'[i] ELSE IF i < MAX_LINE_NUMBER THEN text'[i + 1] ELSE NULL
      BY Zenon DEF Without
    <3>2. \A i \in Slots : i < n - 1 => text'[i] = text[i]
      BY <2>1, <2>4 DEF Slots
    <3>3. \A i \in Slots : i >= n - 1 /\ i < MAX_LINE_NUMBER => text'[i + 1] = text[i]
      BY <2>1, <2>4, <1>1, EditorAssumption DEF LastIs, Slots
    <3>4. \A i \in Slots : i >= MAX_LINE_NUMBER => text[i] = NULL
      BY <2>1, <1>1, EditorAssumption DEF LastIs, Slots
    <3>5. \A i \in Slots : (~(i < n - 1) <=> i >= n - 1) /\ (~(i < MAX_LINE_NUMBER) <=> i >= MAX_LINE_NUMBER)
      BY <2>1, EditorAssumption DEF Slots
    <3> QED BY <3>1, <3>2, <3>3, <3>4, <3>5, Zenon
  <2>7. text'[n - 1] # NULL /\ Without(text', n - 1) = text
    BY <2>1, <2>4, <2>5, <2>6, <1>1, SameText, EditorAssumption DEF Slots
  <2> QED BY <2>1, <2>3, <2>7, Zenon
<1>5. CASE ~(n <= 0 \/ n > Count(text) + 1) /\ ~FillsLast(n)
  <2> DEFINE c == [op |-> "ins", line |-> n, content |-> Empty]
             e == Entry(Empty, Count(text) < MAX_LINE_NUMBER)
  <2>1. c \in Record /\ n \in 1 .. (line_number + 2)
    BY <1>1, <1>5, EditorAssumption DEF Record, LastIs
  <2>2. cmds' = record_command(c) /\ Push(e)
    BY <1>5, Zenon DEF com_ins, TrackIns
  <2>3. e \in Entries /\ e.text = text
    BY <1>1, EditorAssumption, Zenon DEF Entry, Entries
  <2>4. CASE line_number + 1 < MAX_LINE_NUMBER
    <3>1. n \in Slots /\ text' = [ShiftDown(text, n) EXCEPT ![n] = x]
      BY <1>1, <1>5, <2>1, <2>4, EditorAssumption DEF com_ins, Slots
    <3>2. text'[n] # NULL /\ text = ShiftUp(text', n) /\ text = Without(text', n)
      <4>1. LET u == [ShiftDown(text, n) EXCEPT ![n] = x]
            IN  n \in Slots /\ u[n] # NULL /\ text = ShiftUp(u, n) /\ text = Without(u, n)
        BY <2>1, <2>4, <1>1, UndoOfIns, Zenon
      <4> QED BY <3>1, <4>1, Zenon
    <3>3. Undoes(text', c, text)
      BY <3>1, <3>2, Zenon DEF Undoes
    <3> QED BY <3>1, <3>2, <3>3, <2>1, <2>2, <2>3, <1>2, Pushed, Zenon
  <2>5. CASE ~(line_number + 1 < MAX_LINE_NUMBER)
    <3>1. e.kept = "lost"
      BY <2>5, <1>1, Zenon DEF Entry
    <3> QED BY <3>1, <2>5, <2>1, <2>2, <2>3, <1>2, Pushed, Zenon
  <2> QED BY <2>4, <2>5, Zenon
<1> QED BY <1>3, <1>4, <1>5, Zenon

\* So does a modification.
LEMMA ModPast ==
  ASSUME UndoInv, mode = "prompt", NEW n \in Nat, NEW x \in Line,
         com_mod(n, x, TRUE, cmds), TrackMod(n, x)
  PROVE  PastInv'
<1>1. text \in Text /\ LastIs(text, line_number) /\ Count(text) = line_number + 1
  BY Answers, Zenon DEF Over, UndoInv
<1>2. PastInv /\ TypeOK
  BY Zenon DEF UndoInv, EditorInv, TextInv
<1>3. CASE n <= 0 \/ n > Count(text)
  BY <1>2, <1>3, Zenon DEF com_mod, TrackMod, PastInv, After
<1>4. CASE ~(n <= 0 \/ n > Count(text))
  <2> DEFINE c == [op |-> "mod", line |-> n, content |-> Recorded(text[n])]
             e == Entry(x, Recorded(text[n]) # Empty)
  <2>1. n \in Slots /\ text[n] \in Line
    BY <1>1, <1>4, EditorAssumption DEF LastIs, Slots, Text
  <2>2. c \in Record
    BY <2>1, EditorAssumption DEF Record, Recorded, Slots
  <2>3. cmds' = record_command(c) /\ Push(e) /\ text' = [text EXCEPT ![n] = x]
    BY <1>4, Zenon DEF com_mod, TrackMod
  <2>4. e \in Entries /\ e.text = text
    BY <1>1, Zenon DEF Entry, Entries
  <2>5. ASSUME e.kept = "yes"
        PROVE  Undoes(text', c, text)
    <3>1. Recorded(text[n]) # Empty /\ Recorded(text[n]) = text[n]
      BY <2>5, Zenon DEF Entry, Recorded
    <3>2. text'[n] = x /\ x # NULL
      BY <2>1, <2>3, <1>1, EditorAssumption, Zenon DEF Text
    <3>3. text = [text' EXCEPT ![n] = text[n]]
      BY <2>1, <2>3, <1>1, Zenon DEF Text
    <3> QED BY <3>1, <3>2, <3>3, <2>1, Zenon DEF Undoes
  <2> QED BY <2>2, <2>3, <2>4, <2>5, <1>2, Pushed, Zenon
<1> QED BY <1>3, <1>4, Zenon

\* What com_del() leaves of the records.
LEMMA DelRecords ==
  ASSUME NEW n \in Nat, NEW len8 \in BOOLEAN, NEW r, com_del(n, len8, r)
  PROVE  IF mode' = "killed" THEN mode = "killed" \/ Gone("killed") ELSE cmds' = r
<1>1. CASE n \in Slots /\ Full
  BY <1>1, Zenon DEF com_del, DelRunsOn, Shown, Display, Gone
<1>2. CASE ~(n \in Slots /\ Full)
  BY <1>2, Zenon DEF com_del, DelLine, Shown, Display
<1> QED BY <1>1, <1>2, Zenon

\* A deletion keeps the chain as well.
LEMMA DelPast ==
  ASSUME UndoInv, mode = "prompt", NEW n \in Nat, NEW len8 \in BOOLEAN,
         com_del(n, len8, cmds), TrackDel(n)
  PROVE  PastInv'
<1>1. PastInv /\ <<>> \in Seq(Entries) /\ Len(<<>>) = 0
  BY DEF UndoInv
<1>2. CASE mode' = "killed"
  <2>1. cmds' = <<>> /\ past' = <<>>
    BY <1>2, DelRecords, Zenon DEF Gone, TrackDel
  <2> QED BY <1>1, <2>1 DEF PastInv
<1>3. CASE mode' # "killed"
  <2>1. cmds' = cmds
    BY <1>3, DelRecords, Zenon
  <2>2. CASE n <= 0 \/ n > Count(text)
    <3>1. ~(n \in Slots /\ Full)
      BY <2>2, EditorAssumption DEF Slots, Full
    <3> QED BY <1>1, <1>3, <2>1, <2>2, <3>1, Zenon DEF com_del, DelLine, TrackDel, PastInv, After
  <2>3. CASE ~(n <= 0 \/ n > Count(text))
    <3>1. past' = AllDeleted(past)
      BY <1>3, <2>3, Zenon DEF TrackDel
    <3> QED BY <1>1, <2>1, <3>1, Spoilt, Zenon DEF PastInv
  <2> QED BY <2>2, <2>3, Zenon
<1> QED BY <1>2, <1>3, Zenon

\* So does an undo.
LEMMA RollPast ==
  ASSUME UndoInv, Rollback
  PROVE  PastInv'
<1>1. PastInv /\ TypeOK /\ Records > 0 /\ mode = "prompt" /\ TrackRollback
  BY Zenon DEF UndoInv, EditorInv, TextInv, Rollback, RollbackIns, RollbackMod
<1>0. /\ RollbackIns => IF mode' = "killed" THEN Gone("killed") ELSE cmds' = Older
      /\ \A x \in Line : RollbackMod(x) => mode' # "killed" /\ cmds' = Older
  <2>1. ASSUME RollbackIns
        PROVE  IF mode' = "killed" THEN Gone("killed") ELSE cmds' = Older
    <3>1. cmds[Records].line \in Nat
      BY <1>1, NewestRecord DEF Record
    <3> QED BY <1>1, <2>1, <3>1, DelRecords, Zenon DEF RollbackIns
  <2>2. ASSUME NEW x \in Line, RollbackMod(x)
        PROVE  mode' # "killed" /\ cmds' = Older
    BY <1>1, <2>2, Zenon DEF RollbackMod, com_mod, Shown, Display
  <2> QED BY <2>1, <2>2, Zenon
<1>2. CASE mode' = "killed"
  <2>1. cmds' = <<>>
    BY <1>0, <1>2, Zenon DEF Rollback, Gone
  <2>2. past' = <<>>
    BY <1>1, <1>2, Zenon DEF TrackRollback
  <2> QED BY <2>1, <2>2 DEF PastInv
<1>3. CASE mode' # "killed"
  <2>1. cmds' = Older
    BY <1>0, <1>3, Zenon DEF Rollback
  <2> QED BY <1>1, <1>3, <2>1, Popped, Zenon
<1> QED BY <1>2, <1>3, Zenon

\* Every step of the editor with undo keeps both invariants.
LEMMA UndoStepInv ==
  ASSUME UndoInv, [UndoNext]_uvars
  PROVE  UndoInv'
<1>1. EditorInv /\ PastInv /\ line_number \in Nat
  BY DEF UndoInv, EditorInv, TextInv, TypeOK
<1>2. [Next]_vars
  <2>1. CASE Insertion
    BY <2>1, Zenon DEF Insertion, Next, Edit
  <2>2. CASE Modification
    BY <2>2, Zenon DEF Modification, Next, Edit
  <2>3. CASE Deletion
    BY <2>3, Zenon DEF Deletion, Next, Edit
  <2>4. CASE Rollback
    BY <2>4, Zenon DEF Rollback, Next, Edit
  <2>5. CASE InitFile \/ MallocFaults \/ PowerOff \/ Start
    BY <2>5, Zenon DEF Next, Edit, Quit
  <2>6. CASE UNCHANGED uvars
    BY <2>6, Zenon DEF uvars
  <2> QED BY <2>1, <2>2, <2>3, <2>4, <2>5, <2>6, Zenon DEF UndoNext
<1>3. EditorInv'
  BY <1>1, <1>2, StepInv, Zenon
<1>4. PastInv'
  <2>1. CASE UNCHANGED uvars
    BY <1>1, <2>1, Zenon DEF uvars, vars, PastInv, After
  <2>2. CASE Insertion
    <3>1. line_number + 2 \in Nat
      BY <1>1
    <3> QED BY <2>2, <3>1, InsPast, EditorAssumption DEF Insertion, InsAt, InsLast
  <2>3. CASE Modification
    <3>1. line_number + 1 \in Nat
      BY <1>1
    <3>2. ASSUME NEW n \in 0 .. (MAX_LINE_NUMBER + 2), NEW x \in Line, ModAt(n, x), TrackMod(n, x)
          PROVE  PastInv'
      <4>1. n \in Nat
        BY EditorAssumption
      <4>2. mode = "prompt" /\ com_mod(n, x, TRUE, cmds)
        BY <3>2, Zenon DEF ModAt
      <4> QED BY <3>2, <4>1, <4>2, ModPast, Zenon
    <3>3. ASSUME NEW x \in Line, ModLast(x), TrackMod(line_number + 1, x)
          PROVE  PastInv'
      BY <3>1, <3>3, ModPast, Zenon DEF ModLast
    <3> QED BY <2>3, <3>2, <3>3, Zenon DEF Modification
  <2>4. CASE Deletion
    <3>1. line_number + 1 \in Nat
      BY <1>1
    <3>2. ASSUME NEW n \in 0 .. (MAX_LINE_NUMBER + 2), NEW len8 \in BOOLEAN, DelAt(n, len8), TrackDel(n)
          PROVE  PastInv'
      <4>1. n \in Nat
        BY EditorAssumption
      <4> QED BY <3>2, <4>1, DelPast, Zenon DEF DelAt
    <3>3. ASSUME DelLast, TrackDel(line_number + 1)
          PROVE  PastInv'
      BY <3>1, <3>3, DelPast, Zenon DEF DelLast
    <3> QED BY <2>4, <3>2, <3>3, Zenon DEF Deletion
  <2>5. CASE Rollback
    BY <2>5, RollPast, Zenon
  <2>6. CASE InitFile /\ past' = AllStale(past)
    BY <1>1, <2>6, Spoilt, Zenon DEF PastInv, InitFile
  <2>7. CASE (Start \/ MallocFaults \/ PowerOff) /\ past' = <<>>
    BY <2>7 DEF PastInv, Start, MallocFaults, PowerOff, Gone
  <2> QED BY <2>1, <2>2, <2>3, <2>4, <2>5, <2>6, <2>7, Zenon DEF UndoNext
<1> QED BY <1>3, <1>4, Zenon DEF UndoInv

\* It starts with both.
LEMMA UndoInitInv ==
  ASSUME NEW files \in SUBSET AnyFile, UndoInit(files)
  PROVE  UndoInv
<1>1. EditorInv
  BY InitInv, Zenon DEF UndoInit
<1>2. cmds = <<>> /\ past = <<>>
  BY Zenon DEF UndoInit, InitFrom
<1> QED BY <1>1, <1>2 DEF UndoInv, PastInv

\* For every size of the text and of the table of records: com_rollback(), any
\* number of times in a row, gives back the texts before the recorded commands,
\* as long as their content was kept, nothing else changed the text, and no
\* insertion into the last free slot is to be undone.
THEOREM UndoGivesTextBack ==
  ASSUME NEW CONSTANT files \in SUBSET AnyFile
  PROVE  UndoInit(files) /\ [][UndoNext]_uvars => UndoRestores
<1>1. UndoInit(files) => UndoInv
  BY UndoInitInv, Zenon
<1>2. UndoInv /\ [UndoNext]_uvars => UndoInv'
  BY UndoStepInv, Zenon
<1>3. UndoInv /\ [UndoNext]_uvars
        => [Rollback /\ past[Records].kept = "yes" /\ (Full => cmds[Records].op = "mod")
              => text' = past[Records].text]_uvars
  <2> SUFFICES ASSUME UndoInv, Rollback, past[Records].kept = "yes", Full => cmds[Records].op = "mod"
               PROVE  text' = past[Records].text
    BY Zenon
  <2>1. Records \in 1 .. Len(past) /\ Records = Len(past)
    <3>1. Records > 0 /\ Records = Len(past) /\ past \in Seq(Entries)
      BY Zenon DEF UndoInv, PastInv, Records, Rollback, RollbackIns, RollbackMod
    <3> QED BY <3>1
  <2>2. Undoes(text, cmds[Records], past[Records].text)
    BY <2>1, Zenon DEF UndoInv, PastInv, After
  <2> QED BY <2>2, Executed, Zenon DEF UndoInv, Rollback
<1> QED BY <1>1, <1>2, <1>3, PTL DEF UndoRestores

\* com_ins() into a table with a free slot adds exactly one line.
THEOREM InsertionAddsALine ==
  ASSUME NEW CONSTANT files \in SUBSET AnyFile
  PROVE  UndoInit(files) /\ [][UndoNext]_uvars => InsertAddsOneLine
<1>1. UndoInit(files) => UndoInv
  BY UndoInitInv, Zenon
<1>2. UndoInv /\ [UndoNext]_uvars => UndoInv'
  BY UndoStepInv, Zenon
<1>3. UndoInv /\ [UndoNext]_uvars
        => [text' # text /\ line_number + 1 < MAX_LINE_NUMBER /\ Insertion
              => \E k \in Slots : text'[k] # NULL /\ Without(text', k) = text]_uvars
  <2> SUFFICES ASSUME UndoInv, text' # text, line_number + 1 < MAX_LINE_NUMBER, Insertion
               PROVE  \E k \in Slots : text'[k] # NULL /\ Without(text', k) = text
    BY Zenon
  <2>1. line_number + 2 \in Nat
    BY DEF UndoInv, EditorInv, TextInv, TypeOK
  <2> QED BY <2>1, InsPast, EditorAssumption DEF Insertion, InsAt, InsLast
<1> QED BY <1>1, <1>2, <1>3, PTL DEF InsertAddsOneLine
=============================================================================
