------------------------------- MODULE Editor -------------------------------
(* The line editor (editor.c): loading a file, the editing commands, the undo *)
(* record, saving and leaving, with the machine failing at any moment.        *)
(*                                                                            *)
(* A line is one of a few contents.  text is the array of line pointers, with *)
(* NULL for an unused slot; the code's indices are one less than the model's. *)
(* The file is the sequence of the lines between its newlines, so that an     *)
(* empty file is one empty line.  What the editor prints is left out, but not *)
(* that printing may never return: the highlighter loops for ever on a line   *)
(* with an unmatched quote.                                                   *)
(*                                                                            *)
(* When all MAX_LINE_NUMBER slots are in use, loops that look for NULL run    *)
(* past the array and take main's other variables for pointers to lines.  In  *)
(* the build kept in the repository (editor.asm) those are len, the length of *)
(* the last command, then the load loop's len, fd, j, pos and the load loop's *)
(* is_full, next and i, then is_new_file, which is 0.  The load loop's len is *)
(* 0 at the end of a file, but not when loading stopped because of the table; *)
(* next and i are both 0 if that was at the first byte of a read().  So 1, 6  *)
(* or 8 more "lines" at small addresses, where the code of main() is: saving  *)
(* writes what is there, inserting stores a line there, and deleting moves it *)
(* into the last slot and frees the last of those words.  Below 8, that is a  *)
(* fault, for which the kernel kills the process; otherwise free() links into *)
(* its list a block of whatever size the bytes before it say, so that a later *)
(* malloc() may fault, or a second free() of it never return.  What a program *)
(* does with a line stored over its own code is left out, but for that fault. *)
(* An undo record is put together in part1[5] and grows into the buffer input *)
(* that follows it on the stack, which is no longer used at that point.       *)
EXTENDS Naturals, Sequences

CONSTANTS
    MAX_LINE_NUMBER,     \* slots of text[]
    MAX_ROLLBAKC_STEP,   \* slots of command_set[]
    Line,                \* contents a line can have, Empty included
    Empty,               \* the empty line
    LongLine,            \* lines too long to be kept in an undo record
    HangLine,            \* lines with an unmatched quote
    HugeLine,            \* lines of a file that do not fit MAX_LINE_LENGTH
    Kept,                \* what loading keeps of each of them
    Preset,              \* the lines that the command init writes
    Junk,                \* a line past MAX_LINE_NUMBER of a file: never loaded
    NULL,                \* an unused slot
    NoFile               \* the file does not exist

ASSUME EditorAssumption ==
    /\ MAX_LINE_NUMBER \in Nat \ {0, 1}
    /\ MAX_ROLLBAKC_STEP \in Nat \ {0}
    /\ Empty \in Line /\ NULL \notin Line \cup HugeLine \cup {Junk}
    /\ NoFile \notin Seq(Line \cup HugeLine \cup {Junk})
    /\ LongLine \subseteq Line \ {Empty} /\ HangLine \subseteq Line \ {Empty}
    /\ HugeLine \cap Line = {} /\ Kept \in [HugeLine -> Line]
    /\ Preset \in Seq(Line) /\ Len(Preset) \in 1 .. MAX_LINE_NUMBER

VARIABLES
    text,        \* text[], one line or NULL per slot
    line_number, \* index of the last line, from 0
    changed,     \* whether there are edits that are not saved
    auto_show,   \* whether every edit is followed by a display
    cmds,        \* command_set[0 .. upper_bound]
    file,        \* the file on disk
    mode,        \* what the editor is doing
    savei,       \* com_save: the line to write next
    beyond,      \* what follows text[] in memory
    goal         \* auxiliary: the text of a save that was begun and not finished

vars == <<text, line_number, changed, auto_show, cmds, file, mode, savei, beyond, goal>>

Slots == 1 .. MAX_LINE_NUMBER
Over == {"exited", "killed", "off"}
Modes == {"prompt", "hung", "unlinked", "saving", "leaving", "unlinked_exit",
          "saving_exit"} \cup Over
FileLine == Line \cup HugeLine \cup {Junk}
Blank == [i \in Slots |-> NULL]

\* words: how many words after text[] are not 0; quote: whether a line with an
\* unmatched quote may be at one of them; freed: whether one of them was freed.
Beyond == [words : {1, 6, 7, 8}, quote : BOOLEAN, freed : BOOLEAN]
Fresh == [words |-> 1, quote |-> FALSE, freed |-> FALSE]

-----------------------------------------------------------------------------
(* Helpers of editor.c. *)

\* get_line_number(): index from 0 of the last line before the first NULL.
get_line_number(t) ==
    IF \E i \in Slots : t[i] = NULL
    THEN (CHOOSE i \in Slots : t[i] = NULL /\ \A j \in 1 .. (i - 1) : t[j] # NULL) - 2
    ELSE MAX_LINE_NUMBER - 1

Count(t) == get_line_number(t) + 1

\* The loop of main() that reads the file: at most MAX_LINE_NUMBER lines, and
\* of a line that is too long only the pieces strcat_n() accepts.
Load(f) ==
    [i \in Slots |-> IF i > Len(f) THEN NULL
                     ELSE IF f[i] \in HugeLine THEN Kept[f[i]] ELSE f[i]]

Full == Count(text) = MAX_LINE_NUMBER

\* show_text_syntax_highlighting(t): the modes in which it may leave the editor.
\* With a full table it also shows what follows.
Display(t) ==
    IF \E i \in Slots : t[i] \in HangLine THEN {"hung"}
    ELSE IF Count(t) = MAX_LINE_NUMBER /\ beyond.quote THEN {"prompt", "hung"}
    ELSE {"prompt"}

\* What may be found past a full table: bytes of the code, cleared bytes, or
\* part of a line that com_ins() stored there.
Found == IF beyond.quote THEN Line ELSE Line \ HangLine

\* Broken: record_command() does not make place.
record_command_unbounded(c) == Append(cmds, c)

\* record_command(): the oldest record makes place when the table is full.
record_command(c) ==
    IF Len(cmds) < MAX_ROLLBAKC_STEP THEN Append(cmds, c) ELSE Append(Tail(cmds), c)

\* The content part of a record: strcat_n() drops a line that does not fit.
Recorded(l) == IF l \in LongLine THEN Empty ELSE l

\* Broken: the loop of com_ins() stops one line early.
ShiftDownShort(t, n) ==
    [i \in Slots |-> IF i > n + 1 /\ t[i - 1] # NULL THEN t[i - 1] ELSE t[i]]

\* The loop of com_ins() that moves lines down; in a full table the last one
\* is overwritten.
ShiftDown(t, n) ==
    [i \in Slots |-> IF i > n /\ t[i - 1] # NULL THEN t[i - 1] ELSE t[i]]

\* Broken: the loop of com_del() starts one line late.
ShiftUpLate(t, n) ==
    [i \in Slots |->
        CASE i <= n -> t[i]
          [] i > n /\ i < Count(t) -> t[i + 1]
          [] i = Count(t) -> IF i = 1 THEN Empty ELSE NULL
          [] OTHER -> NULL]

\* The loop of com_del() that moves lines up and frees the last slot; a text
\* of one line keeps it, emptied.
ShiftUp(t, n) ==
    [i \in Slots |->
        CASE i < n -> t[i]
          [] i >= n /\ i < Count(t) -> t[i + 1]
          [] i = Count(t) -> IF i = 1 THEN Empty ELSE NULL
          [] OTHER -> NULL]

-----------------------------------------------------------------------------
(* Commands.  Each one runs from the prompt to the next prompt. *)

\* The end of a command that edits: show the text if auto_show is set.
Shown(t) == IF auto_show = 1 THEN Display(t) ELSE {"prompt"}

\* main() and com_rollback() update line_number after the display returned.
Renumber == line_number' = IF mode' = "hung" THEN line_number ELSE get_line_number(text')

Idle == UNCHANGED <<text, line_number, changed, cmds, mode, beyond>>

\* com_ins() puts the new line into an empty last line and adds an empty one.
FillsLast(n) == n \in Slots \ {1} /\ text[n] = NULL /\ text[n - 1] = Empty

\* com_ins(text, n, x, 1) and the update of line_number in main().
com_ins(n, x) ==
    IF n <= 0 \/ n > Count(text) + 1 THEN Idle
    ELSE IF n > MAX_LINE_NUMBER THEN
        /\ changed' = 1
        /\ cmds' = record_command([op |-> "ins", line |-> n, content |-> Empty])
        /\ mode' \in IF auto_show = 1 /\ x \in HangLine THEN {"hung"} ELSE Shown(text)
        /\ beyond' = [beyond EXCEPT !.quote = @ \/ x \in HangLine]
        /\ UNCHANGED <<text, line_number>>
    ELSE
        /\ IF FillsLast(n)
           THEN /\ text' = [text EXCEPT ![n - 1] = x, ![n] = Empty]
                /\ UNCHANGED cmds
           ELSE /\ text' = [ShiftDown(text, n) EXCEPT ![n] = x]
                /\ cmds' = record_command([op |-> "ins", line |-> n, content |-> Empty])
        /\ changed' = 1
        /\ mode' \in Shown(text')
        /\ Renumber
        /\ UNCHANGED beyond

\* com_mod(text, n, x, flag); flag is 0 when it is called to undo, with r the
\* records that are left then.
com_mod(n, x, flag, r) ==
    IF n <= 0 \/ n > Count(text)
    THEN cmds' = r /\ UNCHANGED <<text, changed, mode>>
    ELSE
        /\ text' = [text EXCEPT ![n] = x]
        /\ changed' = 1
        /\ cmds' = IF flag
                   THEN record_command([op |-> "mod", line |-> n,
                                        content |-> Recorded(text[n])])
                   ELSE r
        /\ mode' \in Shown(text')

\* The process ends in mode m: its memory is gone.
Gone(m) ==
    /\ mode' = m
    /\ text' = Blank
    /\ line_number' = 0
    /\ changed' = 0
    /\ auto_show' = 1
    /\ cmds' = <<>>
    /\ savei' = 1
    /\ beyond' = Fresh

\* Broken: line_number is not updated after com_del().
DelLineStale(n, r) ==
    /\ IF n <= 0 \/ n > Count(text) THEN UNCHANGED <<text, changed, mode>>
       ELSE text' = ShiftUp(text, n) /\ changed' = 1 /\ mode' \in Shown(text')
    /\ cmds' = r
    /\ UNCHANGED <<line_number, auto_show, savei, beyond>>

\* com_del() with a free slot after the text.
DelLine(n, r) ==
    /\ IF n <= 0 \/ n > Count(text) THEN UNCHANGED <<text, line_number, changed, mode>>
       ELSE /\ text' = ShiftUp(text, n)
            /\ changed' = 1
            /\ mode' \in Shown(text')
            /\ Renumber
    /\ cmds' = r
    /\ UNCHANGED <<auto_show, savei, beyond>>

\* com_del() in a full table, if free() returns from the word it is given: the
\* last slot gets what is past the table.
DelRunsOn(n, r) ==
    /\ \E l \in Found :
          text' = [i \in Slots |-> IF i < n THEN text[i]
                                   ELSE IF i < MAX_LINE_NUMBER THEN text[i + 1] ELSE l]
    /\ changed' = 1
    /\ mode' \in Shown(text') \cup (IF beyond.freed THEN {"hung"} ELSE {})
    /\ beyond' = [beyond EXCEPT !.words = IF @ = 1 THEN 1 ELSE @ - 1, !.freed = TRUE]
    /\ cmds' = r
    /\ UNCHANGED <<line_number, auto_show, savei>>

\* com_del(text, n, flag) and the update of line_number by the caller.  It is
\* never recorded; r is the records that are left.  With one word after text[]
\* it frees the length of the command, with six is_full, with more i and next.
com_del(n, len8, r) ==
    IF n \in Slots /\ Full
    THEN \/ (beyond.words = 1 => ~len8) /\ Gone("killed")
         \/ ((beyond.words = 1 /\ len8) \/ beyond.words \in {7, 8}) /\ DelRunsOn(n, r)
    ELSE DelLine(n, r)

disk == <<file, savei, goal>>

\* "ins-n": n is what the user typed.
InsAt(n, x) ==
    /\ mode = "prompt"
    /\ com_ins(n, x)
    /\ UNCHANGED <<disk, auto_show>>

\* "ins": at the end of the text.
InsLast(x) ==
    /\ mode = "prompt"
    /\ com_ins(line_number + 2, x)
    /\ UNCHANGED <<disk, auto_show>>

\* "mod-n"
ModAt(n, x) ==
    /\ mode = "prompt"
    /\ com_mod(n, x, TRUE, cmds)
    /\ UNCHANGED <<disk, auto_show, line_number, beyond>>

\* "mod": the last line.
ModLast(x) ==
    /\ mode = "prompt"
    /\ com_mod(line_number + 1, x, TRUE, cmds)
    /\ UNCHANGED <<disk, auto_show, line_number, beyond>>

\* "del-n", which may be followed by a space and anything: len8 says whether
\* the command has eight characters or more.
DelAt(n, len8) ==
    /\ mode = "prompt"
    /\ com_del(n, len8, cmds)
    /\ UNCHANGED <<file, goal>>

\* "del": the last line.
DelLast ==
    /\ mode = "prompt"
    /\ com_del(line_number + 1, FALSE, cmds)
    /\ UNCHANGED <<file, goal>>

Records == Len(cmds)
Older == SubSeq(cmds, 1, Records - 1)

\* "rb", com_rollback(): the newest record is an insertion: delete its line.
RollbackIns ==
    /\ mode = "prompt"
    /\ Records > 0 /\ cmds[Records].op = "ins"
    /\ com_del(cmds[Records].line, FALSE, Older)
    /\ UNCHANGED <<file, goal>>

\* "rb", com_rollback(): the newest record is a modification: put the recorded
\* content back; if it is empty, com_mod() asks the user for one.
RollbackMod(x) ==
    /\ mode = "prompt"
    /\ Records > 0 /\ cmds[Records].op = "mod"
    /\ cmds[Records].content # Empty => x = cmds[Records].content
    /\ com_mod(cmds[Records].line, x, FALSE, Older)
    /\ Renumber
    /\ UNCHANGED <<disk, auto_show, beyond>>

\* Broken: com_init_file() does not set changed.
InitFileUnmarked ==
    /\ mode = "prompt"
    /\ text' = [i \in Slots |-> IF i <= Len(Preset) THEN Preset[i] ELSE text[i]]
    /\ line_number' = get_line_number(text')
    /\ mode' \in Display(text')
    /\ UNCHANGED <<disk, auto_show, changed, cmds, beyond>>

\* "init", com_init_file(): overwrite the first lines; changed is set after the
\* display.
InitFile ==
    /\ mode = "prompt"
    /\ text' = [i \in Slots |-> IF i <= Len(Preset) THEN Preset[i] ELSE text[i]]
    /\ line_number' = get_line_number(text')
    /\ mode' \in Display(text')
    /\ changed' = IF mode' = "hung" THEN changed ELSE 1
    /\ UNCHANGED <<disk, auto_show, cmds, beyond>>

\* The malloc() of an editing command takes the block that com_del() freed past
\* the table and writes where the process has no memory.
MallocFaults ==
    /\ mode = "prompt" /\ beyond.freed
    /\ Gone("killed")
    /\ UNCHANGED <<file, goal>>

\* "show" and "hide"
SetShow(b) ==
    /\ mode = "prompt"
    /\ auto_show' = b
    /\ UNCHANGED <<disk, text, line_number, changed, cmds, mode, beyond>>

\* "disp": the display may hang, nothing else changes.
Disp ==
    /\ mode = "prompt"
    /\ mode' \in Display(text)
    /\ UNCHANGED <<disk, text, line_number, changed, auto_show, cmds, beyond>>

-----------------------------------------------------------------------------
(* Saving and leaving. *)

edits == <<text, line_number, auto_show, cmds, beyond>>

\* com_save(): unlink(path).
SaveUnlink ==
    /\ mode = "prompt" \/ (mode = "leaving" /\ changed = 1)
    /\ file' = NoFile
    /\ mode' = IF mode = "prompt" THEN "unlinked" ELSE "unlinked_exit"
    /\ goal' = text
    /\ UNCHANGED <<edits, changed, savei>>

\* Broken: the loop of com_save() starts at the second line.
SaveOpenSkips ==
    /\ mode \in {"unlinked", "unlinked_exit"}
    /\ file' = <<Empty>>
    /\ savei' = 2
    /\ mode' = IF mode = "unlinked" THEN "saving" ELSE "saving_exit"
    /\ UNCHANGED <<edits, changed, goal>>

\* com_save(): open(path, O_WRONLY|O_CREATE).
SaveOpen ==
    /\ mode \in {"unlinked", "unlinked_exit"}
    /\ file' = <<Empty>>
    /\ savei' = 1
    /\ mode' = IF mode = "unlinked" THEN "saving" ELSE "saving_exit"
    /\ UNCHANGED <<edits, changed, goal>>

\* com_save(): the file cannot be opened (no free file structure): exit().
SaveOpenFails ==
    /\ mode \in {"unlinked", "unlinked_exit"}
    /\ Gone("exited")
    /\ UNCHANGED <<file, goal>>

\* What com_save() finds in slot i, and whether it goes on there.
Stored(i) == IF i > MAX_LINE_NUMBER THEN Junk ELSE text[i]

More ==
    IF savei > MAX_LINE_NUMBER THEN savei <= MAX_LINE_NUMBER + beyond.words
    ELSE text[savei] # NULL

\* com_save(): the newline before the next line.
SaveNewline ==
    /\ mode \in {"saving", "saving_exit"}
    /\ More /\ Len(file) < savei
    /\ file' = Append(file, Empty)
    /\ UNCHANGED <<edits, changed, mode, savei, goal>>

\* com_save(): write the next line.
SaveLine ==
    /\ mode \in {"saving", "saving_exit"}
    /\ More /\ Len(file) = savei
    /\ file' = [file EXCEPT ![savei] = Stored(savei)]
    /\ savei' = savei + 1
    /\ UNCHANGED <<edits, changed, mode, goal>>

\* com_save(): close(fd), and back to the prompt or out of com_exit().
SaveDone ==
    /\ mode \in {"saving", "saving_exit"}
    /\ ~More
    /\ changed' = 0
    /\ savei' = 1
    /\ mode' = IF mode = "saving" THEN "prompt" ELSE "leaving"
    /\ goal' = Blank
    /\ UNCHANGED <<edits, file>>

\* "exit", com_exit(): as long as there are edits, ask whether to save.
Exit ==
    /\ mode = "prompt"
    /\ mode' = "leaving"
    /\ UNCHANGED <<edits, changed, disk>>

\* com_exit(): nothing to save, or the answer is "n".  The answer "y" is
\* SaveUnlink, any other one asks again.  The loop that frees the lines of a
\* full table also frees len, which is 4.
Leave ==
    /\ mode = "leaving"
    /\ Gone(IF Full THEN "killed" ELSE "exited")
    /\ UNCHANGED <<file, goal>>

\* The machine stops or is reset at any moment; a display that hangs ends so.
PowerOff ==
    /\ mode \notin Over
    /\ Gone("off")
    /\ UNCHANGED <<file, goal>>

\* main(): start on the file, creating it if it does not exist.
Start ==
    /\ mode \in Over
    /\ file' = IF file = NoFile THEN <<Empty>> ELSE file
    /\ text' = Load(file')
    /\ line_number' = get_line_number(text')
    /\ mode' \in IF file = NoFile THEN {"prompt"} ELSE Display(text')
    /\ changed' = 0
    /\ auto_show' = 1
    /\ cmds' = <<>>
    /\ savei' = 1
    /\ \E w \in IF Len(file') > MAX_LINE_NUMBER THEN {6, 8} ELSE {1} :
          beyond' = [Fresh EXCEPT !.words = w]
    /\ goal' = Blank

\* com_create_new_file(): the file cannot be created: exit().
StartFails ==
    /\ mode \in Over
    /\ file = NoFile
    /\ Gone("exited")
    /\ UNCHANGED <<file, goal>>

Edit ==
    \/ \E x \in Line :
          \/ \E n \in 0 .. (MAX_LINE_NUMBER + 2) : InsAt(n, x) \/ ModAt(n, x)
          \/ InsLast(x) \/ ModLast(x) \/ RollbackMod(x)
    \/ \E n \in 0 .. (MAX_LINE_NUMBER + 2), len8 \in BOOLEAN : DelAt(n, len8)
    \/ DelLast \/ RollbackIns \/ InitFile \/ MallocFaults

View == Disp \/ \E b \in {0, 1} : SetShow(b)

Save == SaveUnlink \/ SaveOpen \/ SaveOpenFails \/ SaveNewline \/ SaveLine \/ SaveDone

Quit == Exit \/ Leave \/ PowerOff \/ Start \/ StartFails

\* The editor has not been started; the file may be any other program's.
InitFrom(files) ==
    /\ file \in files
    /\ text = Blank
    /\ line_number = 0
    /\ changed = 0
    /\ auto_show = 1
    /\ cmds = <<>>
    /\ mode = "off"
    /\ savei = 1
    /\ beyond = Fresh
    /\ goal = Blank

Next == Edit \/ View \/ Save \/ Quit

-----------------------------------------------------------------------------
(* Properties. *)

\* Types of the editor's globals and of main()'s text[].
TypeOK ==
    /\ text \in [Slots -> Line \cup {NULL}]
    /\ line_number \in 0 .. (MAX_LINE_NUMBER - 1)
    /\ changed \in {0, 1} /\ auto_show \in {0, 1}
    /\ cmds \in Seq([op : {"ins", "mod"}, line : 1 .. (MAX_LINE_NUMBER + 1), content : Line])
    /\ Len(cmds) <= MAX_ROLLBAKC_STEP
    /\ file \in Seq(FileLine) \cup {NoFile}
    /\ mode \in Modes
    /\ savei \in 1 .. (MAX_LINE_NUMBER + 9)
    /\ beyond \in Beyond
    /\ goal \in [Slots -> Line \cup {NULL}]

Running == mode \notin Over \cup {"hung"}

\* The lines of an editor that answers are the slots up to line_number and no others
\* (the comment on line_number), whatever commands and undos were executed.
LinesContiguous ==
    Running => \A i \in Slots : (text[i] # NULL) <=> (i <= line_number + 1)

Saving == mode \in {"saving", "saving_exit"}

\* A file that a start will load has a line and nothing but lines, although
\* com_save() may write what it finds past a full table; and com_save() begins a
\* line in the file only for one it goes on to write.
FileSound ==
    /\ file # NoFile => /\ Len(file) > 0
                        /\ \A i \in Slots : i <= Len(file) => file[i] \in Line \cup HugeLine
    /\ Saving => file # NoFile /\ (Len(file) = savei => More)

\* A table that was full when it was loaded stays full: com_del() cannot make
\* place, it overwrites the last line or ends the editor.
StaysFull == Running /\ beyond.words # 1 => Full

\* The editor's own tables are sound after every command, also when its loops have
\* left a full table: no table overflows, the text has no gap, line_number and the
\* slots in use agree, and a save never runs past the words that follow text[].
TextInv == TypeOK /\ LinesContiguous /\ FileSound /\ StaysFull

\* When changed is 0 at the prompt, starting the editor again on the file gives
\* the text on the screen: there is nothing com_exit() should have saved.
UnchangedIsSaved ==
    mode \in {"prompt", "leaving"} /\ changed = 0 =>
        file # NoFile /\ Load(file) = text

\* com_save() removes the old file first.  From then until it has closed the new
\* one, and for good if the machine stops, the editor is killed or open() fails in
\* between, the file does not exist or holds the first lines of the text to be
\* saved, the last one maybe still empty, and nothing of the old text; at all
\* other times an editor that runs has its file.
SaveLeavesPrefix ==
    /\ goal # Blank /\ file # NoFile =>
          \A i \in Slots : i <= Len(file) =>
             file[i] = goal[i] \/ (i = Len(file) /\ file[i] = Empty)
    /\ mode \in {"unlinked", "unlinked_exit"} => file = NoFile /\ goal = text
    /\ Saving => /\ goal = text
                 /\ Len(file) \in {savei - 1, savei}
                 /\ \A i \in Slots : i < savei => file[i] = text[i]
                 /\ Len(file) = savei => file[savei] = Empty
    /\ Running /\ goal = Blank => file # NoFile

=============================================================================
