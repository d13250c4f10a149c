----------------------------- MODULE EditorUndo -----------------------------
(* Undo in the editor: com_rollback() against what each recorded command did. *)
(* The auxiliary variable past keeps, for every record of command_set[], the  *)
(* text before the command, what a modification wrote, and whether the record *)
(* can still restore that text.  No action of Editor depends on it.           *)
EXTENDS Editor

VARIABLE past

uvars == <<vars, past>>

\* A record can restore the text before it ("yes"), or it cannot because its
\* content was not kept: the old line was empty or too long, or a full table
\* lost its last line ("lost"); or because the text has since been changed by
\* commands that are not recorded, deletions only ("deleted") or any ("stale").
Entry(x, kept) == [text |-> text, wrote |-> x, kept |-> IF kept THEN "yes" ELSE "lost"]

Push(e) == past' = Append(IF Records < MAX_ROLLBAKC_STEP THEN past ELSE Tail(past), e)

AllStale(s) == [i \in DOMAIN s |-> [text |-> NULL, wrote |-> Empty, kept |-> "stale"]]

AllDeleted(s) ==
    [i \in DOMAIN s |->
        [s[i] EXCEPT !.text = NULL, !.kept = IF @ = "stale" THEN @ ELSE "deleted"]]

TrackIns(n) ==
    IF n <= 0 \/ n > Count(text) + 1 THEN UNCHANGED past
    ELSE IF FillsLast(n) THEN past' = AllStale(past)
    ELSE Push(Entry(Empty, Count(text) < MAX_LINE_NUMBER))

TrackMod(n, x) ==
    IF n <= 0 \/ n > Count(text) THEN UNCHANGED past
    ELSE Push(Entry(x, Recorded(text[n]) # Empty))

TrackDel(n) ==
    past' = IF mode' = "killed" THEN <<>>
            ELSE IF n <= 0 \/ n > Count(text) THEN past ELSE AllDeleted(past)

\* Older records stay usable only if this one restored its text.
TrackRollback ==
    past' = LET older == SubSeq(past, 1, Records - 1)
            IN  IF mode' = "killed" THEN <<>>
                ELSE IF text' = past[Records].text THEN older ELSE AllStale(older)

Insertion ==
    \E x \in Line :
        \/ \E n \in 0 .. (MAX_LINE_NUMBER + 2) : InsAt(n, x) /\ TrackIns(n)
        \/ InsLast(x) /\ TrackIns(line_number + 2)

Modification ==
    \E x \in Line :
        \/ \E n \in 0 .. (MAX_LINE_NUMBER + 2) : ModAt(n, x) /\ TrackMod(n, x)
        \/ ModLast(x) /\ TrackMod(line_number + 1, x)

Deletion ==
    \/ \E n \in 0 .. (MAX_LINE_NUMBER + 2), len8 \in BOOLEAN : DelAt(n, len8) /\ TrackDel(n)
    \/ DelLast /\ TrackDel(line_number + 1)

Rollback == (RollbackIns \/ \E x \in Line : RollbackMod(x)) /\ TrackRollback

UndoInit(files) == InitFrom(files) /\ past = <<>>

UndoNext ==
    \/ Insertion
    \/ Modification
    \/ Deletion
    \/ Rollback
    \/ InitFile /\ past' = AllStale(past)
    \/ (MallocFaults \/ PowerOff) /\ past' = <<>>
    \/ Start /\ past' = <<>>

-----------------------------------------------------------------------------

\* Undoing a record whose content was kept, with no unrecorded change since,
\* gives back exactly the text before the command, for every number of undos
\* in a row, except that an insertion into the last free slot cannot be undone.
UndoRestores ==
    [][ Rollback /\ past[Records].kept = "yes" /\ (Full => cmds[Records].op = "mod")
            => text' = past[Records].text ]_uvars

\* The lines of t without the one in slot k.
Without(t, k) ==
    [i \in Slots |-> IF i < k THEN t[i] ELSE IF i < MAX_LINE_NUMBER THEN t[i + 1] ELSE NULL]

\* An insertion into a table with a free slot adds one line and keeps all the
\* others in their order, also when it goes into an empty last line.
InsertAddsOneLine ==
    [][ text' # text /\ line_number + 1 < MAX_LINE_NUMBER /\ Insertion
            => \E k \in Slots : text'[k] # NULL /\ Without(text', k) = text ]_uvars

\* README: delete is not recorded and "the other function wouldn't be affected".
\* If what a modification wrote is still in the text, undoing it changes no
\* other line.
UndoHitsItsLine ==
    [][ Rollback /\ cmds[Records].op = "mod" /\ text' # text
            /\ past[Records].kept # "stale"
            /\ (\E i \in Slots : text[i] = past[Records].wrote)
                => text[cmds[Records].line] = past[Records].wrote ]_uvars
=============================================================================
