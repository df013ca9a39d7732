-------------------------- MODULE TextInputHandler --------------------------
(***************************************************************************)
(* TextInputHandler, the text field of the game as the launcher keeps it:  *)
(* the text in UTF-8, the cursor as a byte and as a character position,    *)
(* and the other end of the selection.  Keys and text come from the        *)
(* window, the text itself from the game through MainActivity: from its    *)
(* own calls, or out of the callback that tells it of an edit.             *)
(***************************************************************************)
EXTENDS Integers, FiniteSets, SequencesExt

CONSTANTS
    Widths,      \* the lengths in bytes of the characters that are typed
    MaxBytes     \* the longest text, and the largest count

ASSUME TextAssumption == Widths \subseteq 1..4 /\ MaxBytes \in Nat

VARIABLES
    enabled, shiftPressed, ignoreNextHideKeyboard,
    field,       \* currentText, currentTextPosition, ...PositionUTF and ...CopyPosition
    miscounted,  \* currentTextPositionUTF counts a four byte character more than once
    broken       \* a position outside the text was used

textVars == <<enabled, shiftPressed, ignoreNextHideKeyboard, field, miscounted, broken>>

\* A byte is 0 if it continues a character, and the length of the character it begins.
Char(w) == <<w>> \o [i \in 1..(w - 1) |-> 0]
Continues(text, p) == text[p + 1] = 0
IsText(text) ==
    text = FlattenSeq([i \in DOMAIN text |-> IF text[i] = 0 THEN <<>> ELSE Char(text[i])])
Texts == {FlattenSeq([i \in DOMAIN ws |-> Char(ws[i])]) : ws \in SeqOf(Widths, 2)}

\* UTF8Util::getCharByteSize: a character of four bytes is not known.
getCharByteSize(b) == IF b \in {2, 3} THEN b ELSE 1

\* UTF8Util::getLength of the first len bytes.
getLength(text, len) ==
    LET from[i \in 0..(len + 3)] == IF i >= len THEN 0
                                    ELSE 1 + from[i + getCharByteSize(text[i + 1])]
    IN  from[0]

HasWide(text) == 4 \in ToSet(text)

TextInit ==
    /\ enabled = FALSE /\ shiftPressed = FALSE /\ ignoreNextHideKeyboard = FALSE
    /\ field = [text |-> <<>>, pos |-> 0, utf |-> 0, copy |-> 0]
    /\ miscounted = FALSE /\ broken = FALSE

\* The field, and miscounted with it, becomes f.
Set(f, wide) == field' = f /\ miscounted' = wide /\ UNCHANGED broken

-----------------------------------------------------------------------------
(* The game's calls *)

updated(text) == [text |-> text, pos |-> Len(text), utf |-> getLength(text, Len(text)),
                  copy |-> Len(text)]
cleared       == [text |-> <<>>, pos |-> 0, utf |-> 0, copy |-> 0]

\* MainActivity::showKeyboard: enable.
ShowKeyboard(text) ==
    /\ enabled' = TRUE /\ ignoreNextHideKeyboard' = FALSE
    /\ Set(updated(text), HasWide(text))
    /\ UNCHANGED shiftPressed

\* MainActivity::updateTextboxText: update.
UpdateTextboxText(text) ==
    /\ ignoreNextHideKeyboard' = TRUE
    /\ Set(updated(text), HasWide(text))
    /\ UNCHANGED <<enabled, shiftPressed>>

\* MainActivity::hideKeyboard: disable, unless it belongs to an update.
HideKeyboard ==
    /\ ignoreNextHideKeyboard' = FALSE
    /\ IF ignoreNextHideKeyboard THEN UNCHANGED <<enabled, field, miscounted, broken>>
       ELSE enabled' = FALSE /\ Set(cleared, FALSE)
    /\ UNCHANGED shiftPressed

\* MainActivity::getCursorPosition.
GetCursorPosition ==
    /\ ignoreNextHideKeyboard' = FALSE
    /\ UNCHANGED <<enabled, shiftPressed, field, miscounted, broken>>

-----------------------------------------------------------------------------
(* Editing *)

\* The end of the character that begins at p, and the beginning of the one that ends there.
After(text, p)  == CHOOSE q \in (p + 1)..Len(text) :
                       /\ q = Len(text) \/ ~Continues(text, q)
                       /\ \A r \in (p + 1)..(q - 1) : Continues(text, r)
Before(text, p) == CHOOSE q \in 0..(p - 1) :
                       /\ q = 0 \/ ~Continues(text, q)
                       /\ \A r \in (q + 1)..(p - 1) : Continues(text, r)

\* The text without its bytes from..to - 1.
Erased(text, from, to) == SubSeq(text, 1, from) \o SubSeq(text, to + 1, Len(text))

\* What onTextInput makes of the field before it calls textUpdateCallback.
Backspaced(f) == LET start == Before(f.text, f.pos)
                 IN  [f EXCEPT !.text = Erased(@, start, f.pos), !.pos = start, !.utf = @ - 1]
Deleted(f)    == [f EXCEPT !.text = Erased(@, f.pos, After(f.text, f.pos))]
Inserted(f, text) ==
    [f EXCEPT !.text = SubSeq(@, 1, f.pos) \o text \o SubSeq(@, f.pos + 1, Len(@)),
              !.pos = @ + Len(text), !.utf = @ + getLength(text, Len(text))]

\* Mutant: the position is taken before the callback.
AfterCallback_Stale(edited, f) == [f EXCEPT !.copy = edited.pos]

\* The last line of onTextInput, after the callback left f of the edited field.
AfterCallback(edited, f) == [f EXCEPT !.copy = f.pos]

\* textUpdateCallback tells the game, which may set another text or hide the keyboard before
\* it returns.
Edit(edited, wide) ==
    \/ /\ Set(AfterCallback(edited, edited), wide)
       /\ UNCHANGED <<enabled, ignoreNextHideKeyboard>>
    \/ \E text \in Texts :
          /\ Set(AfterCallback(edited, updated(text)), HasWide(text))
          /\ ignoreNextHideKeyboard' = TRUE
          /\ UNCHANGED enabled
    \/ /\ IF ignoreNextHideKeyboard
          THEN Set(AfterCallback(edited, edited), wide) /\ UNCHANGED enabled
          ELSE Set(AfterCallback(edited, cleared), FALSE) /\ enabled' = FALSE
       /\ ignoreNextHideKeyboard' = FALSE

\* Backspace.  The character position decides whether there is something to delete: if it is
\* too large, the byte position may be 0 and the byte before the text is looked at.
Backspace ==
    /\ enabled /\ field.utf > 0
    /\ IF field.pos = 0
       THEN broken' = TRUE /\ UNCHANGED <<enabled, ignoreNextHideKeyboard, field, miscounted>>
       ELSE Edit(Backspaced(field), miscounted)
    /\ UNCHANGED shiftPressed

Delete ==
    /\ enabled /\ field.pos < Len(field.text)
    /\ Edit(Deleted(field), miscounted)
    /\ UNCHANGED shiftPressed

\* Text is typed or pasted.  While the field is disabled it goes to the game as it is.
Insert(text) ==
    /\ enabled /\ Len(field.text) + Len(text) <= MaxBytes /\ field.utf <= MaxBytes
    /\ Edit(Inserted(field, text), miscounted \/ HasWide(text))
    /\ UNCHANGED shiftPressed

-----------------------------------------------------------------------------
(* TextInputHandler::onKeyPressed *)

Shift(down) ==
    /\ shiftPressed' = down
    /\ UNCHANGED <<enabled, ignoreNextHideKeyboard, field, miscounted, broken>>

Moved(f, pos, utf) == [f EXCEPT !.pos = pos, !.utf = utf,
                                !.copy = IF shiftPressed THEN @ ELSE pos]

\* The early returns at both ends leave the selection as it is.
Right ==
    /\ field.pos < Len(field.text)
    /\ Set(Moved(field, After(field.text, field.pos), field.utf + 1), miscounted)
Left ==
    /\ field.pos > 0
    /\ Set(Moved(field, Before(field.text, field.pos), field.utf - 1), miscounted)
Home == Set(Moved(field, 0, 0), FALSE)
End  == Set(Moved(field, Len(field.text), getLength(field.text, Len(field.text))),
                HasWide(field.text))

\* A key is pressed, or repeated; any other key, too, ends the selection.
OtherKey == Set(Moved(field, field.pos, field.utf), miscounted)
Key ==
    /\ Right \/ Left \/ Home \/ End \/ OtherKey
    /\ UNCHANGED <<enabled, shiftPressed, ignoreNextHideKeyboard>>

TextNext ==
    /\ ~broken
    /\ \/ \E text \in Texts : ShowKeyboard(text) \/ UpdateTextboxText(text) \/ Insert(text)
       \/ HideKeyboard \/ GetCursorPosition \/ Backspace \/ Delete
       \/ (\E down \in BOOLEAN : Shift(down)) \/ Key

-----------------------------------------------------------------------------
(* Properties *)

AtCharacter(p) == p \in 0..Len(field.text) /\ (p = Len(field.text) \/ ~Continues(field.text, p))

\* The cursor and the other end of the selection stand at the beginning of a character of
\* the text (so that getCopyText copies whole characters), and the position the game asks
\* for is the number of characters before the cursor: whatever was typed, deleted, selected
\* and replaced by the game meanwhile, from within the callback of an edit or outside of it.
\* Only a character of four bytes, which getLength counts as four, makes it too large; then
\* a backspace at the beginning goes on before the text.
CursorIsRight ==
    /\ IsText(field.text) /\ AtCharacter(field.pos) /\ AtCharacter(field.copy)
    /\ ~miscounted => /\ field.utf = Cardinality({i \in 1..field.pos : field.text[i] # 0})
                      /\ ~broken

=============================================================================
