------------------------------ MODULE MCInput ------------------------------
(* What the window passes on to the game: the gamepads and the text field.   *)
(* Neither reads or writes a variable of the other, so that instead of their *)
(* product a behaviour takes one of them.                                    *)
EXTENDS GamepadInput, TextInputHandler

\* The button both ways, and for each axis of the hat one way it can be reported.  The memory
\* of hatValues is all zeros or all ones.
MCReports == Presses \cup {<<{"left", "right"}, {"right"}>>, <<{"up", "down"}, {}>>}
MCGarbage == {{}, Directions}

VARIABLE taken    \* the part this behaviour takes

vars == <<padVars, textVars, taken>>

Init == PadInit /\ TextInit /\ \/ taken = "gamepads"
                               \/ taken = "text" /\ plugged = {}

\* A text field that is broken stays so.
Next ==
    \/ taken = "gamepads" /\ PadNext /\ UNCHANGED <<textVars, taken>>
    \/ taken = "text" /\ TextNext /\ UNCHANGED <<padVars, taken>>
    \/ broken /\ UNCHANGED vars

\* The game calls pollAll again and again.
Spec == Init /\ [][Next]_vars /\ WF_padVars(taken = "gamepads" /\ LooperStep)

=============================================================================
