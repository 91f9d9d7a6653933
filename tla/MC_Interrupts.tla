--------------------------- MODULE MC_Interrupts ----------------------------
EXTENDS Interrupts

\* Both control keys, the left alt key, and the delete key of the keypad.
Key(base, grey) == [base |-> base, grey |-> grey]
MCKeys == {Key(29, FALSE), Key(29, TRUE), Key(56, FALSE), Key(83, FALSE)}

\* Nothing masked; the mouse masked; the cascade masked.
MCMasks == {{}, {12}, {2}}
=============================================================================
