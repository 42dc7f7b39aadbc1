------------------------------ MODULE MCTerminal ----------------------------
(* A console of three columns and two rows, lines of at most two           *)
(* characters after a prompt of two, and short texts: lines go from one    *)
(* row to the next, fill input_buffer, the screen is cleared at its bottom *)
(* in the middle of a line, and every kind of command is typed.  Two keys  *)
(* wait, so that their order matters, and the buffer fills.                *)
EXTENDS Terminal, TLC

MCPrompt == <<">", BLANK>>
MCReplies == <<"a">> :> <<"h", NEWLINE>>
MCClear == <<"b">>
MCReboot == <<"a", "b">>
MCRebooting == <<"r", NEWLINE>>
MCUnknown == <<"?">>
MCHint == <<>>
=============================================================================
