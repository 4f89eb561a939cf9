---------------------------- MODULE MCChatWindow ----------------------------
EXTENDS ChatWindow

\* Two texts can overtake one another, with a blank between them; the other stream
\* only ends, in between.
MCAnswer == [s \in Stream |-> IF s = 1 THEN <<"text", "blank", "text">> ELSE << >>]

\* Streams that only end.
MCNothing == [s \in Stream |-> << >>]
=============================================================================
