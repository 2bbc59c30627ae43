--------------------------- MODULE CommandLineMC ---------------------------
(* All short lines of commands with arguments, and some lines with tabs,   *)
(* with the other commands, and longer than the buffer of six.             *)
EXTENDS CommandLineProps, TLC

CONSTANT MaxLine  \* characters of a short line, the newline not counted

MCLetters == {"b", "dbug", "show", "reg", "watch", "attach", "q"}
Short  == BoundedSeq({"b", "dbug", Blank}, MaxLine)
Others == {<<"b", Tab, "b">>, <<"b", Tab, Tab, "dbug">>, <<Tab, "dbug">>,
           <<"show">>, <<"show", "reg">>, <<"q">>, <<"watch">>, <<"attach">>,
           <<"watch", Blank, "b">>, <<"attach", Blank, "b">>}
Long   == {<<"b", Blank, "b", "b", "b", "dbug", Blank, "q">>,
           <<"dbug", Blank, "b", Blank, "b", Blank>>}
MCLines == {t \o <<Newline>> : t \in Short \cup Others \cup Long}
           \cup {<<"b", Blank>>, <<"dbug", Blank, "b">>}

MCSymbols == <<<<"b", "dbug">>, <<"b">>, <<"dbug">>>>
=============================================================================
