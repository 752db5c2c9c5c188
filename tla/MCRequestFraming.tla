-------------------------- MODULE MCRequestFraming ----------------------------
(***************************************************************************)
(* Small instances of RequestFraming for TLC.                              *)
(***************************************************************************)
EXTENDS RequestFraming, TLC

CONSTANTS MaxSent   \* the length of the longest stream

MCSymbols == {Blank, Paren, Keyword, "stats", Delimiter[1], Delimiter[2]}

\* Any symbols, and then nothing, a newline, more than the limit, or the delimiter
\* (again) and a newline.
MCStreams ==
    {s \o rest : s \in UNION {[1 .. n -> MCSymbols] : n \in 0 .. MaxSent},
                 rest \in {<<>>, <<Blank>>, <<Blank, Blank, Blank>>,
                           Delimiter \o <<Blank>>}}

\* No text, some text, half a delimiter, and text with a delimiter in it.
MCResults == {<<>>, <<"stats", "<E">>, <<Keyword>> \o Delimiter \o <<Paren>>}
=============================================================================
