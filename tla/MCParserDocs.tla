---------------------------- MODULE MCParserDocs ----------------------------
(***************************************************************************)
(* Programs on which the parser and what docs/ says of it part ways.       *)
(***************************************************************************)
EXTENDS Parser

\* One program of the given token types; those at the positions of breaks
\* start a line.
Source(types, breaks) ==
  [i \in DOMAIN types |-> [type |-> types[i], nl |-> i \in breaks]]

\* A function without a name, and lists that the end of the file leaves open.
UnclosedStreams ==
  {Source(<<"func", "lparen", "rparen", "lbrace", "rbrace", "eof">>, {}),
   Source(<<"func", "id", "lparen", "id", "eof">>, {}),
   Source(<<"func", "id", "lparen", "rparen", "lbrace", "id", "lparen", "num",
            "eof">>, {})}

\* docs/TODO.md, Phase 3: error recovery is at minimum "report the first error
\* and exit".  So the parser comes to an end on whatever it is given.
ErrorsEndTheParse == <>Done
=============================================================================
