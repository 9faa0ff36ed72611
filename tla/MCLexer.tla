------------------------------ MODULE MCLexer -------------------------------
(* Texts for the lexer. *)
EXTENDS Lexicon

\* All texts over an alphabet, up to a length.
Over(alphabet, n) == UNION {[1 .. k -> alphabet] : k \in 0 .. n}

LexTexts ==
  Over({"0", ".", "e", "-", "+", "b"}, 6)
  \cup Over({"0", "x", "o", "e", "f", "."}, 5)
  \cup Over({"-", "+", "<", ">", "=", "/", "!", ":", ".", "("}, 4)
  \cup Over({"/", "*", "n", "a", "b"}, 7)
  \cup Over({"i", "f", "0", "b", "h1", "h2", "c", "n"}, 5)
  \cup Over({"@", "h1", "a", "n"}, 6)
  \cup Over({"/", "*", "n"}, 8)

=============================================================================
