SPECIFICATION FairSpec
CONSTANTS
  Streams <- MCStreams
  Sentences <- MCSentences
  MaxErr = 1
  MaxWords = 5
  Operators = {"id", "sub", "mul", "cmp", "lparen", "rparen"}
  Brackets = {"id", "sub", "lparen", "rparen", "lbracket", "rbracket", "comma"}
  Edits = {"id", "comma", "rparen", "lbrace", "rbrace", "sub", "func", "rbracket"}
INVARIANTS
  TypeOK
  SentencesParse
  OnlySentencesParse
  StackBounded
PROPERTIES
  Answers
  SentencesEnd
\* The parser stops when the program is parsed.
CHECK_DEADLOCK FALSE
