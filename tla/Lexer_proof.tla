---------------------------- MODULE Lexer_proof -----------------------------
(***************************************************************************)
(* That the tokens of any text are where they say, that they are its       *)
(* longest lexemes, and that lexemes between blanks are never reported.    *)
(***************************************************************************)
EXTENDS Lexicon, Induction, FiniteSetTheorems, SequenceTheorems

Place == 1 .. Len(text) + 1

\* The scanner is at p, which is in line l and column c.  At a line break the column
\* may be another, since a note does not count; no token begins there.
Here(p, l, c) ==
  /\ p \in Place
  /\ l = Cardinality(Breaks(p)) + 1
  /\ Plain(p) /\ Ch(p) \notin {"n", "eof"} => c = p - LineStart(p) - 1

Recorded(t) ==
  /\ t = [type |-> t.type, at |-> t.at, upto |-> t.upto, line |-> t.line, column |-> t.column]
  /\ t.at \in Place
  /\ t.line = Cardinality(Breaks(t.at)) + 1
  /\ Plain(t.at) /\ t.type # <<"eof">> => t.column = t.at - LineStart(t.at) - 1

Sequence(s) == \E T : s \in Seq(T)

LInv ==
  /\ text \in Texts /\ Sequence(toks)
  /\ ~errs => Here(ptr, line, column) /\ \A k \in DOMAIN toks : Recorded(toks[k])

-----------------------------------------------------------------------------
(* Places in the text. *)

LEMMA TextFacts ==
  ASSUME text \in Texts
  PROVE  /\ text \in Seq(Chars) /\ Len(text) \in Nat
         /\ \A k \in 1 .. Len(text) : text[k] \in Chars /\ Ch(k) = text[k]
         /\ \A k \in Nat \ {0} : Ch(k) # "eof" => k \in 1 .. Len(text) /\ text[k] = Ch(k)
         /\ "eof" \notin Chars /\ "eof" \notin High
<1>1. text \in Seq(Chars)
  BY TextsAssumption
<1>2. "eof" \notin Chars /\ "eof" \notin High
  BY DEF Chars, Letters, Digits, Blanks, High, Single, Calc, Signs
<1> QED
  BY <1>1, <1>2 DEF Ch

\* The last line break before a place.
LEMMA StartFacts ==
  ASSUME text \in Texts, NEW p \in Place
  PROVE  /\ LineStart(p) \in 0 .. p - 1
         /\ LineStart(p) # 0 => LineStart(p) \in Breaks(p)
         /\ \A j \in Breaks(p) : j <= LineStart(p)
         /\ IsFiniteSet(Breaks(p)) /\ Cardinality(Breaks(p)) \in Nat
<1>0. p \in Nat /\ p - 1 \in Nat /\ p - 1 >= 0
  BY TextFacts DEF Place
<1>1. Breaks(p) \in SUBSET (1 .. p - 1)
  BY DEF Breaks
<1>2. IsFiniteSet(Breaks(p)) /\ Cardinality(Breaks(p)) \in Nat
  <2>1. IsFiniteSet(1 .. p - 1)
    BY <1>0, FS_Interval
  <2> QED
    BY <1>1, <2>1, FS_Subset, FS_CardinalityType
<1>3. {0} \cup Breaks(p) \in SUBSET (0 .. p - 1)
  BY <1>0, <1>1
<1>4. \E m \in {0} \cup Breaks(p) : \A n \in {0} \cup Breaks(p) : n <= m
  BY <1>0, <1>3, Greatest
<1>5. LineStart(p) \in {0} \cup Breaks(p) /\ \A n \in {0} \cup Breaks(p) : LineStart(p) >= n
  <2>1. \E m \in {0} \cup Breaks(p) : \A n \in {0} \cup Breaks(p) : m >= n
    BY <1>0, <1>3, <1>4
  <2> QED
    BY <2>1, Zenon DEF LineStart, Max
<1> QED
  BY <1>0, <1>2, <1>3, <1>5

LEMMA StartIs ==
  ASSUME text \in Texts, NEW p \in Place, NEW m \in 0 .. p - 1,
         m # 0 => m \in Breaks(p), \A j \in Breaks(p) : j <= m
  PROVE  LineStart(p) = m
<1>1. m \in Int /\ LineStart(p) \in Int /\ LineStart(p) >= 0 /\ m >= 0
  BY StartFacts, TextFacts DEF Place
<1>2. m # 0 => m <= LineStart(p)
  BY StartFacts
<1>3. LineStart(p) # 0 => LineStart(p) <= m
  BY StartFacts
<1> QED
  BY <1>1, <1>2, <1>3

\* From p to q on one line.
LEMMA SameLine ==
  ASSUME text \in Texts, NEW p \in Place, NEW q \in Place, p <= q,
         \A j \in p .. q - 1 : text[j] # "n"
  PROVE  /\ Breaks(q) = Breaks(p) /\ LineStart(q) = LineStart(p)
         /\ Plain(q) => Plain(p) /\ \A j \in p .. q - 1 : text[j] \notin High
<1>0. p \in Nat /\ q \in Nat /\ p >= 1
  BY TextFacts DEF Place
<1>1. Breaks(q) = Breaks(p)
  BY <1>0 DEF Breaks
<1>2. LineStart(q) = LineStart(p)
  BY <1>1 DEF LineStart
<1>3. LineStart(p) \in Nat /\ LineStart(p) < p
  BY <1>0, StartFacts
<1>4. /\ \A j \in LineStart(p) + 1 .. p - 1 : j \in LineStart(q) + 1 .. q - 1
      /\ \A j \in p .. q - 1 : j \in LineStart(q) + 1 .. q - 1
  <2> DEFINE s == LineStart(p)
  <2>1. s \in Nat /\ s < p /\ LineStart(q) = s
    BY <1>2, <1>3
  <2> HIDE DEF s
  <2>2. (\A j \in s + 1 .. p - 1 : j \in s + 1 .. q - 1) /\ \A j \in p .. q - 1 : j \in s + 1 .. q - 1
    BY <1>0, <2>1
  <2> QED
    BY <2>1, <2>2 DEF s
<1> QED
  BY <1>1, <1>2, <1>4 DEF Plain

-----------------------------------------------------------------------------
(* Steps. *)

LEMMA SameText ==
  ASSUME text' = text
  PROVE  /\ Place' = Place
         /\ \A k : Breaks(k)' = Breaks(k) /\ Ch(k)' = Ch(k) /\ LineStart(k)' = LineStart(k)
         /\ \A k : Plain(k)' = Plain(k)
         /\ \A p, l, c : Here(p, l, c)' = Here(p, l, c)
         /\ \A t : Recorded(t)' = Recorded(t)
<1>1. Place' = Place /\ \A k : Breaks(k)' = Breaks(k) /\ Ch(k)' = Ch(k)
  BY DEF Place, Breaks, Ch
<1>2. \A k : LineStart(k)' = LineStart(k)
  BY <1>1 DEF LineStart
<1>3. \A k : Plain(k)' = Plain(k)
  BY <1>1, <1>2 DEF Plain
<1>4. \A p, l, c : Here(p, l, c)' = Here(p, l, c)
  BY <1>1, <1>2, <1>3 DEF Here
<1>5. \A t : Recorded(t)' = Recorded(t)
  BY <1>1, <1>2, <1>3 DEF Recorded
<1> QED
  BY <1>1, <1>2, <1>3, <1>4, <1>5

LEMMA Appended ==
  ASSUME Sequence(toks), NEW t, toks' = Append(toks, t)
  PROVE  /\ Sequence(toks)'
         /\ \A k \in DOMAIN toks' : (k \in DOMAIN toks /\ toks'[k] = toks[k]) \/ toks'[k] = t
<1>1. PICK T : toks \in Seq(T)
  BY DEF Sequence
<1>2. toks' \in Seq(T \cup {t})
  BY <1>1
<1> QED
  BY <1>1, <1>2 DEF Sequence

\* The scanner moves without a token.
LEMMA Moves ==
  ASSUME LInv, text' = text, toks' = toks, ~errs' => ~errs, ~errs' => Here(ptr', line', column')
  PROVE  LInv'
<1>1. Sequence(toks)'
  BY DEF LInv, Sequence
<1>2. ~errs' => Here(ptr, line, column)'
  BY SameText
<1>3. ~errs' => (\A k \in DOMAIN toks : Recorded(toks[k]))'
  BY SameText DEF LInv
<1> QED
  BY <1>1, <1>2, <1>3 DEF LInv

\* A token is added where the scanner is, or where one was.
LEMMA Adds ==
  ASSUME LInv, NEW t, text' = text, toks' = Append(toks, t), ~errs' => ~errs,
         ~errs' => Here(ptr', line', column') /\ Recorded(t)
  PROVE  LInv'
<1>1. /\ Sequence(toks)'
      /\ \A k \in DOMAIN toks' : (k \in DOMAIN toks /\ toks'[k] = toks[k]) \/ toks'[k] = t
  BY Appended DEF LInv
<1>2. ~errs' => Here(ptr, line, column)'
  BY SameText
<1>3. ~errs' => (\A k \in DOMAIN toks : Recorded(toks[k]))'
  BY <1>1, SameText DEF LInv
<1> QED
  BY <1>1, <1>2, <1>3 DEF LInv

\* From ptr up to next on one line, the column goes with the characters.
LEMMA Along ==
  ASSUME text \in Texts, Here(ptr, line, column), NEW next \in ptr .. Len(text) + 1,
         \A j \in ptr .. next - 1 : text[j] # "n", Ch(ptr) \notin {"n", "eof"}, NEW columns,
         (\A j \in ptr .. next - 1 : text[j] \notin High) => columns = next - ptr
  PROVE  Here(next, line, column + columns)
<1>1. ptr \in Place /\ next \in Place /\ ptr <= next /\ ptr \in Nat /\ next \in Nat
  BY TextFacts DEF Here, Place
<1>2. /\ Breaks(next) = Breaks(ptr) /\ LineStart(next) = LineStart(ptr)
      /\ Plain(next) => Plain(ptr) /\ \A j \in ptr .. next - 1 : text[j] \notin High
  BY <1>1, SameLine
<1>3. ASSUME Plain(next) PROVE column + columns = next - LineStart(next) - 1
  <2>1. columns = next - ptr /\ column = ptr - LineStart(ptr) - 1
    BY <1>2, <1>3 DEF Here
  <2>2. LineStart(ptr) \in Nat
    BY <1>1, StartFacts
  <2> QED
    BY <1>1, <1>2, <2>1, <2>2
<1> QED
  BY <1>1, <1>2, <1>3 DEF Here

\* A lexeme (lexer.cpp:164-331).
LEMMA Emits ==
  ASSUME LInv, NEW type, NEW next, NEW columns, NEW bad, NEW n, Emit(type, next, columns, bad, n),
         Ch(ptr) \notin {"n", "eof"},
         ~errs => \/ n > 0
                  \/ /\ next \in ptr .. Len(text) + 1
                     /\ \A j \in ptr .. next - 1 : text[j] # "n"
                     /\ (\A j \in ptr .. next - 1 : text[j] \notin High) => columns = next - ptr
  PROVE  LInv'
<1>1. ~errs' => ~errs /\ ~(n > 0)
  BY DEF Emit, Count
<1>2. ~errs' => Here(next, line, column + columns)
  BY <1>1, Along DEF LInv
<1>3. ~errs' => Recorded(Token(type, next))
  BY <1>1 DEF LInv, Here, Recorded, Token
<1>4. text' = text /\ toks' = Append(toks, Token(type, next)) /\ ptr' = next /\ line' = line
      /\ column' = column + columns
  BY DEF Emit
<1> QED
  BY <1>1, <1>2, <1>3, <1>4, Adds

LEMMA Lexemes ==
  ASSUME LInv, NEW type, NEW next, NEW bad, Lexeme(type, next, bad), Ch(ptr) \notin {"n", "eof"},
         ~errs => /\ next \in ptr .. Len(text) + 1
                  /\ \A j \in ptr .. next - 1 : text[j] # "n"
  PROVE  LInv'
<1>1. Emit(type, next, next - ptr, bad, 0)
  BY DEF Lexeme
<1> QED
  BY <1>1, Emits

\* One character that is no line break.
LEMMA OneOn ==
  ASSUME text \in Texts, Here(ptr, line, column), Ch(ptr) \notin {"n", "eof"}
  PROVE  ptr + 1 \in Place /\ Here(ptr + 1, line, column + 1)
<1>1. ptr \in Nat /\ ptr >= 1 /\ Len(text) \in Nat
  BY TextFacts DEF Here, Place
<1>2. ptr \in 1 .. Len(text) /\ text[ptr] # "n"
  BY <1>1, TextFacts
<1> DEFINE q == ptr + 1
<1>3. q \in ptr .. Len(text) + 1 /\ (\A j \in ptr .. q - 1 : text[j] # "n") /\ 1 = q - ptr
  BY <1>1, <1>2
<1> HIDE DEF q
<1>4. Here(q, line, column + 1)
  BY <1>3, Along
<1> QED
  BY <1>4 DEF Here, q

LEMMA BlankCounts ==
  ASSUME LInv, SkipBlank
  PROVE  LInv'
<1>1. text' = text /\ toks' = toks /\ errs' = errs /\ ptr' = ptr + 1
  BY DEF SkipBlank, Skips
<1>2. CASE Ch(ptr) # "n"
  <2>1. Ch(ptr) \notin {"n", "eof"} /\ line' = line /\ column' = column + 1
    BY <1>2 DEF SkipBlank, At, Blanks
  <2> QED
    BY <1>1, <2>1, OneOn, Moves DEF LInv
<1>3. CASE Ch(ptr) = "n"
  <2>1. line' = line + 1 /\ column' = 0
    BY <1>3 DEF SkipBlank
  <2>2. ASSUME ~errs PROVE Here(ptr + 1, line + 1, 0)
    <3>0. text \in Texts /\ ptr \in Place /\ ptr \in Nat /\ ptr >= 1
      BY <2>2, TextFacts DEF LInv, Here, Place
    <3>1. ptr \in 1 .. Len(text) /\ text[ptr] = "n" /\ ptr + 1 \in Place
      BY <1>3, <3>0, TextFacts DEF Place
    <3>2. Breaks(ptr + 1) = Breaks(ptr) \cup {ptr} /\ ptr \notin Breaks(ptr)
      BY <3>0, <3>1 DEF Breaks
    <3>3. Cardinality(Breaks(ptr + 1)) = Cardinality(Breaks(ptr)) + 1
      BY <3>0, <3>2, StartFacts, FS_AddElement
    <3>4. LineStart(ptr + 1) = ptr
      <4>1. \A j \in Breaks(ptr + 1) : j <= ptr
        BY <3>0 DEF Breaks
      <4>2. ptr \in 0 .. ptr + 1 - 1 /\ ptr \in Breaks(ptr + 1)
        BY <3>0, <3>2
      <4> QED
        BY <3>0, <3>1, <4>1, <4>2, StartIs
    <3>5. line = Cardinality(Breaks(ptr)) + 1 /\ Cardinality(Breaks(ptr)) \in Nat
      BY <2>2, <3>0, StartFacts DEF LInv, Here
    <3> QED
      BY <3>0, <3>1, <3>3, <3>4, <3>5 DEF Here
  <2> QED
    BY <1>1, <2>1, <2>2, Moves
<1> QED
  BY <1>2, <1>3

\* The first place from k on whose character is not in S.
LEMMA PastFacts ==
  ASSUME text \in Texts, NEW k \in Place, NEW S, "eof" \notin S
  PROVE  /\ Past(k, S) \in k .. Len(text) + 1 /\ Ch(Past(k, S)) \notin S
         /\ \A m \in k .. Past(k, S) - 1 : text[m] \in S
<1> DEFINE N == Len(text) + 1
           Outside == {j \in k .. N : Ch(j) \notin S}
           Right(j) == j \in k .. N /\ Ch(j) \notin S /\ \A m \in k .. j - 1 : text[m] \in S
<1>0. N \in Nat /\ k \in Nat /\ k >= 1 /\ k <= N /\ Len(text) \in Nat
  BY TextFacts DEF Place
<1>1. \E j \in k .. N : Right(j)
  <2>1. Outside \in SUBSET Nat
    BY <1>0
  <2>2. N \in Outside
    BY <1>0 DEF Ch
  <2>3. PICK j \in Outside : \A i \in Outside : j <= i
    <3> HIDE DEF Outside
    <3> QED
      BY <2>1, <2>2, Least
  <2>4. ASSUME NEW m \in k .. j - 1 PROVE text[m] \in S
    <3>1. m \in 1 .. Len(text) /\ m \in k .. N /\ ~(j <= m)
      BY <1>0, <2>3
    <3>2. m \notin Outside
      BY <2>3, <3>1
    <3> QED
      BY <3>1, <3>2, TextFacts
  <2> QED
    BY <2>3, <2>4
<1>2. Right(Past(k, S))
  BY <1>1, Zenon DEF Past
<1> QED
  BY <1>2

\* A note ends at a line break, or with the file.
LEMMA NoteCounts ==
  ASSUME LInv, SkipNote
  PROVE  LInv'
<1> DEFINE q == Past(ptr, Chars \ {"n"})
<1>1. text' = text /\ toks' = toks /\ (~errs' => ~errs) /\ ptr' = q /\ line' = line /\ column' = column
  BY DEF SkipNote, Skips, Count
<1>2. ASSUME ~errs PROVE Here(q, line, column)
  <2>1. text \in Texts /\ ptr \in Place
    BY <1>2 DEF LInv, Here
  <2>2. /\ q \in ptr .. Len(text) + 1 /\ Ch(q) \notin Chars \ {"n"}
        /\ \A m \in ptr .. q - 1 : text[m] \in Chars \ {"n"}
    <3>1. "eof" \notin Chars \ {"n"}
      BY <2>1, TextFacts
    <3> QED
      BY <2>1, <3>1, PastFacts, Zenon
  <2> HIDE DEF q
  <2>3. q \in Place /\ ptr <= q
    BY <2>1, <2>2, TextFacts DEF Place
  <2>4. Ch(q) \in {"n", "eof"}
    BY <2>1, <2>2, <2>3, TextFacts DEF Place, Ch
  <2>5. Breaks(q) = Breaks(ptr)
    BY <2>1, <2>2, <2>3, SameLine
  <2> QED
    BY <1>2, <2>3, <2>4, <2>5 DEF LInv, Here
<1> HIDE DEF q
<1> QED
  BY <1>1, <1>2, Moves

\* A comment may go over several lines; if one does, it ends with */, and began on a line
\* above (lexer.cpp:68-88).
LEMMA CommentCounts ==
  ASSUME LInv, SkipMultiLineComment
  PROVE  LInv'
<1> DEFINE N == Len(text)
           ends == {k \in ptr + 2 .. N - 1 : text[k] = "*" /\ text[k + 1] = "/"}
           end == CHOOSE k \in ends : \A j \in ends : k <= j
           next == IF ends # {} THEN end + 2 ELSE N + 1
           breaks == {k \in ptr + 2 .. next - 1 : text[k] = "n"}
<1>1. text' = text /\ toks' = toks /\ (~errs' => ~errs) /\ (~errs' => ends # {}) /\ IsComment
  BY DEF SkipMultiLineComment, Skips, Count
<1>3. ptr' = next /\ line' = line + CommentLines(ptr, next - 1)
  BY Zenon DEF SkipMultiLineComment, Skips
<1>4. ends # {} /\ breaks = {} => column' = column + (next - ptr)
  BY Zenon DEF SkipMultiLineComment
<1>2. ASSUME ~errs, ends # {}
      PROVE  Here(next, line + CommentLines(ptr, next - 1), column')
  <2>0. text \in Texts /\ ptr \in Place /\ ptr \in Nat /\ ptr >= 1 /\ N \in Nat /\ Here(ptr, line, column)
    BY <1>2, TextFacts DEF LInv, Here, Place
  <2>1. end \in ends
    <3>1. ends \in SUBSET Nat
      BY <2>0
    <3>2. PICK m \in ends : \A n \in ends : m <= n
      <4> HIDE DEF ends
      <4> QED
        BY <1>2, <3>1, Least
    <3> HIDE DEF ends
    <3> QED
      BY <3>2
  <2>2. end \in ptr + 2 .. N - 1 /\ text[end] = "*" /\ text[end + 1] = "/"
    BY <2>1
  <2>e. next = end + 2
    BY <1>2
  <2> HIDE DEF end, next
  <2>3. next \in Place /\ next \in Nat /\ next <= N + 1 /\ ptr + 3 < next /\ end + 1 \in 1 .. N
        /\ end = next - 2
    BY <2>0, <2>2, <2>e DEF Place
  <2>4. text[ptr] = "/" /\ text[ptr + 1] = "*" /\ ptr \in 1 .. N
        /\ Ch(ptr) \notin {"n", "eof"} /\ Ch(ptr + 1) = "*"
    <3>1. ptr \in 1 .. N /\ ptr + 1 \in 1 .. N
      BY <2>0, <2>2
    <3> QED
      BY <1>1, <2>0, <3>1, TextFacts DEF IsComment
  <2>5. CASE breaks = {}
    <3>1. \A j \in ptr .. next - 1 : text[j] # "n"
      <4>1. ASSUME NEW j \in ptr .. next - 1 PROVE text[j] # "n"
        <5>1. j = ptr \/ j = ptr + 1 \/ j \in ptr + 2 .. next - 1
          BY <2>0, <2>3
        <5> QED
          BY <2>4, <2>5, <5>1
      <4> QED
        BY <4>1
    <3>2. CommentLines(ptr, next - 1) = 0
      <4>1. {k \in ptr .. next - 1 : text[k] = "n"} = {}
        BY <3>1
      <4> QED
        BY <4>1, FS_EmptySet DEF CommentLines
    <3>3. next \in ptr .. Len(text) + 1
      BY <2>0, <2>3
    <3>4. Here(next, line, column + (next - ptr))
      BY <2>0, <2>4, <3>1, <3>3, Along
    <3>5. line + 0 = line
      BY <2>0, StartFacts DEF Here
    <3> QED
      BY <1>2, <1>4, <2>5, <3>2, <3>4, <3>5
  <2>6. CASE breaks # {}
    <3> DEFINE inside == {k \in ptr .. next - 1 : text[k] = "n"}
    <3>1. Cardinality(Breaks(next)) = Cardinality(Breaks(ptr)) + Cardinality(inside)
          /\ Cardinality(Breaks(ptr)) \in Nat /\ Cardinality(inside) \in Nat
      <4>1. Breaks(next) = Breaks(ptr) \cup inside /\ Breaks(ptr) \cap inside = {}
        BY <2>0, <2>3 DEF Breaks
      <4>2. IsFiniteSet(Breaks(ptr)) /\ Cardinality(Breaks(ptr)) \in Nat
        BY <2>0, StartFacts
      <4>3. IsFiniteSet(inside) /\ Cardinality(inside) \in Nat
        <5>1. IsFiniteSet(ptr .. next - 1)
          BY <2>0, <2>3, FS_Interval
        <5>2. inside \in SUBSET (ptr .. next - 1)
          OBVIOUS
        <5> QED
          BY <5>1, <5>2, FS_Subset, FS_CardinalityType
      <4> HIDE DEF inside
      <4>4. Cardinality(Breaks(ptr) \cup inside) =
              Cardinality(Breaks(ptr)) + Cardinality(inside) - Cardinality({})
        BY <4>1, <4>2, <4>3, FS_Union
      <4> QED
        BY <4>1, <4>2, <4>3, <4>4, FS_EmptySet
    <3>2. line + CommentLines(ptr, next - 1) = Cardinality(Breaks(next)) + 1
      <4>1. line = Cardinality(Breaks(ptr)) + 1 /\ CommentLines(ptr, next - 1) = Cardinality(inside)
        BY <2>0 DEF Here, CommentLines
      <4> QED
        BY <3>1, <4>1
    <3>3. PICK b \in breaks : TRUE
      BY <2>6
    <3>4. b \in ptr + 2 .. next - 1 /\ b \in Breaks(next)
      BY <2>0, <2>3 DEF Breaks
    <3> DEFINE start == LineStart(next)
    <3>5. start \in Nat /\ b <= start /\ start \in Breaks(next) /\ start <= next - 1
      <4>1. start \in 0 .. next - 1 /\ b <= start /\ (start # 0 => start \in Breaks(next))
        BY <2>0, <2>3, <3>4, StartFacts
      <4> QED
        BY <2>0, <2>3, <3>4, <4>1
    <3>6. ~Plain(next)
      <4> HIDE DEF start
      <4>1. text[start] = "n"
        BY <3>5 DEF Breaks
      <4>2. start # end /\ start # end + 1 /\ end \in Nat
        BY <2>2, <2>3, <4>1
      <4>3. end \in start + 1 .. next - 1
        BY <2>3, <3>5, <4>2
      <4>4. Ch(end + 1) = "/"
        BY <2>0, <2>2, <2>3, TextFacts
      <4>5. ptr \in 1 .. start
        BY <2>0, <2>3, <3>4, <3>5
      <4> QED
        BY <2>2, <2>4, <4>3, <4>4, <4>5 DEF Plain, start
    <3> QED
      BY <2>3, <3>2, <3>6 DEF Here
  <2> QED
    BY <2>5, <2>6
<1> HIDE DEF ends, next, breaks
<1> QED
  BY <1>1, <1>2, <1>3, Moves

\* A lexeme of up to three characters, none of which is a line break.
LEMMA Short ==
  ASSUME LInv, ~errs, NEW next, Ch(ptr) \notin {"n", "eof"},
         \/ next = ptr + 1
         \/ next = ptr + 2 /\ Ch(ptr + 1) \notin {"n", "eof"}
         \/ next = ptr + 3 /\ Ch(ptr + 1) \notin {"n", "eof"} /\ Ch(ptr + 2) \notin {"n", "eof"}
  PROVE  next \in ptr .. Len(text) + 1 /\ \A j \in ptr .. next - 1 : text[j] # "n"
<1>1. text \in Texts /\ ptr \in Nat /\ ptr >= 1 /\ Len(text) \in Nat
  BY TextFacts DEF LInv, Here, Place
<1>2. ptr \in 1 .. Len(text) /\ text[ptr] # "n"
  BY <1>1, TextFacts
<1>3. CASE next = ptr + 1
  BY <1>1, <1>2, <1>3
<1>4. CASE next = ptr + 2 /\ Ch(ptr + 1) \notin {"n", "eof"}
  <2>1. ptr + 1 \in 1 .. Len(text) /\ text[ptr + 1] # "n"
    BY <1>1, <1>4, TextFacts
  <2>2. \A j \in ptr .. next - 1 : j = ptr \/ j = ptr + 1
    BY <1>1, <1>4
  <2> QED
    BY <1>1, <1>2, <1>4, <2>1, <2>2
<1>5. CASE next = ptr + 3 /\ Ch(ptr + 1) \notin {"n", "eof"} /\ Ch(ptr + 2) \notin {"n", "eof"}
  <2>1. ptr + 1 \in 1 .. Len(text) /\ text[ptr + 1] # "n" /\ ptr + 2 \in 1 .. Len(text) /\ text[ptr + 2] # "n"
    BY <1>1, <1>5, TextFacts
  <2>2. \A j \in ptr .. next - 1 : j = ptr \/ j = ptr + 1 \/ j = ptr + 2
    BY <1>1, <1>5
  <2> QED
    BY <1>1, <1>2, <1>5, <2>1, <2>2
<1> QED
  BY <1>3, <1>4, <1>5

LEMMA OperatorsCount ==
  ASSUME LInv, ArrowGen \/ SingleOpr \/ Dots \/ Colons \/ CalcOpr
  PROVE  LInv'
<1>1. CASE ArrowGen
  <2>1. Ch(ptr) \notin {"n", "eof"} /\ Ch(ptr + 1) \notin {"n", "eof"}
    BY <1>1 DEF ArrowGen, IsArrow
  <2>2. Lexeme(Type(Word(ptr, ptr + 2)), ptr + 2, FALSE)
    BY <1>1 DEF ArrowGen
  <2> QED
    BY <2>1, <2>2, Short, Lexemes
<1>2. CASE SingleOpr
  <2>1. Ch(ptr) \notin {"n", "eof"}
    BY <1>2 DEF SingleOpr, At, Single
  <2>2. Lexeme(Type(<<Ch(ptr)>>), ptr + 1, FALSE)
    BY <1>2 DEF SingleOpr
  <2> QED
    BY <2>1, <2>2, Short, Lexemes
<1>3. CASE Dots
  <2> DEFINE next == IF Ch(ptr + 1) = "." /\ Ch(ptr + 2) = "." THEN ptr + 3 ELSE ptr + 1
  <2>1. Ch(ptr) \notin {"n", "eof"}
    BY <1>3 DEF Dots, At
  <2>2. Lexeme(Type(Word(ptr, next)), next, FALSE)
    BY <1>3 DEF Dots
  <2>3. \/ next = ptr + 1
        \/ next = ptr + 3 /\ Ch(ptr + 1) \notin {"n", "eof"} /\ Ch(ptr + 2) \notin {"n", "eof"}
    OBVIOUS
  <2> HIDE DEF next
  <2> QED
    BY <2>1, <2>2, <2>3, Short, Lexemes
<1>4. CASE Colons
  <2> DEFINE next == IF Ch(ptr + 1) = ":" THEN ptr + 2 ELSE ptr + 1
  <2>1. Ch(ptr) \notin {"n", "eof"}
    BY <1>4 DEF Colons, At
  <2>2. Lexeme(Type(Word(ptr, next)), next, FALSE)
    BY <1>4 DEF Colons
  <2>3. next = ptr + 1 \/ (next = ptr + 2 /\ Ch(ptr + 1) \notin {"n", "eof"})
    OBVIOUS
  <2> HIDE DEF next
  <2> QED
    BY <2>1, <2>2, <2>3, Short, Lexemes
<1>5. CASE CalcOpr
  <2> DEFINE next == CalcEnd(ptr)
  <2>1. Ch(ptr) \notin {"n", "eof"}
    BY <1>5 DEF CalcOpr, At, Calc, Signs
  <2>2. Lexeme(Type(Word(ptr, next)), next, Type(Word(ptr, next)) = Null)
    BY <1>5 DEF CalcOpr
  <2>3. next = ptr + 1 \/ (next = ptr + 2 /\ Ch(ptr + 1) \notin {"n", "eof"})
    BY DEF CalcEnd
  <2> HIDE DEF next
  <2> QED
    BY <2>1, <2>2, <2>3, Short, Lexemes
<1> QED
  BY <1>1, <1>2, <1>3, <1>4, <1>5

-----------------------------------------------------------------------------
(* Numbers. *)

\* From p to q is no line break.
Clear(p, q) == q \in p .. Len(text) + 1 /\ \A j \in p .. q - 1 : text[j] # "n"

LEMMA ClearThen ==
  ASSUME text \in Texts, NEW p \in Place, NEW q, NEW r, Clear(p, q), Clear(q, r)
  PROVE  Clear(p, r)
<1>1. p \in Nat /\ q \in Nat /\ r \in Nat /\ p <= q /\ q <= r /\ r <= Len(text) + 1 /\ Len(text) \in Nat
  BY TextFacts DEF Place, Clear
<1>2. ASSUME NEW j \in p .. r - 1 PROVE text[j] # "n"
  <2>1. j \in p .. q - 1 \/ j \in q .. r - 1
    BY <1>1
  <2> QED
    BY <2>1 DEF Clear
<1> QED
  BY <1>1, <1>2 DEF Clear

LEMMA ClearOne ==
  ASSUME text \in Texts, NEW p \in Nat \ {0}, Ch(p) \notin {"n", "eof"}
  PROVE  Clear(p, p + 1) /\ p \in Place /\ p + 1 \in Place
<1>1. p \in 1 .. Len(text) /\ text[p] # "n" /\ Len(text) \in Nat
  BY TextFacts
<1>2. p + 1 \in p .. Len(text) + 1 /\ \A j \in p .. p + 1 - 1 : j = p
  BY <1>1
<1> QED
  BY <1>1, <1>2 DEF Clear, Place

LEMMA ClearDigits ==
  ASSUME text \in Texts, NEW p \in Place
  PROVE  Clear(p, Past(p, Digits)) /\ Past(p, Digits) \in Place
<1>1. "eof" \notin Digits /\ "n" \notin Digits
  BY DEF Digits
<1>2. /\ Past(p, Digits) \in p .. Len(text) + 1
      /\ \A m \in p .. Past(p, Digits) - 1 : text[m] \in Digits
  BY <1>1, PastFacts
<1>3. Past(p, Digits) \in Place
  BY <1>2, TextFacts DEF Place
<1> QED
  BY <1>1, <1>2, <1>3 DEF Clear

LEMMA ClearFraction ==
  ASSUME text \in Texts, NEW p \in Place
  PROVE  Clear(p, Fraction(p)) /\ Fraction(p) \in Place
<1>1. CASE Ch(p) = "."
  <2>1. Clear(p, p + 1) /\ p + 1 \in Place
    BY <1>1, ClearOne, TextFacts DEF Place
  <2>2. Clear(p + 1, Past(p + 1, Digits)) /\ Past(p + 1, Digits) \in Place
    BY <2>1, ClearDigits
  <2>3. Clear(p, Past(p + 1, Digits))
    BY <2>1, <2>2, ClearThen
  <2>4. Clear(p, p)
    BY TextFacts DEF Clear, Place
  <2> QED
    BY <2>2, <2>3, <2>4 DEF Fraction
<1>2. CASE Ch(p) # "."
  BY <1>2, TextFacts DEF Fraction, Clear, Place
<1> QED
  BY <1>1, <1>2

LEMMA NumbersCount ==
  ASSUME LInv, NumGen
  PROVE  LInv'
<1> DEFINE whole == Past(ptr, Digits)
           fraction == Fraction(whole)
           sign == IF Ch(fraction + 1) \in Signs THEN fraction + 2 ELSE fraction + 1
           exponent == Past(sign, Digits)
<1>1. Ch(ptr) \notin {"n", "eof"}
  BY DEF NumGen, At, Digits
<1>2. \/ Ch(fraction) = "e" /\ Lexeme(<<"num">>, exponent, exponent = sign)
      \/ Lexeme(<<"num">>, fraction, FALSE)
  BY DEF NumGen
<1>3. ASSUME ~errs
      PROVE  Clear(ptr, fraction) /\ (Ch(fraction) = "e" => Clear(ptr, exponent))
  <2>1. text \in Texts /\ ptr \in Place
    BY <1>3 DEF LInv, Here
  <2>2. Clear(ptr, whole) /\ whole \in Place
    BY <2>1, ClearDigits
  <2>3. Clear(whole, fraction) /\ fraction \in Place
    BY <2>1, <2>2, ClearFraction
  <2>4. Clear(ptr, fraction)
    BY <2>1, <2>2, <2>3, ClearThen
  <2> HIDE DEF whole, fraction
  <2>5. ASSUME Ch(fraction) = "e" PROVE Clear(ptr, exponent)
    <3>1. Clear(fraction, fraction + 1) /\ fraction + 1 \in Place /\ fraction \in Nat
      BY <2>1, <2>3, <2>5, ClearOne, TextFacts DEF Place
    <3>2. Clear(ptr, fraction + 1)
      BY <2>1, <2>4, <3>1, ClearThen
    <3>3. CASE Ch(fraction + 1) \in Signs
      <4>1. fraction + 1 + 1 = fraction + 2 /\ fraction + 1 \in Nat \ {0}
        BY <3>1
      <4>2. Clear(fraction + 1, sign) /\ sign \in Place
        BY <2>1, <3>1, <3>3, <4>1, ClearOne DEF Signs
      <4> HIDE DEF sign
      <4>3. Clear(sign, exponent)
        BY <2>1, <4>2, ClearDigits
      <4>4. Clear(ptr, sign)
        BY <2>1, <3>2, <4>2, ClearThen
      <4> QED
        BY <2>1, <4>3, <4>4, ClearThen
    <3>4. CASE Ch(fraction + 1) \notin Signs
      <4>1. sign = fraction + 1
        BY <3>4
      <4> HIDE DEF sign
      <4>2. Clear(sign, exponent)
        BY <2>1, <3>1, <4>1, ClearDigits
      <4> QED
        BY <2>1, <3>2, <4>1, <4>2, ClearThen
    <3> QED
      BY <3>3, <3>4
  <2> QED
    BY <2>4, <2>5
<1> HIDE DEF fraction, exponent
<1>4. CASE Ch(fraction) = "e" /\ Lexeme(<<"num">>, exponent, exponent = sign)
  <2>1. ~errs => exponent \in ptr .. Len(text) + 1 /\ \A j \in ptr .. exponent - 1 : text[j] # "n"
    BY <1>3, <1>4 DEF Clear
  <2> QED
    BY <1>1, <1>4, <2>1, Lexemes
<1>5. CASE Lexeme(<<"num">>, fraction, FALSE)
  <2>1. ~errs => fraction \in ptr .. Len(text) + 1 /\ \A j \in ptr .. fraction - 1 : text[j] # "n"
    BY <1>3 DEF Clear
  <2> QED
    BY <1>1, <1>5, <2>1, Lexemes
<1> QED
  BY <1>2, <1>4, <1>5

-----------------------------------------------------------------------------
(* Identifiers. *)

\* What an identifier does from p on depends on what it does behind p.
LEMMA RestReads ==
  ASSUME text \in Texts, NEW p \in 1 .. Len(text) + 3, NEW f, NEW g,
         \A q \in p + 1 .. Len(text) + 3 : f[q] = g[q]
  PROVE  RestAt(f, p) = RestAt(g, p)
<1>1. p \in Nat \ {0} /\ Len(text) \in Nat
  BY TextFacts
<1>2. CASE Ch(p) \in Letters \cup Digits
  <2>1. p \in 1 .. Len(text) /\ Ch(p) \notin High /\ Announced(Ch(p)) = 0
    BY <1>1, <1>2, TextFacts DEF Letters, Digits, High, Announced
  <2>2. f[p + 1 + Announced(Ch(p))] = g[p + 1 + Announced(Ch(p))]
    BY <1>1, <2>1
  <2> QED
    BY <1>2, <2>2, Zenon DEF RestAt, InWord
<1>3. CASE Ch(p) \in High
  <2>1. p \in 1 .. Len(text) /\ Ch(p) \notin Letters \cup Digits /\ Announced(Ch(p)) \in 0 .. 2
    BY <1>1, <1>3, TextFacts DEF Letters, Digits, High, Utf8Hdchk, Announced
  <2>2. f[p + 1 + Announced(Ch(p))] = g[p + 1 + Announced(Ch(p))]
    BY <1>1, <2>1
  <2> QED
    BY <1>3, <2>1, <2>2, Zenon DEF RestAt, InWord
<1>4. CASE Ch(p) \notin Letters \cup Digits /\ Ch(p) \notin High
  BY <1>4, Zenon DEF RestAt, InWord
<1> QED
  BY <1>2, <1>3, <1>4

LEMMA RestExists ==
  ASSUME text \in Texts
  PROVE  \E f : f = [p \in 1 .. Len(text) + 3 |-> RestAt(f, p)]
<1> DEFINE N == Len(text) + 3
           From(a, f) == f = [p \in a .. N |-> RestAt(f, p)]
           Known == {a \in 1 .. N + 1 : \E f : From(a, f)}
<1>0. N \in Nat /\ N >= 3
  BY TextFacts
<1>1. N + 1 \in Known
  <2>1. N + 1 .. N = {}
    BY <1>0
  <2> DEFINE none == [p \in N + 1 .. N |-> 0]
  <2>2. From(N + 1, none)
    BY <2>1
  <2> QED
    BY <1>0, <2>2
<1>2. PICK a \in Known : \A b \in Known : a <= b
  <2>1. Known \in SUBSET Nat
    BY <1>0
  <2> HIDE DEF Known
  <2> QED
    BY <1>1, <2>1, Least
<1>3. a = 1
  <2> SUFFICES ASSUME a # 1 PROVE FALSE
    OBVIOUS
  <2>0. a \in 1 .. N + 1 /\ a - 1 \in 1 .. N
    BY <1>0, <1>2
  <2>1. PICK f : From(a, f)
    BY <1>2
  <2> DEFINE g == [p \in a - 1 .. N |-> RestAt(f, p)]
  <2>2. \A q \in a .. N : f[q] = g[q]
    <3>1. \A q \in a .. N : f[q] = RestAt(f, q)
      BY <2>1
    <3>2. \A q \in a .. N : q \in a - 1 .. N
      BY <1>0, <2>0
    <3> QED
      BY <3>1, <3>2
  <2> HIDE DEF g
  <2>3. ASSUME NEW p \in a - 1 .. N PROVE RestAt(f, p) = RestAt(g, p)
    <3>1. p \in 1 .. Len(text) + 3 /\ \A q \in p + 1 .. Len(text) + 3 : q \in a .. N
      BY <1>0, <2>0
    <3> QED
      BY <2>2, <3>1, RestReads
  <2>4. From(a - 1, g)
    <3>1. g = [p \in a - 1 .. N |-> RestAt(f, p)]
      BY DEF g
    <3> QED
      BY <2>3, <3>1
  <2>5. a - 1 \in Known /\ ~(a <= a - 1)
    BY <1>0, <2>0, <2>4
  <2> HIDE DEF Known
  <2> QED
    BY <1>2, <2>5
<1> QED
  BY <1>2, <1>3

LEMMA RestIs ==
  ASSUME text \in Texts, NEW p \in 1 .. Len(text) + 3
  PROVE  Rest[p] = RestAt(Rest, p)
<1>1. Rest = [q \in 1 .. Len(text) + 3 |-> RestAt(Rest, q)]
  BY RestExists, Zenon DEF Rest
<1> QED
  BY <1>1

\* A word that is not broken stays on its line; it takes one column for each character if
\* all have one byte.
WordFrom(p, r) ==
  /\ r = [next |-> r.next, columns |-> r.columns, name |-> r.name, broken |-> r.broken]
  /\ r.broken \in Nat
  /\ p \in Place /\ r.broken = 0 =>
       /\ Clear(p, r.next)
       /\ (\A j \in p .. r.next - 1 : text[j] \notin High) => r.columns = r.next - p

LEMMA RestStep ==
  ASSUME text \in Texts, NEW p \in 1 .. Len(text) + 3,
         \A q \in p + 1 .. Len(text) + 3 : WordFrom(q, Rest[q])
  PROVE  WordFrom(p, Rest[p])
<1>1. p \in Nat \ {0} /\ Len(text) \in Nat
  BY TextFacts
<1>2. CASE Ch(p) \in Letters \cup Digits
  <2> DEFINE r == Rest[p + 1]
             s == Rest[p]
  <2>1. /\ p \in 1 .. Len(text) /\ Ch(p) \notin High /\ text[p] \notin High
        /\ Ch(p) \notin {"n", "eof"} /\ Announced(Ch(p)) = 0
    BY <1>1, <1>2, TextFacts DEF Letters, Digits, High, Announced
  <2>2. s = [r EXCEPT !.columns = @ + 1, !.name = <<Ch(p)>> \o @]
    <3>1. Rest[p + 1 + Announced(Ch(p))] = r
      BY <1>1, <2>1
    <3> QED
      BY <1>2, <2>1, <3>1, RestIs DEF RestAt, InWord
  <2>3. WordFrom(p + 1, r) /\ Clear(p, p + 1) /\ p \in Place /\ p + 1 \in Place
    BY <1>1, <2>1, ClearOne
  <2> HIDE DEF r, s
  <2>4. /\ s = [next |-> s.next, columns |-> s.columns, name |-> s.name, broken |-> s.broken]
        /\ s.next = r.next /\ s.columns = r.columns + 1 /\ s.broken = r.broken
    BY <2>2, <2>3 DEF WordFrom
  <2>5. ASSUME r.broken = 0
        PROVE  /\ Clear(p, r.next)
               /\ (\A j \in p .. r.next - 1 : text[j] \notin High) => r.columns + 1 = r.next - p
    <3>1. Clear(p + 1, r.next) /\ r.next \in Nat
      BY <2>3, <2>5, TextFacts DEF WordFrom, Clear, Place
    <3>2. Clear(p, r.next)
      BY <2>3, <3>1, ClearThen
    <3>3. \A j \in p + 1 .. r.next - 1 : j \in p .. r.next - 1
      BY <1>1, <3>1
    <3>4. r.columns = r.next - (p + 1) => r.columns + 1 = r.next - p
      BY <1>1, <3>1
    <3> QED
      BY <2>3, <2>5, <3>2, <3>3, <3>4 DEF WordFrom
  <2> QED
    BY <2>3, <2>4, <2>5 DEF WordFrom, s
<1>3. CASE Ch(p) \in High
  <2> DEFINE n == Announced(Ch(p))
             found == {k \in 1 .. n : Ch(p + k) = "c"}
             r == Rest[p + 1 + n]
             s == Rest[p]
             short == IF found = 1 .. n THEN 0 ELSE 1
             bytes == [k \in 1 .. Cardinality(found) |-> "c"]
  <2>1. p \in 1 .. Len(text) /\ Ch(p) \notin Letters \cup Digits /\ text[p] \in High /\ n \in 0 .. 2
        /\ Ch(p) \notin {"n", "eof"}
    BY <1>1, <1>3, TextFacts DEF Letters, Digits, High, Utf8Hdchk, Announced
  <2>2. s = IF n = 0 THEN [r EXCEPT !.columns = @ + 1]
            ELSE [r EXCEPT !.columns = @ + 2 + short, !.name = <<Ch(p)>> \o bytes \o @,
                           !.broken = @ + short]
    <3>1. n = 0 \/ n > 0
      BY <2>1
    <3>r. s = RestAt(Rest, p)
      BY RestIs
    <3>2. CASE n = 0
      <4>0. ~(n > 0)
        BY <3>2
      <4>1. RestAt(Rest, p) = [r EXCEPT !.columns = @ + 1]
        BY <1>3, <2>1, <3>2, <4>0, Zenon DEF RestAt, InWord
      <4> QED
        BY <3>r, <3>2, <4>1, Zenon
    <3>3. CASE n > 0
      <4>1. n # 0
        BY <2>1, <3>3
      <4>2. RestAt(Rest, p) = [r EXCEPT !.columns = @ + 2 + short, !.name = <<Ch(p)>> \o bytes \o @,
                                        !.broken = @ + short]
        BY <1>3, <2>1, <3>3, <4>1, Zenon DEF RestAt, InWord
      <4> QED
        BY <3>r, <4>1, <4>2, Zenon
    <3> QED
      BY <3>1, <3>2, <3>3
  <2>3. WordFrom(p + 1 + n, r)
    BY <1>1, <2>1
  <2>4. found = 1 .. n => Clear(p, p + 1 + n)
    <3>1. Clear(p, p + 1)
      BY <1>1, <2>1, ClearOne
    <3>2. ASSUME found = 1 .. n, NEW j \in p + 1 .. p + n PROVE j \in 1 .. Len(text) /\ text[j] # "n"
      <4>1. j - p \in 1 .. n /\ p + (j - p) = j /\ j \in Nat \ {0}
        BY <1>1, <2>1
      <4>2. Ch(p + (j - p)) = "c"
        BY <3>2, <4>1
      <4> QED
        BY <4>1, <4>2, TextFacts
    <3>3. ASSUME found = 1 .. n PROVE p + 1 + n \in p .. Len(text) + 1
      <4>1. n = 0 \/ p + n \in p + 1 .. p + n
        BY <1>1, <2>1
      <4>2. n = 0 \/ p + n \in 1 .. Len(text)
        BY <3>2, <3>3, <4>1
      <4> QED
        BY <1>1, <2>1, <4>2
    <3> DEFINE e == p + 1 + n
    <3>4. \A j \in p .. e - 1 : j = p \/ j \in p + 1 .. p + n
      BY <1>1, <2>1
    <3>5. text[p] # "n"
      BY <2>1 DEF High
    <3>6. found = 1 .. n => (\A j \in p .. e - 1 : text[j] # "n") /\ e \in p .. Len(text) + 1
      <4> HIDE DEF found
      <4>1. ASSUME found = 1 .. n, NEW j \in p .. e - 1 PROVE text[j] # "n"
        BY <3>2, <3>4, <3>5, <4>1
      <4>2. found = 1 .. n => e \in p .. Len(text) + 1
        BY <3>3
      <4> QED
        BY <4>1, <4>2
    <3> HIDE DEF e, found
    <3>7. found = 1 .. n => Clear(p, e)
      BY <3>6 DEF Clear
    <3> QED
      BY <3>7 DEF e
  <2>5. short \in {0, 1} /\ (short = 0 => found = 1 .. n) /\ (n = 0 => found = 1 .. n)
    BY <2>1
  <2> HIDE DEF n, found, r, s, short, bytes
  <2>6. /\ s = [next |-> s.next, columns |-> s.columns, name |-> s.name, broken |-> s.broken]
        /\ s.next = r.next /\ s.broken = IF n = 0 THEN r.broken ELSE r.broken + short
    BY <2>2, <2>3 DEF WordFrom
  <2>7. r.broken \in Nat /\ s.broken \in Nat /\ (s.broken = 0 => r.broken = 0 /\ found = 1 .. n)
    BY <2>3, <2>5, <2>6 DEF WordFrom
  <2>8. ASSUME s.broken = 0 PROVE Clear(p, s.next) /\ p \in p .. s.next - 1
    <3>1. Clear(p, p + 1 + n) /\ r.broken = 0
      BY <2>4, <2>7, <2>8
    <3>2. p + 1 + n \in Place /\ p \in Place
      BY <1>1, <2>1, <3>1 DEF Clear, Place
    <3>3. Clear(p + 1 + n, r.next)
      BY <2>3, <3>1, <3>2 DEF WordFrom
    <3>4. Clear(p, r.next)
      BY <3>1, <3>2, <3>3, ClearThen
    <3>5. p \in p .. r.next - 1
      BY <1>1, <2>1, <3>3 DEF Clear
    <3> QED
      BY <2>6, <3>4, <3>5
  <2> QED
    BY <2>1, <2>6, <2>7, <2>8 DEF WordFrom, s
<1>4. CASE Ch(p) \notin Letters \cup Digits /\ Ch(p) \notin High
  <2>1. Rest[p] = [next |-> p, columns |-> 0, name |-> << >>, broken |-> 0]
    BY <1>4, RestIs, Zenon DEF RestAt, InWord
  <2> QED
    BY <1>1, <2>1 DEF WordFrom, Clear, Place
<1> QED
  BY <1>2, <1>3, <1>4

LEMMA RestFacts ==
  ASSUME text \in Texts, NEW p \in Place
  PROVE  WordFrom(p, Rest[p])
<1> DEFINE N == Len(text) + 3
           Bad == {q \in 1 .. N : ~WordFrom(q, Rest[q])}
<1>0. N \in Nat /\ p \in 1 .. N
  BY TextFacts DEF Place
<1>1. Bad = {}
  <2> SUFFICES ASSUME Bad # {} PROVE FALSE
    OBVIOUS
  <2>1. PICK b \in Bad : \A q \in Bad : q <= b
    <3>1. Bad \in SUBSET (0 .. N)
      BY <1>0
    <3> HIDE DEF Bad
    <3> QED
      BY <1>0, <3>1, Greatest
  <2>2. b \in 1 .. N /\ ~WordFrom(b, Rest[b])
    BY <2>1
  <2>3. \A q \in b + 1 .. N : q \notin Bad /\ q \in 1 .. N
    <3>1. \A q \in b + 1 .. N : ~(q <= b) /\ q \in 1 .. N
      BY <1>0, <2>2
    <3> HIDE DEF Bad
    <3> QED
      BY <2>1, <3>1
  <2>4. \A q \in b + 1 .. N : WordFrom(q, Rest[q])
    BY <2>3
  <2> QED
    BY <2>2, <2>4, RestStep
<1> QED
  BY <1>0, <1>1

LEMMA WordsCount ==
  ASSUME LInv, IdGen
  PROVE  LInv'
<1> DEFINE r == Rest[ptr]
<1>1. Emit(IdType(r.name), r.next, r.columns, FALSE, r.broken) /\ Ch(ptr) \notin {"n", "eof"}
  BY DEF IdGen, At, Letters, High
<1>2. ASSUME ~errs PROVE WordFrom(ptr, r) /\ ptr \in Place
  BY <1>2, RestFacts DEF LInv, Here
<1> HIDE DEF r
<1>3. ~errs => \/ r.broken > 0
               \/ /\ r.next \in ptr .. Len(text) + 1
                  /\ \A j \in ptr .. r.next - 1 : text[j] # "n"
                  /\ (\A j \in ptr .. r.next - 1 : text[j] \notin High) => r.columns = r.next - ptr
  <2>1. r.broken \in Nat => r.broken = 0 \/ r.broken > 0
    OBVIOUS
  <2> QED
    BY <1>2, <2>1 DEF WordFrom, Clear
<1> QED
  BY <1>1, <1>3, Emits

-----------------------------------------------------------------------------
(* The whole scanner. *)

LEMMA EndCounts ==
  ASSUME LInv, ScanEnd
  PROVE  LInv'
<1>1. text' = text /\ errs' = errs /\ ptr' = ptr /\ line' = line /\ column' = column
  BY DEF ScanEnd
<1>2. CASE toks = << >>
  <2>1. toks' = Append(toks, Token(<<"eof">>, ptr))
    BY <1>2 DEF ScanEnd
  <2>2. ~errs => Recorded(Token(<<"eof">>, ptr))
    BY DEF LInv, Here, Recorded, Token
  <2> QED
    BY <1>1, <2>1, <2>2, Adds DEF LInv
<1>3. CASE toks # << >>
  <2> DEFINE t == [toks[Len(toks)] EXCEPT !.type = <<"eof">>]
  <2>1. toks' = Append(toks, t)
    BY <1>3 DEF ScanEnd, Last
  <2>2. ASSUME ~errs PROVE Recorded(t)
    <3>1. Len(toks) \in DOMAIN toks
      BY <1>3 DEF LInv, Sequence
    <3>2. Recorded(toks[Len(toks)])
      BY <2>2, <3>1 DEF LInv
    <3> QED
      BY <3>2 DEF Recorded
  <2> HIDE DEF t
  <2> QED
    BY <1>1, <2>1, <2>2, Adds DEF LInv
<1> QED
  BY <1>2, <1>3

LEMMA InitCounts ==
  ASSUME Init
  PROVE  LInv
<1>1. text \in Texts /\ toks \in Seq({}) /\ DOMAIN toks = {} /\ ptr = 1 /\ line = 1 /\ column = 0
  BY DEF Init
<1>2. 1 \in Place
  BY <1>1, TextFacts DEF Place
<1>3. Breaks(1) = {} /\ Cardinality(Breaks(1)) = 0
  <2>1. Breaks(1) = {}
    BY DEF Breaks
  <2> QED
    BY <2>1, FS_EmptySet
<1>4. LineStart(1) = 0
  BY <1>1, <1>2, <1>3, StartIs
<1>5. Here(ptr, line, column)
  BY <1>1, <1>2, <1>3, <1>4 DEF Here
<1> QED
  BY <1>1, <1>5 DEF LInv, Sequence

LEMMA NextCounts ==
  ASSUME LInv, [Next]_vars
  PROVE  LInv'
<1>1. CASE ErrChar
  <2>0. 1 > 0
    OBVIOUS
  <2>1. errs' /\ text' = text /\ toks' = toks
    BY <1>1, <2>0, Zenon DEF ErrChar, Skips, Count
  <2> QED
    BY <2>1, Moves
<1>2. CASE UNCHANGED vars
  BY <1>2, Moves DEF vars, LInv
<1> QED
  BY <1>1, <1>2, BlankCounts, NoteCounts, CommentCounts, WordsCount, NumbersCount, OperatorsCount,
     EndCounts DEF Next

\* A token is on the line that it says, and in the column, whatever the text: the
\* parser ends statements at the right places, and reports are about what they name.
THEOREM TokenPositions == Spec => []Positions
<1>1. Init => LInv
  BY InitCounts
<1>2. LInv /\ [Next]_vars => LInv'
  BY NextCounts
<1>3. LInv => Positions
  BY DEF LInv, Positions, Recorded
<1> QED
  BY <1>1, <1>2, <1>3, PTL DEF Spec

-----------------------------------------------------------------------------
(* The lexical grammar, said of the places in the text. *)

\* A part of the text.
LEMMA PartIs ==
  ASSUME text \in Texts, NEW p \in Place, NEW q \in p - 1 .. Len(text)
  PROVE  /\ Part(text, p, q) \in Seq(Chars) /\ Len(Part(text, p, q)) = q - p + 1
         /\ \A k \in 1 .. q - p + 1 : Part(text, p, q)[k] = text[p + k - 1]
         /\ DOMAIN Part(text, p, q) = 1 .. q - p + 1
<1>0. p \in Int /\ q \in Int /\ Len(text) \in Nat /\ text \in Seq(Chars) /\ p >= 1 /\ p - 1 <= q
  BY TextFacts DEF Place
<1>1. \A i \in p .. q : text[i] \in Chars
  BY <1>0
<1>2. /\ SubSeq(text, p, q) \in Seq(Chars)
      /\ Len(SubSeq(text, p, q)) = IF p <= q THEN q - p + 1 ELSE 0
      /\ \A i \in 1 .. q - p + 1 : SubSeq(text, p, q)[i] = text[p + i - 1]
  BY <1>0, <1>1, SubSeqProperties
<1>3. Len(SubSeq(text, p, q)) = q - p + 1
  BY <1>0, <1>2
<1> QED
  BY <1>2, <1>3 DEF Part

\* A part of a part.
LEMMA PartOf ==
  ASSUME text \in Texts, NEW p \in Place, NEW q \in p - 1 .. Len(text),
         NEW a \in 1 .. q - p + 2, NEW b \in a - 1 .. q - p + 1
  PROVE  Part(Part(text, p, q), a, b) = Part(text, p + a - 1, p + b - 1)
<1> DEFINE s == Part(text, p, q)
           m == p + a - 1
           n == p + b - 1
<1>0. p \in Int /\ q \in Int /\ Len(text) \in Nat /\ p >= 1 /\ p - 1 <= q /\ a \in Int /\ b \in Int
      /\ 1 <= a /\ a - 1 <= b /\ b <= q - p + 1 /\ q <= Len(text)
  BY TextFacts DEF Place
<1>1. m \in Place /\ n \in m - 1 .. Len(text) /\ n - m + 1 = b - a + 1
  BY <1>0 DEF Place
<1>2. s \in Seq(Chars) /\ Len(s) = q - p + 1 /\ \A k \in 1 .. q - p + 1 : s[k] = text[p + k - 1]
  BY <1>0, PartIs
<1> HIDE DEF s
<1>3. \A i \in a .. b : s[i] \in Chars
  BY <1>0, <1>2
<1>4. /\ SubSeq(s, a, b) \in Seq(Chars)
      /\ Len(SubSeq(s, a, b)) = IF a <= b THEN b - a + 1 ELSE 0
      /\ \A i \in 1 .. b - a + 1 : SubSeq(s, a, b)[i] = s[a + i - 1]
  BY <1>0, <1>3, SubSeqProperties
<1>5. Part(text, m, n) \in Seq(Chars) /\ Len(Part(text, m, n)) = n - m + 1
      /\ \A k \in 1 .. n - m + 1 : Part(text, m, n)[k] = text[m + k - 1]
  <2> HIDE DEF m, n
  <2> QED
    BY <1>1, PartIs
<1>6. Len(SubSeq(s, a, b)) = Len(Part(text, m, n))
  BY <1>0, <1>1, <1>4, <1>5
<1>7. ASSUME NEW k \in 1 .. b - a + 1 PROVE SubSeq(s, a, b)[k] = Part(text, m, n)[k]
  <2>1. SubSeq(s, a, b)[k] = s[a + k - 1]
    BY <1>4
  <2>2. s[a + k - 1] = text[p + (a + k - 1) - 1]
    BY <1>0, <1>2
  <2>3. Part(text, m, n)[k] = text[m + k - 1]
    BY <1>1, <1>5
  <2>4. p + (a + k - 1) - 1 = m + k - 1
    BY <1>0
  <2> QED
    BY <2>1, <2>2, <2>3, <2>4
<1>8. SubSeq(s, a, b) = Part(text, m, n)
  <2> DEFINE x == SubSeq(s, a, b)
             y == Part(text, m, n)
  <2>1. x \in Seq(Chars) /\ y \in Seq(Chars) /\ Len(x) = Len(y) /\ \A k \in 1 .. Len(y) : x[k] = y[k]
    BY <1>1, <1>4, <1>5, <1>6, <1>7
  <2> HIDE DEF x, y
  <2>2. x = y
    BY <2>1
  <2> QED
    BY <2>2 DEF x, y
<1> QED
  BY <1>8 DEF Part, s

\* The characters from p to q are in S.
Run(p, q, S) == \A j \in p .. q : text[j] \in S

\* IsDigits of a part, said of the places in the text.
LEMMA DigitsAre ==
  ASSUME text \in Texts, NEW p \in Place, NEW q \in p - 1 .. Len(text)
  PROVE  IsDigits(Part(text, p, q)) <=> p <= q /\ Run(p, q, Digits)
<1> DEFINE s == Part(text, p, q)
           n == q - p + 1
<1>0. p \in Int /\ q \in Int /\ p >= 1 /\ p - 1 <= q
  BY TextFacts DEF Place
<1>1. s \in Seq(Chars) /\ Len(s) = n /\ (\A k \in 1 .. n : s[k] = text[p + k - 1]) /\ DOMAIN s = 1 .. n
  BY PartIs
<1> HIDE DEF s
<1>2. s # << >> <=> p <= q
  BY <1>0, <1>1
<1>3. Every(s, Digits) => Run(p, q, Digits)
  <2>1. \A j \in p .. q : j - p + 1 \in 1 .. n /\ p + (j - p + 1) - 1 = j
    BY <1>0
  <2> QED
    BY <1>1, <2>1 DEF Every, Run
<1>4. Run(p, q, Digits) => Every(s, Digits)
  <2>1. \A k \in 1 .. n : p + k - 1 \in p .. q
    BY <1>0
  <2> QED
    BY <1>1, <2>1 DEF Every, Run
<1> QED
  BY <1>2, <1>3, <1>4 DEF IsDigits, s

\* Numbers from p to q.
Decimal(p, q) ==
  \/ p <= q /\ Run(p, q, Digits)
  \/ \E m \in p + 1 .. q - 1 : text[m] = "." /\ Run(p, m - 1, Digits) /\ Run(m + 1, q, Digits)
\* An exponent, and a number, from p to q.
Exponent(p, q) ==
  \/ p <= q /\ Run(p, q, Digits)
  \/ p + 1 <= q /\ text[p] \in Signs /\ Run(p + 1, q, Digits)
Number(p, q) ==
  \/ Decimal(p, q)
  \/ \E m \in p + 1 .. q - 1 : text[m] = "e" /\ Decimal(p, m - 1) /\ Exponent(m + 1, q)

\* Where a character stands in a part, and what is before and after it.
LEMMA Around ==
  ASSUME text \in Texts, NEW p \in Place, NEW q \in p - 1 .. Len(text), NEW m \in p .. q,
         NEW k, k = m - p + 1
  PROVE  LET s == Part(text, p, q) IN
         /\ k \in DOMAIN s /\ s[k] = text[m]
         /\ Part(s, 1, k - 1) = Part(text, p, m - 1)
         /\ Part(s, k + 1, Len(s)) = Part(text, m + 1, q)
         /\ m - 1 \in p - 1 .. Len(text) /\ m + 1 \in Place /\ q \in m + 1 - 1 .. Len(text)
<1> DEFINE s == Part(text, p, q)
<1>0. p \in Int /\ q \in Int /\ m \in Int /\ p >= 1 /\ p <= m /\ m <= q /\ Len(text) \in Nat /\ q <= Len(text)
  BY TextFacts DEF Place
<1>1. Len(s) = q - p + 1 /\ (\A i \in 1 .. q - p + 1 : s[i] = text[p + i - 1]) /\ DOMAIN s = 1 .. q - p + 1
  BY PartIs
<1>2. k \in DOMAIN s /\ s[k] = text[m]
  <2>1. k \in 1 .. q - p + 1 /\ p + k - 1 = m
    BY <1>0
  <2> HIDE DEF s
  <2> QED
    BY <1>1, <2>1
<1>3. Part(s, 1, k - 1) = Part(text, p, m - 1)
  <2>1. 1 \in 1 .. q - p + 2 /\ k - 1 \in 1 - 1 .. q - p + 1 /\ p + 1 - 1 = p /\ p + (k - 1) - 1 = m - 1
    BY <1>0
  <2>2. Part(s, 1, k - 1) = Part(text, p + 1 - 1, p + (k - 1) - 1)
    BY <2>1, PartOf
  <2> QED
    BY <2>1, <2>2
<1>4. Part(s, k + 1, Len(s)) = Part(text, m + 1, q)
  <2>1. k + 1 \in 1 .. q - p + 2 /\ q - p + 1 \in (k + 1) - 1 .. q - p + 1 /\ p + (k + 1) - 1 = m + 1
        /\ p + (q - p + 1) - 1 = q
    BY <1>0
  <2>2. Part(s, k + 1, q - p + 1) = Part(text, p + (k + 1) - 1, p + (q - p + 1) - 1)
    BY <2>1, PartOf
  <2> QED
    BY <1>1, <2>1, <2>2
<1>5. m - 1 \in p - 1 .. Len(text) /\ m + 1 \in Place /\ q \in m + 1 - 1 .. Len(text)
  BY <1>0 DEF Place
<1> QED
  BY <1>2, <1>3, <1>4, <1>5

\* IsDecimal of a part, said of the places in the text.
LEMMA DecimalIs ==
  ASSUME text \in Texts, NEW p \in Place, NEW q \in p - 1 .. Len(text)
  PROVE  IsDecimal(Part(text, p, q)) <=> Decimal(p, q)
<1> DEFINE s == Part(text, p, q)
<1>0. p \in Int /\ q \in Int /\ p >= 1 /\ p - 1 <= q /\ DOMAIN s = 1 .. q - p + 1 /\ Len(s) = q - p + 1
  BY PartIs, TextFacts DEF Place
<1>1. IsDigits(s) <=> p <= q /\ Run(p, q, Digits)
  BY DigitsAre
<1>2. ASSUME NEW m \in p .. q, NEW k, k = m - p + 1
      PROVE  /\ k \in DOMAIN s /\ s[k] = text[m]
             /\ IsDigits(Part(s, 1, k - 1)) <=> p <= m - 1 /\ Run(p, m - 1, Digits)
             /\ IsDigits(Part(s, k + 1, Len(s))) <=> m + 1 <= q /\ Run(m + 1, q, Digits)
  <2>1. /\ k \in DOMAIN s /\ s[k] = text[m]
        /\ Part(s, 1, k - 1) = Part(text, p, m - 1)
        /\ Part(s, k + 1, Len(s)) = Part(text, m + 1, q)
        /\ m - 1 \in p - 1 .. Len(text) /\ m + 1 \in Place /\ q \in m + 1 - 1 .. Len(text)
    BY <1>2, Around, Zenon
  <2>2. IsDigits(Part(text, p, m - 1)) <=> p <= m - 1 /\ Run(p, m - 1, Digits)
    BY <2>1, DigitsAre
  <2>3. IsDigits(Part(text, m + 1, q)) <=> m + 1 <= q /\ Run(m + 1, q, Digits)
    BY <2>1, DigitsAre
  <2> QED
    BY <2>1, <2>2, <2>3
<1> HIDE DEF s
<1>3. ASSUME NEW k \in DOMAIN s, s[k] = ".", IsDigits(Part(s, 1, k - 1)), IsDigits(Part(s, k + 1, Len(s)))
      PROVE  Decimal(p, q)
  <2> DEFINE m == p + k - 1
  <2>1. m \in p .. q /\ k = m - p + 1 /\ m \in Int
    BY <1>0
  <2> HIDE DEF m
  <2>2. text[m] = "." /\ p <= m - 1 /\ Run(p, m - 1, Digits) /\ m + 1 <= q /\ Run(m + 1, q, Digits)
    BY <1>2, <1>3, <2>1
  <2>3. m \in p + 1 .. q - 1
    BY <1>0, <2>1, <2>2
  <2> QED
    BY <2>2, <2>3 DEF Decimal
<1>4. ASSUME NEW m \in p + 1 .. q - 1, text[m] = ".", Run(p, m - 1, Digits), Run(m + 1, q, Digits)
      PROVE  IsDecimal(s)
  <2> DEFINE k == m - p + 1
  <2>1. m \in p .. q /\ p <= m - 1 /\ m + 1 <= q
    BY <1>0
  <2>2. k = m - p + 1
    OBVIOUS
  <2> HIDE DEF k
  <2>3. k \in DOMAIN s /\ s[k] = "." /\ IsDigits(Part(s, 1, k - 1)) /\ IsDigits(Part(s, k + 1, Len(s)))
    BY <1>2, <1>4, <2>1, <2>2
  <2> QED
    BY <2>3, Zenon DEF IsDecimal
<1>5. IsDecimal(s) => Decimal(p, q)
  BY <1>1, <1>3 DEF IsDecimal, Decimal
<1>6. Decimal(p, q) => IsDecimal(s)
  BY <1>1, <1>4 DEF IsDecimal, Decimal
<1> QED
  BY <1>5, <1>6 DEF s

\* IsExponent of a part.
LEMMA ExponentIs ==
  ASSUME text \in Texts, NEW p \in Place, NEW q \in p - 1 .. Len(text)
  PROVE  IsExponent(Part(text, p, q)) <=> Exponent(p, q)
<1> DEFINE s == Part(text, p, q)
<1>0. p \in Int /\ q \in Int /\ p >= 1 /\ p - 1 <= q /\ s \in Seq(Chars) /\ Len(s) = q - p + 1
  BY PartIs, TextFacts DEF Place
<1>1. IsDigits(s) <=> p <= q /\ Run(p, q, Digits)
  BY DigitsAre
<1>2. s # << >> <=> p <= q
  <2> HIDE DEF s
  <2> QED
    BY <1>0
<1>3. ASSUME p <= q
      PROVE  s[1] = text[p] /\ (IsDigits(Part(s, 2, Len(s))) <=> p + 1 <= q /\ Run(p + 1, q, Digits))
  <2>1. p \in p .. q /\ 1 = p - p + 1 /\ 1 + 1 = 2
    BY <1>0, <1>3
  <2>2. /\ s[1] = text[p] /\ Part(s, 1 + 1, Len(s)) = Part(text, p + 1, q)
        /\ p + 1 \in Place /\ q \in p + 1 - 1 .. Len(text)
    <3> DEFINE k == 1
               m == p
    <3>1. m \in p .. q /\ k = m - p + 1
      BY <2>1
    <3> HIDE DEF k, m
    <3>2. /\ s[k] = text[m] /\ Part(s, k + 1, Len(s)) = Part(text, m + 1, q)
          /\ m + 1 \in Place /\ q \in m + 1 - 1 .. Len(text)
      BY <3>1, Around, Zenon
    <3> QED
      BY <3>2, Zenon DEF k, m
  <2>3. IsDigits(Part(text, p + 1, q)) <=> p + 1 <= q /\ Run(p + 1, q, Digits)
    <3> DEFINE m == p + 1
    <3>1. m \in Place /\ q \in m - 1 .. Len(text)
      BY <1>0, <1>3, <2>2
    <3> HIDE DEF m
    <3>2. IsDigits(Part(text, m, q)) <=> m <= q /\ Run(m, q, Digits)
      BY <3>1, DigitsAre
    <3> QED
      BY <3>2 DEF m
  <2> QED
    BY <2>1, <2>2, <2>3, Zenon
<1> HIDE DEF s
<1>4. p + 1 <= q => p <= q
  BY <1>0
<1> QED
  BY <1>1, <1>2, <1>3, <1>4 DEF IsExponent, Exponent, s

\* IsNumber of a part.
LEMMA NumberIs ==
  ASSUME text \in Texts, NEW p \in Place, NEW q \in p - 1 .. Len(text)
  PROVE  IsNumber(Part(text, p, q)) <=> Number(p, q)
<1> DEFINE s == Part(text, p, q)
<1>0. p \in Int /\ q \in Int /\ p >= 1 /\ p - 1 <= q /\ DOMAIN s = 1 .. q - p + 1 /\ Len(s) = q - p + 1
  BY PartIs, TextFacts DEF Place
<1>1. IsDecimal(s) <=> Decimal(p, q)
  BY DecimalIs
<1>2. ASSUME NEW m \in p .. q, NEW k, k = m - p + 1
      PROVE  /\ k \in DOMAIN s /\ s[k] = text[m]
             /\ IsDecimal(Part(s, 1, k - 1)) <=> Decimal(p, m - 1)
             /\ IsExponent(Part(s, k + 1, Len(s))) <=> Exponent(m + 1, q)
  <2>1. /\ k \in DOMAIN s /\ s[k] = text[m]
        /\ Part(s, 1, k - 1) = Part(text, p, m - 1)
        /\ Part(s, k + 1, Len(s)) = Part(text, m + 1, q)
        /\ m - 1 \in p - 1 .. Len(text) /\ m + 1 \in Place /\ q \in m + 1 - 1 .. Len(text)
    BY <1>2, Around, Zenon
  <2>2. IsDecimal(Part(text, p, m - 1)) <=> Decimal(p, m - 1)
    BY <2>1, DecimalIs
  <2>3. IsExponent(Part(text, m + 1, q)) <=> Exponent(m + 1, q)
    BY <2>1, ExponentIs
  <2> QED
    BY <2>1, <2>2, <2>3
<1> HIDE DEF s
<1>d. ASSUME NEW m \in p .. q PROVE (Decimal(p, m - 1) => p + 1 <= m) /\ (Exponent(m + 1, q) => m <= q - 1)
  BY <1>0 DEF Decimal, Exponent
<1>3. ASSUME NEW k \in DOMAIN s, s[k] = "e", IsDecimal(Part(s, 1, k - 1)), IsExponent(Part(s, k + 1, Len(s)))
      PROVE  Number(p, q)
  <2> DEFINE m == p + k - 1
  <2>1. m \in p .. q /\ k = m - p + 1 /\ m \in Int
    BY <1>0
  <2> HIDE DEF m
  <2>2. text[m] = "e" /\ Decimal(p, m - 1) /\ Exponent(m + 1, q)
    BY <1>2, <1>3, <2>1
  <2>3. m \in p + 1 .. q - 1
    <3>1. p + 1 <= m /\ m <= q - 1
      BY <1>d, <2>1, <2>2
    <3> QED
      BY <1>0, <2>1, <3>1
  <2> QED
    BY <2>2, <2>3 DEF Number
<1>4. ASSUME NEW m \in p + 1 .. q - 1, text[m] = "e", Decimal(p, m - 1), Exponent(m + 1, q)
      PROVE  IsNumber(s)
  <2> DEFINE k == m - p + 1
  <2>1. m \in p .. q
    BY <1>0
  <2>2. k = m - p + 1
    OBVIOUS
  <2> HIDE DEF k
  <2>3. k \in DOMAIN s /\ s[k] = "e" /\ IsDecimal(Part(s, 1, k - 1)) /\ IsExponent(Part(s, k + 1, Len(s)))
    BY <1>2, <1>4, <2>1, <2>2
  <2> QED
    BY <2>3, Zenon DEF IsNumber
<1>5. IsNumber(s) => Number(p, q)
  BY <1>1, <1>3 DEF IsNumber, Number
<1>6. Number(p, q) => IsNumber(s)
  BY <1>1, <1>4 DEF IsNumber, Number
<1> QED
  BY <1>5, <1>6 DEF s

-----------------------------------------------------------------------------
(* Words, operators, blanks and comments in the text. *)

\* From p to q are letters, digits and whole characters of several bytes.
Wordly(p, q) ==
  \A j \in p .. q :
    \/ text[j] \in Letters \cup Digits
    \/ text[j] = "h1" /\ j < q /\ text[j + 1] = "c"
    \/ text[j] = "h2" /\ j + 1 < q /\ text[j + 1] = "c" /\ text[j + 2] = "c"
    \/ text[j] = "c" /\ ((j > p /\ text[j - 1] \in {"h1", "h2"}) \/ (j > p + 1 /\ text[j - 2] = "h2"))

\* IsWord of a part.
LEMMA WordIs ==
  ASSUME text \in Texts, NEW p \in Place, NEW q \in p .. Len(text)
  PROVE  /\ IsWord(Part(text, p, q)) => text[p] \in Letters \cup {"h1", "h2"} /\ Wordly(p, q)
         /\ text[p] \in Letters \cup {"h1", "h2"} /\ Wordly(p, q) => IsWord(Part(text, p, q))
<1> DEFINE s == Part(text, p, q)
           n == q - p + 1
           W(k) == \/ s[k] \in Letters
                   \/ k > 1 /\ s[k] \in Digits
                   \/ s[k] = "h1" /\ k < n /\ s[k + 1] = "c"
                   \/ s[k] = "h2" /\ k + 1 < n /\ s[k + 1] = "c" /\ s[k + 2] = "c"
                   \/ s[k] = "c" /\ k > 1 /\ (s[k - 1] \in {"h1", "h2"} \/ (k > 2 /\ s[k - 2] = "h2"))
           V(j) == \/ text[j] \in Letters \cup Digits
                   \/ text[j] = "h1" /\ j < q /\ text[j + 1] = "c"
                   \/ text[j] = "h2" /\ j + 1 < q /\ text[j + 1] = "c" /\ text[j + 2] = "c"
                   \/ text[j] = "c" /\ \/ j > p /\ text[j - 1] \in {"h1", "h2"}
                                       \/ j > p + 1 /\ text[j - 2] = "h2"
<1>0. p \in Int /\ q \in Int /\ p >= 1 /\ p <= q /\ n \in Nat /\ n >= 1
  BY TextFacts DEF Place
<1>1. s \in Seq(Chars) /\ Len(s) = n /\ (\A k \in 1 .. n : s[k] = text[p + k - 1]) /\ DOMAIN s = 1 .. n
  <2>1. q \in p - 1 .. Len(text)
    BY <1>0, TextFacts
  <2> QED
    BY <2>1, PartIs
<1>w. IsWord(s) <=> \A k \in 1 .. n : W(k)
  <2> HIDE DEF s
  <2>1. s # << >>
    BY <1>0, <1>1
  <2> HIDE DEF n
  <2> QED
    BY <1>1, <2>1, Zenon DEF IsWord
<1>v. Wordly(p, q) <=> \A j \in p .. q : V(j)
  BY Zenon DEF Wordly
<1>2. ASSUME NEW j \in p .. q, NEW k, k = j - p + 1
      PROVE  /\ k \in 1 .. n /\ s[k] = text[j]
             /\ (k > 1 <=> j > p) /\ (k > 2 <=> j > p + 1) /\ (k < n <=> j < q) /\ (k + 1 < n <=> j + 1 < q)
             /\ k < n => s[k + 1] = text[j + 1]
             /\ k + 1 < n => k < n /\ s[k + 2] = text[j + 2]
             /\ k > 1 => s[k - 1] = text[j - 1]
             /\ k > 2 => s[k - 2] = text[j - 2]
  <2> HIDE DEF s
  <2>1. k \in 1 .. n /\ p + k - 1 = j
    BY <1>0, <1>2
  <2>2. (k > 1 <=> j > p) /\ (k > 2 <=> j > p + 1) /\ (k < n <=> j < q) /\ (k + 1 < n <=> j + 1 < q)
        /\ (k + 1 < n => k < n)
    BY <1>0, <1>2
  <2>3. k < n => s[k + 1] = text[j + 1]
    <3>1. k < n => k + 1 \in 1 .. n /\ p + (k + 1) - 1 = j + 1
      BY <1>0, <1>2
    <3> QED
      BY <1>1, <3>1
  <2>4. k + 1 < n => s[k + 2] = text[j + 2]
    <3>1. k + 1 < n => k + 2 \in 1 .. n /\ p + (k + 2) - 1 = j + 2
      BY <1>0, <1>2
    <3> QED
      BY <1>1, <3>1
  <2>5. k > 1 => s[k - 1] = text[j - 1]
    <3>1. k > 1 => k - 1 \in 1 .. n /\ p + (k - 1) - 1 = j - 1
      BY <1>0, <1>2
    <3> QED
      BY <1>1, <3>1
  <2>6. k > 2 => s[k - 2] = text[j - 2]
    <3>1. k > 2 => k - 2 \in 1 .. n /\ p + (k - 2) - 1 = j - 2
      BY <1>0, <1>2
    <3> QED
      BY <1>1, <3>1
  <2> QED
    BY <1>1, <2>1, <2>2, <2>3, <2>4, <2>5, <2>6
<1>3. ASSUME NEW j \in p .. q, NEW k, k = j - p + 1
      PROVE  /\ W(k) => V(j)
             /\ V(j) /\ ~(k = 1 /\ text[j] \in Digits) => W(k)
  <2>1. k \in Int /\ j \in Int /\ k >= 1
    BY <1>0, <1>3
  <2>2. /\ k \in 1 .. n /\ s[k] = text[j]
        /\ (k > 1 <=> j > p) /\ (k > 2 <=> j > p + 1) /\ (k < n <=> j < q) /\ (k + 1 < n <=> j + 1 < q)
        /\ k < n => s[k + 1] = text[j + 1]
        /\ k + 1 < n => k < n /\ s[k + 2] = text[j + 2]
        /\ k > 1 => s[k - 1] = text[j - 1]
        /\ k > 2 => s[k - 2] = text[j - 2]
    BY <1>2, <1>3
  <2>3. k > 1 \/ k = 1
    BY <2>1
  <2>4. k > 2 => k > 1
    BY <2>1
  <2>5. j > p + 1 => j > p
    BY <1>0, <2>1
  <2> HIDE DEF s, n
  <2>6. W(k) => V(j)
    BY <2>2, <2>4
  <2>7. V(j) /\ ~(k = 1 /\ text[j] \in Digits) => W(k)
    BY <2>2, <2>3, <2>5
  <2> QED
    BY <2>6, <2>7
<1> HIDE DEF W, V
<1>4. (\A k \in 1 .. n : W(k)) => \A j \in p .. q : V(j)
  <2>1. \A j \in p .. q : j - p + 1 \in 1 .. n
    BY <1>0
  <2> QED
    BY <1>3, <2>1
<1>5. ASSUME \A j \in p .. q : V(j), text[p] \notin Digits, NEW k \in 1 .. n PROVE W(k)
  <2> DEFINE j == p + k - 1
  <2>1. j \in p .. q /\ k = j - p + 1 /\ (k = 1 => j = p)
    BY <1>0
  <2> HIDE DEF j
  <2>2. V(j) /\ ~(k = 1 /\ text[j] \in Digits)
    BY <1>5, <2>1
  <2> QED
    BY <1>3, <2>1, <2>2
<1>6. W(1) => text[p] \in Letters \cup {"h1", "h2"}
  <2>1. s[1] = text[p]
    <3>1. 1 \in 1 .. n /\ p + 1 - 1 = p
      BY <1>0
    <3> HIDE DEF s
    <3> QED
      BY <1>1, <3>1
  <2>2. ~(1 > 1)
    OBVIOUS
  <2> HIDE DEF s
  <2> QED
    BY <2>1, <2>2 DEF W
<1>7. text[p] \in Letters \cup {"h1", "h2"} => text[p] \notin Digits
  BY DEF Letters, Digits
<1>8. 1 \in 1 .. n
  BY <1>0
<1> HIDE DEF s, n
<1>9. IsWord(s) => text[p] \in Letters \cup {"h1", "h2"} /\ Wordly(p, q)
  BY <1>w, <1>v, <1>4, <1>6, <1>8
<1>10. text[p] \in Letters \cup {"h1", "h2"} /\ Wordly(p, q) => IsWord(s)
  BY <1>w, <1>v, <1>5, <1>7
<1> QED
  BY <1>9, <1>10 DEF s

\* The words of TypeTable have one or two characters.
LEMMA OneIs ==
  ASSUME text \in Texts, NEW p \in 1 .. Len(text)
  PROVE  Part(text, p, p) = <<text[p]>>
<1> DEFINE s == Part(text, p, p)
<1>0. p \in Int /\ p >= 1 /\ Len(text) \in Nat /\ p \in Place /\ p \in p - 1 .. Len(text)
  BY TextFacts DEF Place
<1>1. s \in Seq(Chars) /\ Len(s) = p - p + 1 /\ \A k \in 1 .. p - p + 1 : s[k] = text[p + k - 1]
  BY <1>0, PartIs
<1> HIDE DEF s
<1>2. Len(s) = 1 /\ s[1] = text[p]
  BY <1>0, <1>1
<1>3. s = <<text[p]>>
  BY <1>1, <1>2
<1> QED
  BY <1>3 DEF s

\* A part of two characters.
LEMMA TwoIs ==
  ASSUME text \in Texts, NEW p \in 1 .. Len(text) - 1
  PROVE  Part(text, p, p + 1) = <<text[p], text[p + 1]>>
<1> DEFINE q == p + 1
           s == Part(text, p, q)
<1>0. p \in Int /\ p >= 1 /\ Len(text) \in Nat /\ p \in Place /\ q \in p - 1 .. Len(text) /\ q - p + 1 = 2
  BY TextFacts DEF Place
<1> HIDE DEF q
<1>1. s \in Seq(Chars) /\ Len(s) = q - p + 1 /\ \A k \in 1 .. q - p + 1 : s[k] = text[p + k - 1]
  BY <1>0, PartIs
<1> HIDE DEF s
<1>2. Len(s) = 2 /\ s[1] = text[p] /\ s[2] = text[p + 1]
  BY <1>0, <1>1
<1>3. s = <<text[p], text[p + 1]>>
  <2> DEFINE a == text[p]
             b == text[p + 1]
             t == <<a, b>>
  <2>1. a \in Chars /\ b \in Chars
    BY <1>0, TextFacts
  <2>2. s[1] = a /\ s[2] = b
    BY <1>2
  <2> HIDE DEF a, b
  <2>3. t \in Seq(Chars) /\ Len(t) = 2 /\ t[1] = a /\ t[2] = b
    BY <2>1
  <2> HIDE DEF t
  <2>4. s = t
    BY <1>1, <1>2, <2>2, <2>3
  <2> QED
    BY <2>4 DEF a, b, t
<1> QED
  BY <1>3 DEF s, q

\* The operators and brackets of one character, and those of two.
OneTypes == {"(", ".", ":", "+", "-", "*", "/", "=", "<", ">"}

TwoTypes(a, b) ==
  \/ a = "i" /\ b = "f"
  \/ a = ":" /\ b = ":"
  \/ a \in {"=", "!", "<", ">"} /\ b = "="
  \/ a = "-" /\ b = ">"

\* The words of the table in token.h are those, and the keyword if.
LEMMA TypesAre ==
  /\ \A t \in TypeTable : Len(t) = 1 \/ Len(t) = 2
  /\ \A a : <<a>> \in TypeTable <=> a \in OneTypes
  /\ \A a, b : <<a, b>> \in TypeTable <=> TwoTypes(a, b)
<1>1. \A t \in TypeTable : Len(t) = 1 \/ Len(t) = 2
  BY DEF TypeTable
<1>2. ASSUME NEW a PROVE <<a>> \in TypeTable <=> a \in OneTypes
  BY DEF TypeTable, OneTypes
<1>3. ASSUME NEW a, NEW b PROVE <<a, b>> \in TypeTable <=> TwoTypes(a, b)
  <2>1. \A x : <<a, b>> # <<x>>
    OBVIOUS
  <2>2. \A x, y : <<a, b>> = <<x, y>> <=> a = x /\ b = y
    OBVIOUS
  <2>3. <<a, b>> \in TypeTable <=>
          \/ <<a, b>> = <<"i", "f">> \/ <<a, b>> = <<":", ":">> \/ <<a, b>> = <<"=", "=">>
          \/ <<a, b>> = <<"!", "=">> \/ <<a, b>> = <<"<", "=">> \/ <<a, b>> = <<">", "=">>
          \/ <<a, b>> = <<"-", ">">>
    BY <2>1, Zenon DEF TypeTable
  <2> QED
    BY <2>2, <2>3, Zenon DEF TwoTypes
<1> QED
  BY <1>1, <1>2, <1>3

\* A part is a word of the table.
LEMMA TypeIs ==
  ASSUME text \in Texts, NEW p \in 1 .. Len(text), NEW q \in p .. Len(text)
  PROVE  Part(text, p, q) \in TypeTable <=>
           \/ q = p /\ text[p] \in OneTypes
           \/ q = p + 1 /\ TwoTypes(text[p], text[p + 1])
<1> DEFINE s == Part(text, p, q)
<1>0. p \in Int /\ q \in Int /\ p >= 1 /\ p <= q /\ Len(text) \in Nat /\ p \in Place /\ q \in p - 1 .. Len(text)
      /\ q <= Len(text)
  BY TextFacts DEF Place
<1>1. Len(s) = q - p + 1
  BY <1>0, PartIs
<1>2. CASE q = p
  <2>1. s = <<text[p]>>
    BY <1>2, OneIs
  <2> HIDE DEF s
  <2>2. s \in TypeTable <=> text[p] \in OneTypes
    BY <2>1, TypesAre
  <2>3. q # p + 1
    BY <1>0, <1>2
  <2> QED
    BY <1>2, <2>2, <2>3 DEF s
<1>3. CASE q = p + 1
  <2>0. p \in 1 .. Len(text) - 1
    BY <1>0, <1>3
  <2>1. s = <<text[p], text[p + 1]>>
    BY <1>3, <2>0, TwoIs
  <2> HIDE DEF s
  <2>2. s \in TypeTable <=> TwoTypes(text[p], text[p + 1])
    BY <2>1, TypesAre
  <2>3. q # p
    BY <1>0, <1>3
  <2> QED
    BY <1>3, <2>2, <2>3 DEF s
<1>4. CASE q # p /\ q # p + 1
  <2>1. Len(s) # 1 /\ Len(s) # 2
    BY <1>0, <1>1, <1>4
  <2> HIDE DEF s
  <2>2. s \notin TypeTable
    BY <2>1, TypesAre
  <2> QED
    BY <1>4, <2>2 DEF s
<1> QED
  BY <1>2, <1>3, <1>4

\* IsSpace of a part.
LEMMA SpaceIs ==
  ASSUME text \in Texts, NEW p \in 1 .. Len(text), NEW q \in p .. Len(text)
  PROVE  IsSpace(Part(text, p, q)) <=> q = p /\ text[p] \in Blanks
<1> DEFINE s == Part(text, p, q)
<1>0. p \in Int /\ q \in Int /\ p >= 1 /\ p <= q /\ Len(text) \in Nat /\ p \in Place /\ q \in p - 1 .. Len(text)
  BY TextFacts DEF Place
<1>1. Len(s) = q - p + 1 /\ \A k \in 1 .. q - p + 1 : s[k] = text[p + k - 1]
  BY <1>0, PartIs
<1>2. s[1] = text[p] /\ (Len(s) = 1 <=> q = p)
  <2> HIDE DEF s
  <2>1. 1 \in 1 .. q - p + 1 /\ p + 1 - 1 = p
    BY <1>0
  <2> QED
    BY <1>0, <1>1, <2>1
<1> HIDE DEF s
<1> QED
  BY <1>2 DEF IsSpace, s

\* From p to q is a note, or a comment over lines.
LineTo(p, q) == p + 1 <= q /\ text[p] = "/" /\ text[p + 1] = "/" /\ Run(p, q, Chars \ {"n"})
BlockTo(p, q) ==
  /\ p + 3 <= q /\ text[p] = "/" /\ text[p + 1] = "*" /\ text[q - 1] = "*" /\ text[q] = "/"
  /\ \A j \in p + 2 .. q - 2 : ~(text[j] = "*" /\ text[j + 1] = "/")

\* IsLine of a part.
LEMMA LineIs ==
  ASSUME text \in Texts, NEW p \in 1 .. Len(text), NEW q \in p .. Len(text)
  PROVE  IsLine(Part(text, p, q)) <=> LineTo(p, q)
<1> DEFINE s == Part(text, p, q)
           n == q - p + 1
<1>0. p \in Int /\ q \in Int /\ p >= 1 /\ p <= q /\ Len(text) \in Nat /\ p \in Place /\ q \in p - 1 .. Len(text)
  BY TextFacts DEF Place
<1>1. Len(s) = n /\ (\A k \in 1 .. n : s[k] = text[p + k - 1]) /\ DOMAIN s = 1 .. n
  BY <1>0, PartIs
<1> HIDE DEF s
<1>2. s[1] = text[p] /\ (Len(s) >= 2 <=> p + 1 <= q) /\ (p + 1 <= q => s[2] = text[p + 1])
  <2>1. 1 \in 1 .. n /\ p + 1 - 1 = p /\ (p + 1 <= q => 2 \in 1 .. n /\ p + 2 - 1 = p + 1)
    BY <1>0
  <2>2. n >= 2 <=> p + 1 <= q
    BY <1>0
  <2> HIDE DEF n
  <2> QED
    BY <1>1, <2>1, <2>2
<1>3. Every(s, Chars \ {"n"}) => Run(p, q, Chars \ {"n"})
  <2>1. \A j \in p .. q : j - p + 1 \in 1 .. n /\ p + (j - p + 1) - 1 = j
    BY <1>0
  <2> QED
    BY <1>1, <2>1 DEF Every, Run
<1>4. Run(p, q, Chars \ {"n"}) => Every(s, Chars \ {"n"})
  <2>1. \A k \in 1 .. n : p + k - 1 \in p .. q
    BY <1>0
  <2> QED
    BY <1>1, <2>1 DEF Every, Run
<1> QED
  BY <1>2, <1>3, <1>4 DEF IsLine, LineTo, s

\* IsBlock of a part.
LEMMA BlockIs ==
  ASSUME text \in Texts, NEW p \in 1 .. Len(text), NEW q \in p .. Len(text)
  PROVE  IsBlock(Part(text, p, q)) <=> BlockTo(p, q)
<1> DEFINE s == Part(text, p, q)
           n == q - p + 1
           Open == p + 3 <= q /\ text[p] = "/" /\ text[p + 1] = "*"
           Close == text[q - 1] = "*" /\ text[q] = "/" /\ \A j \in p + 2 .. q - 2 : ~(text[j] = "*" /\ text[j + 1] = "/")
<1>0. p \in Int /\ q \in Int /\ p >= 1 /\ p <= q /\ Len(text) \in Nat /\ p \in Place /\ q \in p - 1 .. Len(text)
  BY TextFacts DEF Place
<1>1. Len(s) = n /\ (\A k \in 1 .. n : s[k] = text[p + k - 1]) /\ DOMAIN s = 1 .. n
  BY <1>0, PartIs
<1> HIDE DEF s
<1>2. /\ Len(s) >= 4 <=> p + 3 <= q
      /\ p + 3 <= q => s[1] = text[p] /\ s[2] = text[p + 1]
  <2>1. p + 3 <= q => 1 \in 1 .. n /\ p + 1 - 1 = p /\ 2 \in 1 .. n /\ p + 2 - 1 = p + 1
    BY <1>0
  <2>2. n >= 4 <=> p + 3 <= q
    BY <1>0
  <2> HIDE DEF n
  <2> QED
    BY <1>1, <2>1, <2>2
<1>3. ASSUME p + 3 <= q PROVE Stars(s) = {Len(s) - 1} <=> Close
  <2>1. ASSUME NEW j \in p + 2 .. q - 1, NEW k, k = j - p + 1
        PROVE  /\ k \in 3 .. n - 1 /\ (k = n - 1 <=> j = q - 1)
               /\ k \in Stars(s) <=> text[j] = "*" /\ text[j + 1] = "/"
    <3>1. k \in 3 .. n - 1 /\ (k = n - 1 <=> j = q - 1) /\ k \in 1 .. n /\ k + 1 \in 1 .. n
          /\ p + k - 1 = j /\ p + (k + 1) - 1 = j + 1
      BY <1>0, <2>1
    <3>2. s[k] = text[j] /\ s[k + 1] = text[j + 1]
      BY <1>1, <3>1
    <3>3. Stars(s) = {i \in 3 .. n - 1 : s[i] = "*" /\ s[i + 1] = "/"}
      BY <1>1 DEF Stars
    <3> HIDE DEF n
    <3> QED
      BY <3>1, <3>2, <3>3
  <2>2. Stars(s) \in SUBSET (3 .. n - 1)
    BY <1>1 DEF Stars
  <2>3. \A k \in 3 .. n - 1 : p + k - 1 \in p + 2 .. q - 1 /\ k = (p + k - 1) - p + 1
    BY <1>0
  <2>4. ASSUME Stars(s) = {n - 1} PROVE Close
    <3>1. q - 1 \in p + 2 .. q - 1 /\ n - 1 = (q - 1) - p + 1 /\ (q - 1) + 1 = q
      BY <1>0, <1>3
    <3>2. text[q - 1] = "*" /\ text[q] = "/"
      BY <2>1, <2>4, <3>1
    <3>3. ASSUME NEW j \in p + 2 .. q - 2 PROVE ~(text[j] = "*" /\ text[j + 1] = "/")
      <4> DEFINE k == j - p + 1
      <4>1. j \in p + 2 .. q - 1 /\ j # q - 1 /\ k = j - p + 1
        BY <1>0
      <4> HIDE DEF k
      <4>2. k # n - 1
        BY <2>1, <4>1
      <4>3. k \notin Stars(s)
        BY <2>4, <4>2
      <4> QED
        BY <2>1, <4>1, <4>3
    <3> QED
      BY <3>2, <3>3
  <2>5. ASSUME Close PROVE Stars(s) = {n - 1}
    <3>1. q - 1 \in p + 2 .. q - 1 /\ n - 1 = (q - 1) - p + 1 /\ (q - 1) + 1 = q
      BY <1>0, <1>3
    <3>2. n - 1 \in Stars(s)
      BY <2>1, <2>5, <3>1
    <3>3. ASSUME NEW k \in Stars(s) PROVE k = n - 1
      <4> DEFINE j == p + k - 1
      <4>1. j \in p + 2 .. q - 1 /\ k = j - p + 1
        BY <2>2, <2>3
      <4> HIDE DEF j
      <4>2. text[j] = "*" /\ text[j + 1] = "/"
        BY <2>1, <4>1
      <4>3. j = q - 1
        <5>1. j \notin p + 2 .. q - 2
          BY <2>5, <4>2
        <5> QED
          BY <1>0, <4>1, <5>1
      <4> QED
        BY <2>1, <4>1, <4>3
    <3> QED
      BY <3>2, <3>3
  <2> QED
    BY <1>1, <2>4, <2>5
<1>4. IsBlock(s) <=> Open /\ Close
  <2> HIDE DEF Close
  <2> QED
    BY <1>2, <1>3 DEF IsBlock
<1> QED
  BY <1>4 DEF BlockTo, s

-----------------------------------------------------------------------------
(* The longest lexeme at a place. *)

\* The longest end at p is one of the ends, and the only one above all others.
LEMMA LongestFacts ==
  ASSUME text \in Texts, NEW p \in 1 .. Len(text), Ends(p) # {}
  PROVE  /\ Longest(p) \in Ends(p) /\ Longest(p) \in p .. Len(text)
         /\ \A q \in Ends(p) : (\A r \in Ends(p) : r <= q) => Longest(p) = q
<1>0. Len(text) \in Nat /\ Ends(p) \in SUBSET (p .. Len(text)) /\ Ends(p) \in SUBSET (0 .. Len(text))
  BY TextFacts DEF Ends
<1>1. \E q \in Ends(p) : \A r \in Ends(p) : r <= q
  BY <1>0, Greatest
<1>2. Longest(p) \in Ends(p) /\ \A r \in Ends(p) : r <= Longest(p)
  BY <1>1, Zenon DEF Longest
<1>3. ASSUME NEW q \in Ends(p), \A r \in Ends(p) : r <= q PROVE Longest(p) = q
  <2>1. q <= Longest(p) /\ Longest(p) <= q /\ q \in Int /\ Longest(p) \in Int
    BY <1>0, <1>2, <1>3
  <2> QED
    BY <2>1
<1> QED
  BY <1>0, <1>2, <1>3

\* The tokens from p on depend on those behind p.
LEMMA TokensRead ==
  ASSUME text \in Texts, NEW p \in Place, NEW f, NEW g,
         \A q \in p + 1 .. Len(text) + 1 : f[q] = g[q]
  PROVE  TokensAt(f, p) = TokensAt(g, p)
<1>1. p \in Nat /\ p >= 1 /\ Len(text) \in Nat
  BY TextFacts DEF Place
<1>2. CASE p > Len(text)
  BY <1>2, Zenon DEF TokensAt
<1>3. CASE ~(p > Len(text)) /\ Ends(p) = {}
  BY <1>3, Zenon DEF TokensAt
<1>4. CASE ~(p > Len(text)) /\ Ends(p) # {}
  <2>1. Longest(p) \in p .. Len(text)
    BY <1>1, <1>4, LongestFacts
  <2>2. Longest(p) + 1 \in p + 1 .. Len(text) + 1
    BY <1>1, <2>1
  <2>3. f[Longest(p) + 1] = g[Longest(p) + 1]
    BY <2>2
  <2> QED
    BY <1>4, <2>3, Zenon DEF TokensAt
<1> QED
  BY <1>2, <1>3, <1>4

\* The recursion of the tokens has a solution, from the end of the text backwards.
LEMMA TokensExist ==
  ASSUME text \in Texts
  PROVE  \E f : f = [p \in 1 .. Len(text) + 1 |-> TokensAt(f, p)]
<1> DEFINE N == Len(text) + 1
           From(a, f) == f = [p \in a .. N |-> TokensAt(f, p)]
           Known == {a \in 1 .. N + 1 : \E f : From(a, f)}
<1>0. N \in Nat /\ N >= 1
  BY TextFacts
<1>1. N + 1 \in Known
  <2>1. N + 1 .. N = {}
    BY <1>0
  <2> DEFINE none == [p \in N + 1 .. N |-> 0]
  <2>2. From(N + 1, none)
    BY <2>1
  <2> QED
    BY <1>0, <2>2
<1>2. PICK a \in Known : \A b \in Known : a <= b
  <2>1. Known \in SUBSET Nat
    BY <1>0
  <2> HIDE DEF Known
  <2> QED
    BY <1>1, <2>1, Least
<1>3. a = 1
  <2> SUFFICES ASSUME a # 1 PROVE FALSE
    OBVIOUS
  <2>0. a \in 1 .. N + 1 /\ a - 1 \in 1 .. N
    BY <1>0, <1>2
  <2>1. PICK f : From(a, f)
    BY <1>2
  <2> DEFINE g == [p \in a - 1 .. N |-> TokensAt(f, p)]
  <2>2. \A q \in a .. N : f[q] = g[q]
    <3>1. \A q \in a .. N : f[q] = TokensAt(f, q)
      BY <2>1
    <3>2. \A q \in a .. N : q \in a - 1 .. N
      BY <1>0, <2>0
    <3> QED
      BY <3>1, <3>2
  <2> HIDE DEF g
  <2>3. ASSUME NEW p \in a - 1 .. N PROVE TokensAt(f, p) = TokensAt(g, p)
    <3>1. p \in Place /\ \A q \in p + 1 .. Len(text) + 1 : q \in a .. N
      BY <1>0, <2>0 DEF Place
    <3> QED
      BY <2>2, <3>1, TokensRead
  <2>4. From(a - 1, g)
    <3>1. g = [p \in a - 1 .. N |-> TokensAt(f, p)]
      BY DEF g
    <3> QED
      BY <2>3, <3>1
  <2>5. a - 1 \in Known /\ ~(a <= a - 1)
    BY <1>0, <2>0, <2>4
  <2> HIDE DEF Known
  <2> QED
    BY <1>2, <2>5
<1> QED
  BY <1>2, <1>3

\* So TokensFrom satisfies its own equation.
LEMMA TokensIs ==
  ASSUME text \in Texts, NEW p \in Place
  PROVE  TokensFrom[p] = TokensAt(TokensFrom, p)
<1>1. TokensFrom = [q \in 1 .. Len(text) + 1 |-> TokensAt(TokensFrom, q)]
  BY TokensExist, Zenon DEF TokensFrom
<1> QED
  BY <1>1 DEF Place

\* The tokens are a sequence.
Kinds == TypeTable \cup {<<"num">>, <<"id">>, <<"none">>}
Items == [type : Kinds, at : Nat, upto : Nat]

\* The tokens from any place on are a sequence.
LEMMA TokensType ==
  ASSUME text \in Texts, NEW p \in Place
  PROVE  TokensFrom[p] \in Seq(Items)
<1> DEFINE N == Len(text) + 1
           Bad == {q \in 1 .. N : TokensFrom[q] \notin Seq(Items)}
<1>0. N \in Nat /\ Place = 1 .. N /\ Len(text) \in Nat
  BY TextFacts DEF Place
<1>1. Bad = {}
  <2> SUFFICES ASSUME Bad # {} PROVE FALSE
    OBVIOUS
  <2>1. PICK b \in Bad : \A q \in Bad : q <= b
    <3>1. Bad \in SUBSET (0 .. N)
      BY <1>0
    <3> HIDE DEF Bad
    <3> QED
      BY <1>0, <3>1, Greatest
  <2>2. b \in 1 .. N /\ b \in Place /\ TokensFrom[b] \notin Seq(Items)
    BY <1>0, <2>1
  <2>3. \A q \in b + 1 .. N : TokensFrom[q] \in Seq(Items)
    <3>1. \A q \in b + 1 .. N : q \notin Bad /\ q \in 1 .. N
      <4>1. \A q \in b + 1 .. N : ~(q <= b) /\ q \in 1 .. N
        BY <1>0, <2>2
      <4> HIDE DEF Bad
      <4> QED
        BY <2>1, <4>1
    <3> QED
      BY <3>1
  <2>4. TokensFrom[b] = TokensAt(TokensFrom, b)
    BY <2>2, TokensIs
  <2>5. CASE b > Len(text)
    <3>1. TokensFrom[b] = << >>
      BY <2>4, <2>5, Zenon DEF TokensAt
    <3> QED
      BY <2>2, <3>1
  <2>6. CASE ~(b > Len(text)) /\ Ends(b) = {}
    <3>1. TokensFrom[b] = <<[type |-> <<"none">>, at |-> b, upto |-> b]>>
      BY <2>4, <2>6, Zenon DEF TokensAt
    <3>2. [type |-> <<"none">>, at |-> b, upto |-> b] \in Items
      BY <1>0, <2>2 DEF Items, Kinds
    <3> QED
      BY <2>2, <3>1, <3>2
  <2>7. CASE ~(b > Len(text)) /\ Ends(b) # {}
    <3> DEFINE q == Longest(b)
               s == Part(text, b, q)
               t == [type |-> KindOf(s), at |-> b, upto |-> q]
    <3>1. q \in b .. Len(text)
      BY <1>0, <2>2, <2>7, LongestFacts
    <3>2. TokensFrom[b] = (IF Skipped(s) THEN << >> ELSE <<t>>) \o TokensFrom[q + 1]
      BY <2>4, <2>7, Zenon DEF TokensAt
    <3>3. KindOf(s) \in Kinds
      BY Zenon DEF KindOf, Kinds
    <3> HIDE DEF s
    <3>4. TokensFrom[q + 1] \in Seq(Items) /\ q \in Nat /\ b \in Nat
      BY <1>0, <2>2, <2>3, <3>1
    <3> HIDE DEF q
    <3>5. t \in Items
      BY <3>3, <3>4 DEF Items
    <3> HIDE DEF t
    <3> QED
      BY <2>2, <3>2, <3>4, <3>5
  <2> QED
    BY <2>5, <2>6, <2>7
<1> QED
  BY <1>0, <1>1

\* The lexeme from p to q is the longest at p.
Munches(p, q) == q \in Ends(p) /\ \A r \in Ends(p) : r <= q

\* The tokens from p on are the lexeme there, unless it is skipped, and those behind it.
LEMMA Munched ==
  ASSUME text \in Texts, NEW p \in 1 .. Len(text), NEW q \in p .. Len(text), Munches(p, q)
  PROVE  /\ Skipped(Part(text, p, q)) => TokensFrom[p] = TokensFrom[q + 1]
         /\ ~Skipped(Part(text, p, q)) =>
              TokensFrom[p] = <<[type |-> KindOf(Part(text, p, q)), at |-> p, upto |-> q]>> \o TokensFrom[q + 1]
<1>0. p \in Place /\ ~(p > Len(text)) /\ Ends(p) # {} /\ q + 1 \in Place
  BY TextFacts DEF Place, Munches
<1>1. Longest(p) = q
  BY <1>0, LongestFacts DEF Munches
<1>2. TokensFrom[p] = TokensAt(TokensFrom, p)
  BY <1>0, TokensIs
<1>3. TokensAt(TokensFrom, p) =
        (IF Skipped(Part(text, p, q)) THEN << >>
         ELSE <<[type |-> KindOf(Part(text, p, q)), at |-> p, upto |-> q]>>) \o TokensFrom[q + 1]
  BY <1>0, <1>1, Zenon DEF TokensAt
<1>4. TokensFrom[q + 1] \in Seq(Items)
  BY <1>0, TokensType
<1>5. << >> \o TokensFrom[q + 1] = TokensFrom[q + 1]
  BY <1>4
<1> QED
  BY <1>2, <1>3, <1>5, Zenon

\* The first character of a number is a digit.
LEMMA NumberStarts ==
  ASSUME text \in Texts, NEW p \in 1 .. Len(text), NEW q \in p .. Len(text), Number(p, q)
  PROVE  text[p] \in Digits
<1>0. p \in Int /\ q \in Int
  OBVIOUS
<1>1. ASSUME NEW r \in p .. q, Decimal(p, r) PROVE text[p] \in Digits
  <2>1. CASE p <= r /\ Run(p, r, Digits)
    BY <1>0, <2>1 DEF Run
  <2>2. CASE \E m \in p + 1 .. r - 1 : text[m] = "." /\ Run(p, m - 1, Digits) /\ Run(m + 1, r, Digits)
    <3>1. PICK m \in p + 1 .. r - 1 : Run(p, m - 1, Digits)
      BY <2>2
    <3>2. p \in p .. m - 1
      BY <1>0, <3>1
    <3> QED
      BY <3>1, <3>2 DEF Run
  <2> QED
    BY <1>1, <2>1, <2>2 DEF Decimal
<1>2. ASSUME NEW m \in p + 1 .. q - 1, Decimal(p, m - 1) PROVE text[p] \in Digits
  <2>1. m - 1 \in p .. q
    BY <1>0
  <2> QED
    BY <1>1, <1>2, <2>1
<1>3. q \in p .. q
  BY <1>0
<1> QED
  BY <1>1, <1>2, <1>3 DEF Number

\* What may begin with a character.
LEMMA EndIs ==
  ASSUME text \in Texts, NEW p \in 1 .. Len(text), NEW q \in p .. Len(text)
  PROVE  LET s == Part(text, p, q)  c == text[p] IN
         /\ c \in Letters \cup {"h1", "h2"} =>
              /\ IsWord(s) <=> Wordly(p, q)
              /\ Lexical(s) <=> Wordly(p, q)
              /\ ~Skipped(s) /\ KindOf(s) = IdType(s)
         /\ c \in Digits =>
              /\ Lexical(s) <=> Number(p, q)
              /\ ~Skipped(s) /\ KindOf(s) = IF Number(p, q) THEN <<"num">> ELSE <<"id">>
         /\ c \in Blanks => ~Lexical(s) /\ (Skipped(s) <=> q = p)
         /\ c = "/" => (Lexical(s) <=> s \in TypeTable) /\ (Skipped(s) <=> LineTo(p, q) \/ BlockTo(p, q))
         /\ c \in OneTypes \cup {"!"} => (Lexical(s) <=> s \in TypeTable)
         /\ c \in (OneTypes \cup {"!"}) \ {"/"} => ~Skipped(s)
         /\ c \in {"@", "c"} => ~Lexical(s)
<1> DEFINE s == Part(text, p, q)
           c == text[p]
<1>0. p \in Int /\ q \in Int /\ p <= q /\ p \in Place /\ q \in p - 1 .. Len(text) /\ c \in Chars
  BY TextFacts DEF Place
<1>1. (IsWord(s) => c \in Letters \cup {"h1", "h2"} /\ Wordly(p, q))
      /\ (c \in Letters \cup {"h1", "h2"} /\ Wordly(p, q) => IsWord(s))
  BY <1>0, WordIs
<1>2. (IsNumber(s) <=> Number(p, q)) /\ (Number(p, q) => c \in Digits)
  BY <1>0, NumberIs, NumberStarts
<1>3. s \in TypeTable => c \in OneTypes \/ c = "!" \/ (q = p + 1 /\ c = "i" /\ text[q] = "f")
  BY TypeIs DEF TwoTypes, OneTypes
<1>4. IsSpace(s) <=> q = p /\ c \in Blanks
  BY SpaceIs
<1>5. (IsLine(s) <=> LineTo(p, q)) /\ (LineTo(p, q) => c = "/")
  BY LineIs DEF LineTo
<1>6. (IsBlock(s) <=> BlockTo(p, q)) /\ (BlockTo(p, q) => c = "/")
  BY BlockIs DEF BlockTo
<1>7. q = p + 1 /\ c = "i" /\ text[q] = "f" => Wordly(p, q)
  <2>1. ASSUME q = p + 1, c = "i", text[q] = "f", NEW j \in p .. q PROVE text[j] \in Letters \cup Digits
    <3>1. j = p \/ j = q
      BY <1>0, <2>1
    <3> QED
      BY <2>1, <3>1 DEF Letters
  <2> QED
    BY <2>1 DEF Wordly
<1> HIDE DEF s, c
<1>8. c \in Letters \cup {"h1", "h2"} => /\ c \notin Digits /\ c \notin Blanks /\ c # "/"
                                         /\ c \notin OneTypes /\ c # "!"
  BY DEF Letters, Digits, Blanks, OneTypes
<1>9. c \in Digits => /\ c \notin Letters \cup {"h1", "h2"} /\ c \notin Blanks /\ c # "/" /\ c # "i"
                      /\ c \notin OneTypes /\ c # "!"
  BY DEF Letters, Digits, Blanks, OneTypes
<1>10. c \in Blanks => /\ c \notin Letters \cup {"h1", "h2"} /\ c \notin Digits /\ c # "/" /\ c # "i"
                       /\ c \notin OneTypes /\ c # "!"
  BY DEF Letters, Digits, Blanks, OneTypes
<1>11. c \in OneTypes \cup {"!"} => c \notin Letters \cup {"h1", "h2"} /\ c \notin Digits /\ c \notin Blanks
  BY DEF Letters, Digits, Blanks, OneTypes
<1>12. c \in {"@", "c"} => /\ c \notin Letters \cup {"h1", "h2"} /\ c \notin Digits /\ c # "i"
                           /\ c \notin OneTypes /\ c # "!"
  BY DEF Letters, Digits, OneTypes
<1>13. c = "/" => c \in OneTypes \cup {"!"}
  BY DEF OneTypes
<1>14. c \in Letters \cup {"h1", "h2"} =>
         /\ IsWord(s) <=> Wordly(p, q)
         /\ Lexical(s) <=> Wordly(p, q)
         /\ ~Skipped(s) /\ KindOf(s) = IdType(s)
  BY <1>1, <1>2, <1>3, <1>4, <1>5, <1>6, <1>7, <1>8 DEF Lexical, Skipped, KindOf, IdType
<1>15. c \in Digits =>
         /\ Lexical(s) <=> Number(p, q)
         /\ ~Skipped(s) /\ KindOf(s) = IF Number(p, q) THEN <<"num">> ELSE <<"id">>
  BY <1>1, <1>2, <1>3, <1>4, <1>5, <1>6, <1>9 DEF Lexical, Skipped, KindOf
<1>16. c \in Blanks => ~Lexical(s) /\ (Skipped(s) <=> q = p)
  BY <1>1, <1>2, <1>3, <1>4, <1>5, <1>6, <1>10 DEF Lexical, Skipped
<1>17. c = "/" => (Lexical(s) <=> s \in TypeTable) /\ (Skipped(s) <=> LineTo(p, q) \/ BlockTo(p, q))
  BY <1>1, <1>2, <1>4, <1>5, <1>6, <1>11, <1>13 DEF Lexical, Skipped
<1>18. /\ c \in OneTypes \cup {"!"} => (Lexical(s) <=> s \in TypeTable)
       /\ c \in (OneTypes \cup {"!"}) \ {"/"} => ~Skipped(s)
  BY <1>1, <1>2, <1>4, <1>5, <1>6, <1>11 DEF Lexical, Skipped
<1>19. c \in {"@", "c"} => ~Lexical(s)
  BY <1>1, <1>2, <1>3, <1>12 DEF Lexical
<1> QED
  BY <1>14, <1>15, <1>16, <1>17, <1>18, <1>19 DEF s, c

-----------------------------------------------------------------------------
(* The words that IdGen takes. *)

\* Characters of an identifier.
WordChars == Letters \cup Digits \cup High

\* No character begins behind a byte that announces one.
LEMMA Whole ==
  ASSUME text \in Texts, ~Stray, NEW k \in Place,
         \/ k = 1
         \/ text[k - 1] \notin {"h1", "h2"} /\ ~(k > 2 /\ text[k - 1] = "c" /\ text[k - 2] = "h2")
  PROVE  Ch(k) # "c"
<1>1. k \in Nat \ {0} /\ DOMAIN text = 1 .. Len(text) /\ ("c" # "eof")
  BY TextFacts DEF Place
<1>2. ASSUME Ch(k) = "c" PROVE FALSE
  <2>1. k \in DOMAIN text /\ text[k] = "c"
    BY <1>1, <1>2, TextFacts
  <2>2. ~(k > 1 /\ text[k - 1] \in {"h1", "h2"}) /\ ~(k > 2 /\ text[k - 1] = "c" /\ text[k - 2] = "h2")
    BY <1>1
  <2> QED
    BY <2>1, <2>2 DEF Stray
<1> QED
  BY <1>2

\* Two words side by side are a word.
LEMMA WordsJoin ==
  ASSUME NEW p \in Int, NEW q \in Int, NEW e \in Int, p <= q, q <= e, Wordly(p, q), Wordly(q + 1, e)
  PROVE  Wordly(p, e)
<1>1. ASSUME NEW j \in p .. e
      PROVE  \/ text[j] \in Letters \cup Digits
             \/ text[j] = "h1" /\ j < e /\ text[j + 1] = "c"
             \/ text[j] = "h2" /\ j + 1 < e /\ text[j + 1] = "c" /\ text[j + 2] = "c"
             \/ text[j] = "c" /\ ((j > p /\ text[j - 1] \in {"h1", "h2"}) \/ (j > p + 1 /\ text[j - 2] = "h2"))
  <2>1. CASE j <= q
    <3>1. j \in p .. q /\ (j < q => j < e) /\ (j + 1 < q => j + 1 < e)
      BY <2>1
    <3> QED
      BY <3>1 DEF Wordly
  <2>2. CASE j > q
    <3>1. j \in q + 1 .. e /\ (j > q + 1 => j > p) /\ (j > q + 1 + 1 => j > p + 1)
      BY <2>2
    <3> QED
      BY <3>1 DEF Wordly
  <2> QED
    BY <2>1, <2>2
<1> QED
  BY <1>1, Zenon DEF Wordly

\* Two adjacent parts.
LEMMA PartsJoin ==
  ASSUME text \in Texts, NEW p \in Place, NEW q \in p - 1 .. Len(text), NEW e \in q .. Len(text)
  PROVE  Part(text, p, e) = Part(text, p, q) \o Part(text, q + 1, e)
<1> DEFINE x == Part(text, p, q)
           m == q + 1
           y == Part(text, m, e)
           z == Part(text, p, e)
<1>0. p \in Int /\ q \in Int /\ e \in Int /\ p >= 1 /\ p - 1 <= q /\ q <= e /\ e <= Len(text) /\ Len(text) \in Nat
  BY TextFacts DEF Place
<1>1. m \in Place /\ e \in m - 1 .. Len(text) /\ e \in p - 1 .. Len(text) /\ e - m + 1 = e - q
  BY <1>0 DEF Place
<1> HIDE DEF m
<1>2. x \in Seq(Chars) /\ Len(x) = q - p + 1 /\ \A k \in 1 .. q - p + 1 : x[k] = text[p + k - 1]
  BY PartIs
<1>3. y \in Seq(Chars) /\ Len(y) = e - q /\ \A k \in 1 .. e - q : y[k] = text[m + k - 1]
  BY <1>1, PartIs
<1>4. z \in Seq(Chars) /\ Len(z) = e - p + 1 /\ \A k \in 1 .. e - p + 1 : z[k] = text[p + k - 1]
  BY <1>1, PartIs
<1> HIDE DEF x, y, z
<1>5. Len(z) = Len(x) + Len(y)
  BY <1>0, <1>2, <1>3, <1>4
<1>6. \A k \in 1 .. Len(x) : z[k] = x[k]
  <2>1. \A k \in 1 .. q - p + 1 : k \in 1 .. e - p + 1
    BY <1>0
  <2> QED
    BY <1>2, <1>4, <2>1
<1>7. ASSUME NEW k \in 1 .. Len(y) PROVE z[Len(x) + k] = y[k]
  <2> DEFINE i == Len(x) + k
  <2>1. i \in 1 .. e - p + 1 /\ p + i - 1 = m + k - 1
    BY <1>0, <1>2, <1>3 DEF m
  <2> HIDE DEF i
  <2>2. z[i] = y[k]
    BY <1>3, <1>4, <2>1
  <2> QED
    BY <2>2 DEF i
<1>8. z = x \o y
  BY <1>2, <1>3, <1>4, <1>5, <1>6, <1>7, Concatenation
<1> QED
  BY <1>8 DEF x, y, z, m

\* A word that is not broken, in a text whose bytes are characters, is what it says.
WordOf(p, r) ==
  ~Stray /\ p \in Place /\ Ch(p) # "c" /\ r.broken = 0 =>
    /\ r.next \in p .. Len(text) + 1 /\ Ch(r.next) \notin WordChars
    /\ r.name = Part(text, p, r.next - 1)
    /\ Wordly(p, r.next - 1) /\ Run(p, r.next - 1, WordChars)

\* What Rest reads when a letter or a digit comes first.
LEMMA RestLetter ==
  ASSUME text \in Texts, NEW p \in 1 .. Len(text) + 3, Ch(p) \in Letters \cup Digits
  PROVE  /\ p \in 1 .. Len(text) /\ text[p] = Ch(p) /\ text[p] \notin High
         /\ Rest[p] = [Rest[p + 1] EXCEPT !.columns = @ + 1, !.name = <<text[p]>> \o @]
<1>1. p \in Nat \ {0} /\ Len(text) \in Nat
  BY TextFacts
<1>2. p \in 1 .. Len(text) /\ text[p] = Ch(p) /\ Ch(p) \notin High /\ Announced(Ch(p)) = 0
  BY <1>1, TextFacts DEF Letters, Digits, High, Announced
<1>3. Rest[p + 1 + Announced(Ch(p))] = Rest[p + 1]
  BY <1>1, <1>2
<1> QED
  BY <1>2, <1>3, RestIs DEF RestAt, InWord

\* At the head of a character.
LEMMA RestHead ==
  ASSUME text \in Texts, NEW p \in 1 .. Len(text) + 3, Ch(p) \in {"h1", "h2"}
  PROVE  LET n == Announced(Ch(p))
             found == {k \in 1 .. n : Ch(p + k) = "c"}
             bytes == [k \in 1 .. Cardinality(found) |-> "c"]
             short == IF found = 1 .. n THEN 0 ELSE 1
         IN  /\ p \in 1 .. Len(text) /\ text[p] = Ch(p) /\ n \in 1 .. 2
             /\ Rest[p] = [Rest[p + 1 + n] EXCEPT !.columns = @ + 2 + short,
                             !.name = <<text[p]>> \o bytes \o @, !.broken = @ + short]
<1> DEFINE n == Announced(Ch(p))
           found == {k \in 1 .. n : Ch(p + k) = "c"}
           bytes == [k \in 1 .. Cardinality(found) |-> "c"]
           short == IF found = 1 .. n THEN 0 ELSE 1
<1>1. /\ p \in 1 .. Len(text) /\ text[p] = Ch(p) /\ n \in 1 .. 2
      /\ Ch(p) \notin Letters \cup Digits /\ Ch(p) \in High
  BY TextFacts DEF Letters, Digits, High, Utf8Hdchk, Announced
<1>2. n > 0 /\ n # 0
  BY <1>1
<1>3. RestAt(Rest, p) = [Rest[p + 1 + n] EXCEPT !.columns = @ + 2 + short,
                           !.name = <<Ch(p)>> \o bytes \o @, !.broken = @ + short]
  BY <1>1, <1>2, Zenon DEF RestAt, InWord
<1>4. Rest[p] = RestAt(Rest, p)
  BY RestIs
<1> QED
  BY <1>1, <1>3, <1>4, Zenon

\* What Rest reads in front of a character that continues no identifier.
LEMMA RestEnds ==
  ASSUME text \in Texts, NEW p \in 1 .. Len(text) + 3, Ch(p) \notin WordChars
  PROVE  Rest[p] = [next |-> p, columns |-> 0, name |-> << >>, broken |-> 0]
<1>1. Ch(p) \notin Letters \cup Digits /\ Ch(p) \notin High
  BY DEF WordChars
<1> QED
  BY <1>1, RestIs, Zenon DEF RestAt, InWord

\* An identifier from p on is a record.
LEMMA RestType ==
  ASSUME text \in Texts, NEW p \in 1 .. Len(text) + 3
  PROVE  /\ Rest[p] = [next |-> Rest[p].next, columns |-> Rest[p].columns, name |-> Rest[p].name,
                       broken |-> Rest[p].broken]
         /\ Rest[p].broken \in Nat
<1> DEFINE N == Len(text) + 3
           Right(q) == /\ Rest[q] = [next |-> Rest[q].next, columns |-> Rest[q].columns,
                                     name |-> Rest[q].name, broken |-> Rest[q].broken]
                       /\ Rest[q].broken \in Nat
           Bad == {q \in 1 .. N : ~Right(q)}
<1>0. N \in Nat /\ Len(text) \in Nat
  BY TextFacts
<1>1. Bad = {}
  <2> SUFFICES ASSUME Bad # {} PROVE FALSE
    OBVIOUS
  <2>1. PICK b \in Bad : \A q \in Bad : q <= b
    <3>1. Bad \in SUBSET (0 .. N)
      BY <1>0
    <3> HIDE DEF Bad
    <3> QED
      BY <1>0, <3>1, Greatest
  <2>2. b \in 1 .. N /\ ~Right(b)
    BY <2>1
  <2>3. \A q \in b + 1 .. N : Right(q)
    <3>1. \A q \in b + 1 .. N : q \notin Bad /\ q \in 1 .. N
      <4>1. \A q \in b + 1 .. N : ~(q <= b) /\ q \in 1 .. N
        BY <1>0, <2>2
      <4> HIDE DEF Bad
      <4> QED
        BY <2>1, <4>1
    <3> QED
      BY <3>1
  <2>4. WordFrom(b, Rest[b])
    <3>1. \A q \in b + 1 .. Len(text) + 3 : WordFrom(q, Rest[q])
      <4>1. ASSUME NEW q \in b + 1 .. Len(text) + 3 PROVE WordFrom(q, Rest[q])
        <5>1. CASE q \in Place
          BY <5>1, RestFacts
        <5>2. CASE q \notin Place
          BY <2>3, <4>1, <5>2 DEF WordFrom
        <5> QED
          BY <5>1, <5>2
      <4> QED
        BY <4>1
    <3> QED
      BY <2>2, <3>1, RestStep
  <2> QED
    BY <2>2, <2>4 DEF WordFrom
<1> QED
  BY <1>1

\* An identifier that begins with a letter or a digit is read as a word.
LEMMA LetterTaken ==
  ASSUME text \in Texts, NEW p \in 1 .. Len(text) + 3, Ch(p) \in Letters \cup Digits,
         WordOf(p + 1, Rest[p + 1])
  PROVE  WordOf(p, Rest[p])
<1> DEFINE r == Rest[p + 1]
           s == Rest[p]
<1>0. p \in Nat \ {0} /\ Len(text) \in Nat
  BY TextFacts
<1>1. /\ p \in 1 .. Len(text) /\ text[p] = Ch(p) /\ text[p] \notin High
      /\ s = [r EXCEPT !.columns = @ + 1, !.name = <<text[p]>> \o @]
  BY RestLetter
<1>2. p + 1 \in 1 .. Len(text) + 3 /\ p + 1 \in Place /\ p \in Place
  BY <1>0, <1>1 DEF Place
<1>3. r = [next |-> r.next, columns |-> r.columns, name |-> r.name, broken |-> r.broken]
  BY <1>2, RestType
<1> HIDE DEF r, s
<1>4. s.next = r.next /\ s.name = <<text[p]>> \o r.name /\ s.broken = r.broken
  BY <1>1, <1>3
<1>5. ASSUME ~Stray, s.broken = 0
      PROVE  /\ s.next \in p .. Len(text) + 1 /\ Ch(s.next) \notin WordChars
             /\ s.name = Part(text, p, s.next - 1)
             /\ Wordly(p, s.next - 1) /\ Run(p, s.next - 1, WordChars)
  <2>1. Ch(p + 1) # "c"
    <3> DEFINE k == p + 1
    <3>1. k \in Place /\ k - 1 = p
      BY <1>0, <1>2
    <3> HIDE DEF k
    <3>2. text[k - 1] \notin {"h1", "h2"} /\ text[k - 1] # "c"
      BY <1>1, <3>1 DEF High
    <3>3. Ch(k) # "c"
      BY <1>5, <3>1, <3>2, Whole
    <3> QED
      BY <3>3 DEF k
  <2>2. /\ r.next \in p + 1 .. Len(text) + 1 /\ Ch(r.next) \notin WordChars
        /\ r.name = Part(text, p + 1, r.next - 1)
        /\ Wordly(p + 1, r.next - 1) /\ Run(p + 1, r.next - 1, WordChars)
    BY <1>2, <1>4, <1>5, <2>1 DEF WordOf, r
  <2> DEFINE e == r.next - 1
  <2>3. e \in p .. Len(text) /\ p \in p - 1 .. Len(text) /\ r.next \in p .. Len(text) + 1
    BY <1>0, <1>1, <2>2
  <2> HIDE DEF e
  <2>4. Part(text, p, e) = Part(text, p, p) \o Part(text, p + 1, e)
    BY <1>2, <2>3, PartsJoin
  <2>5. Part(text, p, p) = <<text[p]>>
    BY <1>1, OneIs
  <2>6. Wordly(p, e)
    <3>1. Wordly(p, p)
      BY <1>0, <1>1 DEF Wordly
    <3>2. Wordly(p + 1, e)
      BY <2>2 DEF e
    <3> QED
      BY <1>0, <2>3, <3>1, <3>2, WordsJoin
  <2>7. Run(p, e, WordChars)
    <3>1. Run(p + 1, e, WordChars)
      BY <2>2 DEF e
    <3>2. \A j \in p .. e : j = p \/ j \in p + 1 .. e
      BY <1>0, <2>3
    <3>3. text[p] \in WordChars
      BY <1>1 DEF WordChars
    <3> QED
      BY <3>1, <3>2, <3>3 DEF Run
  <2>8. s.name = Part(text, p, e)
    BY <1>4, <2>2, <2>4, <2>5 DEF e
  <2> QED
    BY <1>4, <2>2, <2>3, <2>6, <2>7, <2>8 DEF e
<1> QED
  BY <1>5 DEF WordOf, s

\* What a head takes, if it is not broken.
LEMMA HeadBytes ==
  ASSUME text \in Texts, NEW p \in 1 .. Len(text), text[p] \in {"h1", "h2"}, NEW n, n = Announced(text[p]),
         \A k \in 1 .. n : Ch(p + k) = "c"
  PROVE  /\ n \in 1 .. 2 /\ p + n \in 1 .. Len(text)
         /\ Wordly(p, p + n) /\ Run(p, p + n, WordChars)
         /\ <<text[p]>> \o [k \in 1 .. n |-> "c"] = Part(text, p, p + n)
         /\ ~Stray => Ch(p + 1 + n) # "c"
<1>0. p \in Nat \ {0} /\ Len(text) \in Nat
  BY TextFacts
<1>1. (text[p] = "h1" /\ n = 1) \/ (text[p] = "h2" /\ n = 2)
  BY DEF Announced, Utf8Hdchk, High
<1>2. ASSUME NEW k \in 1 .. n PROVE p + k \in 1 .. Len(text) /\ text[p + k] = "c"
  <2>1. p + k \in Nat \ {0} /\ Ch(p + k) = "c"
    BY <1>0, <1>1
  <2> QED
    BY <2>1, TextFacts
<1>3. p + n \in 1 .. Len(text) /\ p + n \in p - 1 .. Len(text)
  <2>1. n \in 1 .. n
    BY <1>1
  <2> QED
    BY <1>0, <1>1, <1>2, <2>1
<1>4. Wordly(p, p + n) /\ Run(p, p + n, WordChars)
  <2>1. CASE text[p] = "h1" /\ n = 1
    <3>1. text[p + 1] = "c"
      BY <1>2, <2>1
    <3>2. \A j \in p .. p + 1 : j = p \/ j = p + 1
      BY <1>0
    <3>3. Wordly(p, p + 1)
      <4>1. ASSUME NEW j \in p .. p + 1
            PROVE  \/ text[j] = "h1" /\ j < p + 1 /\ text[j + 1] = "c"
                   \/ text[j] = "c" /\ j > p /\ text[j - 1] \in {"h1", "h2"}
        <5>1. CASE j = p
          BY <1>0, <2>1, <3>1, <5>1
        <5>2. CASE j = p + 1
          <6>1. j - 1 = p /\ j > p
            BY <1>0, <5>2
          <6> QED
            BY <2>1, <3>1, <5>2, <6>1
        <5> QED
          BY <3>2, <5>1, <5>2
      <4> QED
        BY <4>1, Zenon DEF Wordly
    <3>4. Run(p, p + 1, WordChars)
      BY <2>1, <3>1, <3>2 DEF Run, WordChars, High
    <3> QED
      BY <2>1, <3>3, <3>4
  <2>2. CASE text[p] = "h2" /\ n = 2
    <3>1. text[p + 1] = "c" /\ text[p + 2] = "c"
      BY <1>2, <2>2
    <3>2. \A j \in p .. p + 2 : j = p \/ j = p + 1 \/ j = p + 2
      BY <1>0
    <3>3. Wordly(p, p + 2)
      <4>1. ASSUME NEW j \in p .. p + 2
            PROVE  \/ text[j] = "h2" /\ j + 1 < p + 2 /\ text[j + 1] = "c" /\ text[j + 2] = "c"
                   \/ text[j] = "c" /\ j > p /\ text[j - 1] \in {"h1", "h2"}
                   \/ text[j] = "c" /\ j > p + 1 /\ text[j - 2] = "h2"
        <5>1. CASE j = p
          BY <1>0, <2>2, <3>1, <5>1
        <5>2. CASE j = p + 1
          <6>1. j - 1 = p /\ j > p
            BY <1>0, <5>2
          <6> QED
            BY <2>2, <3>1, <5>2, <6>1
        <5>3. CASE j = p + 2
          <6>1. j - 2 = p /\ j > p + 1
            BY <1>0, <5>3
          <6> QED
            BY <2>2, <3>1, <5>3, <6>1
        <5> QED
          BY <3>2, <5>1, <5>2, <5>3
      <4> QED
        BY <4>1, Zenon DEF Wordly
    <3>4. Run(p, p + 2, WordChars)
      BY <2>2, <3>1, <3>2 DEF Run, WordChars, High
    <3> QED
      BY <2>2, <3>3, <3>4
  <2> QED
    BY <1>1, <2>1, <2>2
<1>5. <<text[p]>> \o [k \in 1 .. n |-> "c"] = Part(text, p, p + n)
  <2> DEFINE x == <<text[p]>>
             y == [k \in 1 .. n |-> "c"]
             q == p + n
             z == Part(text, p, q)
  <2>1. z \in Seq(Chars) /\ Len(z) = q - p + 1 /\ \A k \in 1 .. q - p + 1 : z[k] = text[p + k - 1]
    <3>1. p \in Place
      BY <1>0 DEF Place
    <3>2. q \in p - 1 .. Len(text)
      BY <1>3
    <3> HIDE DEF q
    <3> QED
      BY <3>1, <3>2, PartIs
  <2>2. x \in Seq(Chars) /\ Len(x) = 1 /\ x[1] = text[p] /\ y \in Seq(Chars) /\ Len(y) = n
        /\ \A k \in 1 .. n : y[k] = "c"
    <3>1. text[p] \in Chars /\ "c" \in Chars
      BY <1>0, TextFacts DEF Chars, High
    <3>2. n \in Nat
      BY <1>1
    <3> HIDE DEF x, y
    <3>3. x \in Seq(Chars) /\ Len(x) = 1 /\ x[1] = text[p]
      BY <3>1 DEF x
    <3>4. y \in Seq(Chars) /\ Len(y) = n /\ \A k \in 1 .. n : y[k] = "c"
      BY <3>1, <3>2 DEF y
    <3> QED
      BY <3>3, <3>4
  <2>3. q - p + 1 = 1 + n
    BY <1>0, <1>1
  <2> HIDE DEF x, y, z, q
  <2>4. Len(z) = Len(x) + Len(y)
    BY <2>1, <2>2, <2>3
  <2>5. \A k \in 1 .. Len(x) : z[k] = x[k]
    <3>1. 1 \in 1 .. q - p + 1 /\ p + 1 - 1 = p
      BY <1>0, <1>1, <2>3
    <3>2. z[1] = x[1]
      BY <2>1, <2>2, <3>1
    <3>3. \A k \in 1 .. Len(x) : k = 1
      BY <2>2
    <3> QED
      BY <3>2, <3>3
  <2>6. ASSUME NEW k \in 1 .. Len(y) PROVE z[Len(x) + k] = y[k]
    <3>1. 1 + k \in 1 .. q - p + 1 /\ p + (1 + k) - 1 = p + k /\ k \in 1 .. n
      BY <1>0, <1>1, <2>2, <2>3
    <3>2. z[1 + k] = text[p + k]
      BY <2>1, <3>1
    <3> QED
      BY <1>2, <2>2, <3>1, <3>2
  <2>7. z = x \o y
    BY <2>1, <2>2, <2>4, <2>5, <2>6, Concatenation
  <2> QED
    BY <2>7 DEF x, y, z, q
<1>6. ASSUME ~Stray PROVE Ch(p + 1 + n) # "c"
  <2> DEFINE k == p + 1 + n
  <2>1. k \in Place /\ k - 1 = p + n /\ n \in 1 .. n
    BY <1>0, <1>1, <1>3 DEF Place
  <2>2. text[k - 1] = "c"
    BY <1>2, <2>1
  <2>3. text[k - 2] # "h2" \/ ~(k > 2)
    <3>1. CASE n = 1
      <4>1. k - 2 = p
        BY <1>0, <3>1
      <4> HIDE DEF k
      <4> QED
        BY <1>1, <3>1, <4>1
    <3>2. CASE n = 2
      <4>1. k - 2 = p + 1
        BY <1>0, <3>2
      <4>2. text[p + 1] = "c"
        BY <1>2, <3>2
      <4> HIDE DEF k
      <4> QED
        BY <4>1, <4>2
    <3> QED
      BY <1>1, <3>1, <3>2
  <2> HIDE DEF k
  <2>4. Ch(k) # "c"
    BY <1>6, <2>1, <2>2, <2>3, Whole
  <2> QED
    BY <2>4 DEF k
<1> QED
  BY <1>1, <1>3, <1>4, <1>5, <1>6

\* An identifier that begins with a character of several bytes is read as a word.
LEMMA HeadTaken ==
  ASSUME text \in Texts, NEW p \in 1 .. Len(text) + 3, Ch(p) \in {"h1", "h2"},
         \A q \in p + 1 .. Len(text) + 3 : WordOf(q, Rest[q])
  PROVE  WordOf(p, Rest[p])
<1> DEFINE n == Announced(Ch(p))
           found == {k \in 1 .. n : Ch(p + k) = "c"}
           bytes == [k \in 1 .. Cardinality(found) |-> "c"]
           short == IF found = 1 .. n THEN 0 ELSE 1
           m == p + 1 + n
           r == Rest[m]
           s == Rest[p]
<1>0. p \in Nat \ {0} /\ Len(text) \in Nat
  BY TextFacts
<1>1. /\ p \in 1 .. Len(text) /\ text[p] = Ch(p) /\ n \in 1 .. 2
      /\ s = [r EXCEPT !.columns = @ + 2 + short, !.name = <<text[p]>> \o bytes \o @, !.broken = @ + short]
  BY RestHead
<1>2. m \in p + 1 .. Len(text) + 3 /\ m \in 1 .. Len(text) + 3 /\ m - 1 = p + n
  BY <1>0, <1>1
<1>3. r = [next |-> r.next, columns |-> r.columns, name |-> r.name, broken |-> r.broken] /\ r.broken \in Nat
  BY <1>2, RestType
<1>4. short \in {0, 1} /\ (short = 0 => found = 1 .. n) /\ text[p] \in {"h1", "h2"} /\ n = Announced(text[p])
  BY <1>1
<1>5. found = 1 .. n => bytes = [k \in 1 .. n |-> "c"]
  <2>1. Cardinality(1 .. n) = n
    <3> HIDE DEF n
    <3>1. n \in Int /\ 1 \in Int /\ 1 <= n
      BY <1>1
    <3>2. Cardinality(1 .. n) = n - 1 + 1
      BY <3>1, FS_Interval
    <3> QED
      BY <3>1, <3>2
  <2> HIDE DEF found
  <2> QED
    BY <2>1
<1>6. WordOf(m, r)
  BY <1>2
<1>7. found = 1 .. n => \A k \in 1 .. n : Ch(p + k) = "c"
  OBVIOUS
<1> HIDE DEF r, s, m, n, found, bytes, short
<1>8. s.next = r.next /\ s.name = <<text[p]>> \o bytes \o r.name /\ s.broken = r.broken + short
  BY <1>1, <1>3
<1>9. ASSUME ~Stray, s.broken = 0
      PROVE  /\ s.next \in p .. Len(text) + 1 /\ Ch(s.next) \notin WordChars
             /\ s.name = Part(text, p, s.next - 1)
             /\ Wordly(p, s.next - 1) /\ Run(p, s.next - 1, WordChars)
  <2>1. r.broken = 0 /\ found = 1 .. n
    BY <1>3, <1>4, <1>8, <1>9
  <2>2. /\ p + n \in 1 .. Len(text) /\ Wordly(p, p + n) /\ Run(p, p + n, WordChars)
        /\ <<text[p]>> \o [k \in 1 .. n |-> "c"] = Part(text, p, p + n)
        /\ Ch(p + 1 + n) # "c"
    BY <1>1, <1>4, <1>7, <1>9, <2>1, HeadBytes
  <2>3. m \in Place /\ Ch(m) # "c" /\ p \in Place
    BY <1>0, <1>1, <1>2, <2>2 DEF Place, m
  <2>4. /\ r.next \in m .. Len(text) + 1 /\ Ch(r.next) \notin WordChars
        /\ r.name = Part(text, m, r.next - 1)
        /\ Wordly(m, r.next - 1) /\ Run(m, r.next - 1, WordChars)
    BY <1>6, <1>9, <2>1, <2>3 DEF WordOf
  <2> DEFINE e == r.next - 1
             q == p + n
  <2>5. q \in p .. e /\ q \in p - 1 .. Len(text) /\ e \in q .. Len(text) /\ r.next \in p .. Len(text) + 1
        /\ q + 1 = m /\ q \in Int /\ e \in Int /\ p <= q /\ q <= e
    <3>1. r.next \in Int /\ m <= r.next /\ r.next <= Len(text) + 1 /\ m \in Int /\ n \in 1 .. 2
      BY <1>0, <1>1, <1>2, <2>4
    <3> DEFINE f == r.next
    <3>2. f \in Int /\ m <= f /\ f <= Len(text) + 1 /\ e = f - 1 /\ r.next = f
      BY <3>1
    <3>3. q \in Int /\ q = m - 1 /\ p + 1 <= q /\ q <= Len(text)
      BY <1>0, <1>1, <1>2, <2>2
    <3> HIDE DEF e, f, q
    <3> QED
      BY <1>0, <3>1, <3>2, <3>3
  <2> HIDE DEF e, q
  <2>6. Wordly(p, e)
    <3>1. Wordly(q + 1, e) /\ Wordly(p, q)
      BY <2>2, <2>4, <2>5 DEF e, q
    <3> QED
      BY <1>0, <2>5, <3>1, WordsJoin
  <2>7. Run(p, e, WordChars)
    <3>1. Run(q + 1, e, WordChars) /\ Run(p, q, WordChars)
      BY <2>2, <2>4, <2>5 DEF e, q
    <3>2. \A j \in p .. e : j \in p .. q \/ j \in q + 1 .. e
      BY <1>0, <2>5
    <3> QED
      BY <3>1, <3>2 DEF Run
  <2>8. Part(text, p, e) = Part(text, p, q) \o Part(text, q + 1, e)
    BY <2>3, <2>5, PartsJoin
  <2>9. <<text[p]>> \o bytes = Part(text, p, q)
    BY <1>5, <2>1, <2>2 DEF q
  <2>10. s.name = Part(text, p, e)
    BY <1>8, <2>4, <2>5, <2>8, <2>9 DEF e
  <2> QED
    BY <1>8, <2>4, <2>5, <2>6, <2>7, <2>10 DEF e
<1> QED
  BY <1>9 DEF WordOf, s

\* Whatever identifier is read, none of its bytes missing, is a word that nothing continues.
LEMMA WordTaken ==
  ASSUME text \in Texts, NEW p \in Place
  PROVE  WordOf(p, Rest[p])
<1> DEFINE N == Len(text) + 3
           Bad == {q \in 1 .. N : ~WordOf(q, Rest[q])}
<1>0. N \in Nat /\ p \in 1 .. N
  BY TextFacts DEF Place
<1>1. Bad = {}
  <2> SUFFICES ASSUME Bad # {} PROVE FALSE
    OBVIOUS
  <2>1. PICK b \in Bad : \A q \in Bad : q <= b
    <3>1. Bad \in SUBSET (0 .. N)
      BY <1>0
    <3> HIDE DEF Bad
    <3> QED
      BY <1>0, <3>1, Greatest
  <2>2. b \in 1 .. N /\ b \in 1 .. Len(text) + 3 /\ ~WordOf(b, Rest[b])
    BY <2>1
  <2>3. \A q \in b + 1 .. N : WordOf(q, Rest[q])
    <3>1. \A q \in b + 1 .. N : q \notin Bad /\ q \in 1 .. N
      <4>1. \A q \in b + 1 .. N : ~(q <= b) /\ q \in 1 .. N
        BY <1>0, <2>2
      <4> HIDE DEF Bad
      <4> QED
        BY <2>1, <4>1
    <3> QED
      BY <3>1
  <2>4. CASE Ch(b) \in Letters \cup Digits
    <3>1. b \in 1 .. Len(text)
      BY <2>2, <2>4, RestLetter
    <3>2. b + 1 \in b + 1 .. N
      BY <1>0, <3>1
    <3> QED
      BY <2>2, <2>3, <2>4, <3>2, LetterTaken
  <2>5. CASE Ch(b) \in {"h1", "h2"}
    BY <2>2, <2>3, <2>5, HeadTaken
  <2>6. CASE Ch(b) = "c"
    BY <2>2, <2>6 DEF WordOf
  <2>7. CASE Ch(b) \notin WordChars
    <3>1. Rest[b] = [next |-> b, columns |-> 0, name |-> << >>, broken |-> 0]
      BY <2>2, <2>7, RestEnds
    <3>2. ASSUME b \in Place
          PROVE  b \in b .. Len(text) + 1 /\ << >> = Part(text, b, b - 1)
                 /\ Wordly(b, b - 1) /\ Run(b, b - 1, WordChars)
      <4>0. b \in Int /\ b .. b - 1 = {} /\ b - 1 < b /\ b \in b .. Len(text) + 1
        BY <2>2, <3>2 DEF Place
      <4>1. Part(text, b, b - 1) = << >>
        BY <4>0, SubSeqEmpty DEF Part
      <4> QED
        BY <4>0, <4>1 DEF Wordly, Run
    <3>3. WordOf(b, Rest[b])
      BY <2>7, <3>1, <3>2 DEF WordOf
    <3> QED
      BY <2>2, <3>3
  <2> QED
    BY <2>4, <2>5, <2>6, <2>7 DEF WordChars, High
<1> QED
  BY <1>0, <1>1

\* A word up to a character that continues none is read whole.
LEMMA WordRead ==
  ASSUME text \in Texts, NEW e \in 0 .. Len(text), Ch(e + 1) \notin WordChars,
         NEW p \in 1 .. e + 1, Wordly(p, e)
  PROVE  Rest[p].next = e + 1 /\ Rest[p].broken = 0
<1> DEFINE N == e + 1
           Right(q) == Wordly(q, e) => Rest[q].next = N /\ Rest[q].broken = 0
           Bad == {q \in 1 .. N : ~Right(q)}
<1>0. N \in Nat /\ N >= 1 /\ Len(text) \in Nat /\ e \in Nat /\ e = N - 1 /\ N <= Len(text) + 1
  BY TextFacts
<1>e. Ch(N) \notin WordChars
  OBVIOUS
<1> HIDE DEF N
<1>1. Bad = {}
  <2> SUFFICES ASSUME Bad # {} PROVE FALSE
    OBVIOUS
  <2>1. PICK b \in Bad : \A q \in Bad : q <= b
    <3>1. Bad \in SUBSET (0 .. N)
      BY <1>0
    <3> HIDE DEF Bad
    <3> QED
      BY <1>0, <3>1, Greatest
  <2>2. b \in 1 .. N /\ ~Right(b) /\ Wordly(b, e) /\ b \in 1 .. Len(text) + 3
    BY <1>0, <2>1
  <2>3. \A q \in b + 1 .. N : Right(q)
    <3>1. \A q \in b + 1 .. N : q \notin Bad /\ q \in 1 .. N
      <4>1. \A q \in b + 1 .. N : ~(q <= b) /\ q \in 1 .. N
        BY <1>0, <2>2
      <4> HIDE DEF Bad
      <4> QED
        BY <2>1, <4>1
    <3> QED
      BY <3>1
  <2> HIDE DEF Bad
  <2>4. CASE b = N
    <3>1. Rest[b] = [next |-> b, columns |-> 0, name |-> << >>, broken |-> 0]
      BY <1>e, <2>2, <2>4, RestEnds
    <3> QED
      BY <2>2, <2>4, <3>1
  <2>5. CASE b # N
    <3>1. b \in 1 .. e /\ b \in b .. e /\ b \in 1 .. Len(text) /\ Ch(b) = text[b]
      BY <1>0, <2>2, <2>5, TextFacts
    <3>2. \/ text[b] \in Letters \cup Digits
          \/ text[b] = "h1" /\ b < e /\ text[b + 1] = "c"
          \/ text[b] = "h2" /\ b + 1 < e /\ text[b + 1] = "c" /\ text[b + 2] = "c"
      <4>1. ~(b > b) /\ ~(b > b + 1)
        BY <3>1
      <4> QED
        BY <2>2, <3>1, <4>1 DEF Wordly
    \* What a character leaves is a word too.
    <3>3. ASSUME NEW n \in 0 .. 2, b + n <= e, \A i \in b + 1 .. b + n : text[i] = "c",
                 n = 0 => text[b] \notin {"h1", "h2"}, n = 1 => text[b] = "h1"
          PROVE  Wordly(b + 1 + n, e) /\ b + 1 + n \in b + 1 .. N
      <4>1. ASSUME NEW j \in b + 1 + n .. e
            PROVE  \/ text[j] \in Letters \cup Digits
                   \/ text[j] = "h1" /\ j < e /\ text[j + 1] = "c"
                   \/ text[j] = "h2" /\ j + 1 < e /\ text[j + 1] = "c" /\ text[j + 2] = "c"
                   \/ text[j] = "c" /\ \/ j > b + 1 + n /\ text[j - 1] \in {"h1", "h2"}
                                       \/ j > b + 1 + n + 1 /\ text[j - 2] = "h2"
        <5>1. \/ text[j] \in Letters \cup Digits
              \/ text[j] = "h1" /\ j < e /\ text[j + 1] = "c"
              \/ text[j] = "h2" /\ j + 1 < e /\ text[j + 1] = "c" /\ text[j + 2] = "c"
              \/ text[j] = "c" /\ ((j > b /\ text[j - 1] \in {"h1", "h2"}) \/ (j > b + 1 /\ text[j - 2] = "h2"))
          <6>1. j \in b .. e
            BY <1>0, <3>1
          <6> QED
            BY <2>2, <6>1, Zenon DEF Wordly
        <5>2. ASSUME text[j - 1] \in {"h1", "h2"} PROVE j > b + 1 + n
          <6>1. CASE j = b + 1 + n
            <7>1. j - 1 = b + n
              BY <3>1, <6>1
            <7>2. CASE n = 0
              BY <3>1, <3>3, <5>2, <7>1, <7>2
            <7>3. CASE n # 0
              <8>1. b + n \in b + 1 .. b + n
                BY <3>1, <7>3
              <8> QED
                BY <3>3, <5>2, <7>1, <8>1
            <7> QED
              BY <7>2, <7>3
          <6> QED
            BY <3>1, <6>1
        <5>3. ASSUME text[j - 2] = "h2", j > b + 1 PROVE j > b + 1 + n + 1
          <6>1. j - 2 >= b /\ (j - 2 = b \/ j - 2 \in b + 1 .. b + n \/ j > b + 1 + n + 1)
            BY <3>1, <5>3
          <6>2. j - 2 \notin b + 1 .. b + n
            BY <3>3, <5>3
          <6>3. j - 2 # b
            <7>1. CASE j - 2 = b
              <8>1. n <= 1
                BY <3>1, <7>1
              <8> QED
                BY <3>3, <5>3, <7>1, <8>1
            <7> QED
              BY <7>1
          <6> QED
            BY <6>1, <6>2, <6>3
        <5> QED
          BY <5>1, <5>2, <5>3
      <4>2. Wordly(b + 1 + n, e)
        BY <4>1, Zenon DEF Wordly
      <4>3. b + 1 + n \in b + 1 .. N
        BY <1>0, <3>1, <3>3
      <4> QED
        BY <4>2, <4>3
    <3>4. CASE text[b] \in Letters \cup Digits
      <4>1. Rest[b] = [Rest[b + 1] EXCEPT !.columns = @ + 1, !.name = <<text[b]>> \o @]
        BY <2>2, <3>1, <3>4, RestLetter
      <4>2. 0 \in 0 .. 2 /\ b + 0 <= e /\ b + 1 .. b + 0 = {} /\ b + 1 + 0 = b + 1
        BY <3>1
      <4>3. text[b] \notin {"h1", "h2"}
        BY <3>4 DEF Letters, Digits
      <4>4. Wordly(b + 1, e) /\ b + 1 \in b + 1 .. N
        BY <3>3, <4>2, <4>3
      <4>5. Rest[b + 1].next = N /\ Rest[b + 1].broken = 0
        BY <2>3, <4>4
      <4>6. Rest[b + 1] = [next |-> Rest[b + 1].next, columns |-> Rest[b + 1].columns,
                           name |-> Rest[b + 1].name, broken |-> Rest[b + 1].broken]
        <5>1. b + 1 \in 1 .. Len(text) + 3
          BY <1>0, <3>1
        <5> QED
          BY <5>1, RestType
      <4>7. Rest[b].next = N /\ Rest[b].broken = 0
        BY <4>1, <4>5, <4>6
      <4> QED
        BY <2>2, <4>7
    <3>5. ASSUME NEW n, n = Announced(text[b]), text[b] \in {"h1", "h2"}, n \in 1 .. 2, b + n <= e,
                 \A i \in b + 1 .. b + n : text[i] = "c", n = 1 => text[b] = "h1"
          PROVE  FALSE
      <4> DEFINE found == {k \in 1 .. n : Ch(b + k) = "c"}
                 bytes == [k \in 1 .. Cardinality(found) |-> "c"]
                 short == IF found = 1 .. n THEN 0 ELSE 1
                 r == Rest[b + 1 + n]
      <4>1. Rest[b] = [r EXCEPT !.columns = @ + 2 + short, !.name = <<text[b]>> \o bytes \o @,
                                !.broken = @ + short]
        <5>1. Ch(b) \in {"h1", "h2"} /\ n = Announced(Ch(b)) /\ text[b] = Ch(b)
          BY <3>1, <3>5
        <5> QED
          BY <2>2, <5>1, RestHead, Zenon
      <4>2. short = 0
        <5>1. ASSUME NEW k \in 1 .. n PROVE Ch(b + k) = "c"
          <6>1. b + k \in b + 1 .. b + n /\ b + k \in 1 .. Len(text)
            BY <1>0, <3>1, <3>5
          <6> QED
            BY <3>5, <6>1, TextFacts
        <5> QED
          BY <5>1
      <4>3. n \in 0 .. 2 /\ n # 0
        BY <3>5
      <4>4. Wordly(b + 1 + n, e) /\ b + 1 + n \in b + 1 .. N
        BY <3>3, <3>5, <4>3
      <4>5. r.next = N /\ r.broken = 0
        BY <2>3, <4>4
      <4>6. r = [next |-> r.next, columns |-> r.columns, name |-> r.name, broken |-> r.broken]
        <5>1. b + 1 + n \in 1 .. Len(text) + 3
          BY <1>0, <3>1, <4>4
        <5> QED
          BY <5>1, RestType
      <4> HIDE DEF r, bytes, short, found
      <4>7. Rest[b].next = N /\ Rest[b].broken = 0
        BY <4>1, <4>2, <4>5, <4>6
      <4> QED
        BY <2>2, <4>7
    <3>6. CASE text[b] = "h1" /\ b < e /\ text[b + 1] = "c"
      <4>1. Announced(text[b]) = 1
        BY <3>6 DEF Announced, Utf8Hdchk, High
      <4>2. b + 1 <= e /\ (\A i \in b + 1 .. b + 1 : i = b + 1) /\ 1 \in 1 .. 2
        BY <3>1, <3>6
      <4> QED
        BY <3>5, <3>6, <4>1, <4>2
    <3>7. CASE text[b] = "h2" /\ b + 1 < e /\ text[b + 1] = "c" /\ text[b + 2] = "c"
      <4>1. Announced(text[b]) = 2
        BY <3>7 DEF Announced, Utf8Hdchk, High
      <4>2. b + 2 <= e /\ (\A i \in b + 1 .. b + 2 : i = b + 1 \/ i = b + 2) /\ 2 \in 1 .. 2 /\ 2 # 1
        BY <3>1, <3>7
      <4> QED
        BY <3>5, <3>7, <4>1, <4>2
    <3> QED
      BY <3>2, <3>4, <3>6, <3>7
  <2> QED
    BY <2>4, <2>5
<1>2. p \in 1 .. N
  BY <1>0
<1>3. Right(p)
  BY <1>1, <1>2
<1> QED
  BY <1>3 DEF N

-----------------------------------------------------------------------------
(* The numbers that NumGen takes. *)

\* The place behind the sign of an exponent, if it has one.
Sign(f) == IF Ch(f + 1) \in Signs THEN f + 2 ELSE f + 1

\* From p to q are characters of a number before its exponent.
DecimalChars == Digits \cup {"."}

\* A number up to its exponent.
LEMMA DecimalTaken ==
  ASSUME text \in Texts, NEW p \in 1 .. Len(text), text[p] \in Digits, NEW f, f = Fraction(Past(p, Digits))
  PROVE  /\ f \in p + 1 .. Len(text) + 1 /\ Decimal(p, f - 1) /\ Run(p, f - 1, DecimalChars)
         /\ Ch(f) \notin Digits
         /\ \A q \in p .. Len(text) : Decimal(p, q) => q < f
<1> DEFINE w == Past(p, Digits)
<1>0. p \in Nat /\ Len(text) \in Nat /\ p \in Place /\ "eof" \notin Digits
  BY TextFacts DEF Place, Digits
<1>1. w \in p .. Len(text) + 1 /\ Ch(w) \notin Digits /\ \A m \in p .. w - 1 : text[m] \in Digits
  BY <1>0, PastFacts
<1> HIDE DEF w
<1>2. w \in p + 1 .. Len(text) + 1
  <2>1. w # p
    BY <1>0, <1>1, TextFacts
  <2> QED
    BY <1>0, <1>1, <2>1
<1>3. Run(p, w - 1, Digits) /\ w - 1 \in Int /\ p <= w - 1
  BY <1>0, <1>1, <1>2 DEF Run
<1>4. ASSUME NEW q \in p .. Len(text), Run(p, q, Digits) PROVE q < w
  <2>1. CASE w <= q
    <3>1. w \in p .. q /\ w \in 1 .. Len(text)
      BY <1>0, <1>2, <2>1
    <3>2. text[w] \in Digits /\ Ch(w) = text[w]
      BY <1>4, <3>1, TextFacts DEF Run
    <3> QED
      BY <1>1, <3>2
  <2> QED
    BY <1>0, <1>2, <2>1
\* The point of a decimal is where the digits end.
<1>5. ASSUME NEW q \in p .. Len(text), NEW m \in p + 1 .. q - 1, text[m] = ".", Run(p, m - 1, Digits)
      PROVE  m = w /\ Ch(w) = "."
  <2>1. m - 1 \in p .. Len(text) /\ m \in 1 .. Len(text) /\ m - 1 < w
    BY <1>0, <1>4, <1>5
  <2>2. m \notin p .. w - 1
    BY <1>1, <1>5 DEF Digits
  <2>3. m = w
    BY <1>0, <1>2, <2>1, <2>2
  <2> QED
    BY <1>5, <2>1, <2>3, TextFacts
<1>6. CASE Ch(w) = "." /\ Past(w + 1, Digits) > w + 1
  <2>1. f = Past(w + 1, Digits)
    BY <1>6 DEF Fraction, w
  <2>2. w \in 1 .. Len(text) /\ text[w] = "." /\ w + 1 \in Place
    <3>1. w \in Nat \ {0} /\ Ch(w) # "eof"
      BY <1>0, <1>2, <1>6
    <3> QED
      BY <1>0, <1>6, <3>1, TextFacts DEF Place
  <2>3. /\ f \in w + 1 .. Len(text) + 1 /\ Ch(f) \notin Digits
        /\ \A m \in w + 1 .. f - 1 : text[m] \in Digits
    BY <1>0, <2>1, <2>2, PastFacts
  <2>4. f > w + 1
    BY <1>6, <2>1
  <2>5. Decimal(p, f - 1)
    <3>1. w \in p + 1 .. f - 1 - 1
      BY <1>0, <1>2, <2>3, <2>4
    <3>2. Run(w + 1, f - 1, Digits)
      BY <2>3 DEF Run
    <3> QED
      BY <1>3, <2>2, <3>1, <3>2 DEF Decimal
  <2>6. Run(p, f - 1, DecimalChars)
    <3>1. \A j \in p .. f - 1 : j \in p .. w - 1 \/ j = w \/ j \in w + 1 .. f - 1
      BY <1>0, <1>2, <2>3
    <3> QED
      BY <1>1, <2>2, <2>3, <3>1 DEF Run, DecimalChars
  <2>7. ASSUME NEW q \in p .. Len(text), Decimal(p, q) PROVE q < f
    <3>1. CASE p <= q /\ Run(p, q, Digits)
      <4>1. q < w
        BY <1>4, <3>1
      <4> QED
        BY <1>0, <1>2, <2>3, <4>1
    <3>2. CASE \E m \in p + 1 .. q - 1 : text[m] = "." /\ Run(p, m - 1, Digits) /\ Run(m + 1, q, Digits)
      <4>1. PICK m \in p + 1 .. q - 1 : text[m] = "." /\ Run(p, m - 1, Digits) /\ Run(m + 1, q, Digits)
        BY <3>2
      <4>2. m = w
        BY <1>5, <4>1
      <4>3. CASE f <= q
        <5>1. f \in w + 1 .. q /\ f \in 1 .. Len(text)
          BY <1>0, <1>2, <2>3, <4>3
        <5>2. text[f] \in Digits /\ Ch(f) = text[f]
          BY <4>1, <4>2, <5>1, TextFacts DEF Run
        <5> QED
          BY <2>3, <5>2
      <4> QED
        BY <1>0, <1>2, <2>3, <4>3
    <3> QED
      BY <2>7, <3>1, <3>2 DEF Decimal
  <2>8. f \in p + 1 .. Len(text) + 1
    BY <1>0, <1>2, <2>3
  <2> QED
    BY <2>3, <2>5, <2>6, <2>7, <2>8
<1>7. CASE ~(Ch(w) = "." /\ Past(w + 1, Digits) > w + 1)
  <2>1. f = w
    BY <1>7 DEF Fraction, w
  <2>2. Decimal(p, f - 1) /\ Run(p, f - 1, DecimalChars)
    BY <1>3, <2>1 DEF Decimal, Run, DecimalChars
  <2>3. ASSUME NEW q \in p .. Len(text), Decimal(p, q) PROVE q < f
    <3>1. CASE p <= q /\ Run(p, q, Digits)
      BY <1>4, <2>1, <3>1
    <3>2. CASE \E m \in p + 1 .. q - 1 : text[m] = "." /\ Run(p, m - 1, Digits) /\ Run(m + 1, q, Digits)
      <4>1. PICK m \in p + 1 .. q - 1 : text[m] = "." /\ Run(p, m - 1, Digits) /\ Run(m + 1, q, Digits)
        BY <3>2
      <4>2. m = w /\ Ch(w) = "."
        BY <1>5, <4>1
      <4>3. w + 1 \in Place /\ w + 1 \in 1 .. Len(text) /\ w + 1 \in w + 1 .. q
        BY <1>0, <1>2, <4>1, <4>2 DEF Place
      <4>4. Past(w + 1, Digits) \in w + 1 .. Len(text) + 1 /\ Ch(Past(w + 1, Digits)) \notin Digits
        BY <1>0, <4>3, PastFacts
      <4>5. text[w + 1] \in Digits /\ Ch(w + 1) = text[w + 1]
        BY <4>1, <4>2, <4>3, TextFacts DEF Run
      <4>6. Past(w + 1, Digits) # w + 1
        BY <4>4, <4>5
      <4>7. Past(w + 1, Digits) > w + 1
        BY <1>0, <1>2, <4>4, <4>6
      <4> QED
        BY <1>7, <4>2, <4>7
    <3> QED
      BY <2>3, <3>1, <3>2 DEF Decimal
  <2> QED
    BY <1>1, <1>2, <2>1, <2>2, <2>3
<1> QED
  BY <1>6, <1>7

\* The characters of a number.
NumberChars == Digits \cup Signs \cup {".", "e"}

\* The exponent that num_gen reads is the longest one there.
LEMMA ExponentTaken ==
  ASSUME text \in Texts, NEW f \in 1 .. Len(text), Ch(f) = "e", NEW x, x = Past(Sign(f), Digits)
  PROVE  /\ x \in f + 1 .. Len(text) + 1 /\ Sign(f) \in f + 1 .. x /\ Run(f, x - 1, NumberChars)
         /\ x # Sign(f) => Exponent(f + 1, x - 1)
         /\ \A q \in f + 1 .. Len(text) : Exponent(f + 1, q) => q < x /\ x # Sign(f)
<1>0. f \in Nat \ {0} /\ Len(text) \in Nat /\ text[f] = "e" /\ "eof" \notin Digits
  BY TextFacts DEF Digits
<1>1. /\ Sign(f) \in Place /\ Sign(f) \in f + 1 .. f + 2
      /\ Sign(f) = f + 2 => f + 1 \in 1 .. Len(text) /\ text[f + 1] \in Signs
      /\ Sign(f) = f + 1 => Ch(f + 1) \notin Signs
  <2>1. CASE Ch(f + 1) \in Signs
    <3>1. f + 1 \in 1 .. Len(text) /\ text[f + 1] \in Signs
      <4>1. f + 1 \in Nat \ {0} /\ Ch(f + 1) # "eof"
        BY <1>0, <2>1 DEF Signs
      <4> QED
        BY <2>1, <4>1, TextFacts
    <3> QED
      BY <1>0, <2>1, <3>1 DEF Sign, Place
  <2>2. CASE Ch(f + 1) \notin Signs
    BY <1>0, <2>2 DEF Sign, Place
  <2> QED
    BY <2>1, <2>2
<1>2. x \in Sign(f) .. Len(text) + 1 /\ Ch(x) \notin Digits /\ \A m \in Sign(f) .. x - 1 : text[m] \in Digits
  BY <1>0, <1>1, PastFacts
<1>3. x \in f + 1 .. Len(text) + 1 /\ Sign(f) \in f + 1 .. x
  BY <1>0, <1>1, <1>2
<1>4. Run(f, x - 1, NumberChars)
  <2>1. ASSUME NEW j \in f .. x - 1 PROVE text[j] \in NumberChars
    <3>1. j = f \/ (j = f + 1 /\ Sign(f) = f + 2) \/ j \in Sign(f) .. x - 1
      BY <1>0, <1>1, <1>3
    <3> QED
      BY <1>0, <1>1, <1>2, <3>1 DEF NumberChars
  <2> QED
    BY <2>1 DEF Run
<1>5. ASSUME x # Sign(f) PROVE Exponent(f + 1, x - 1)
  <2>1. CASE Sign(f) = f + 1
    <3>1. f + 1 <= x - 1 /\ Run(f + 1, x - 1, Digits)
      BY <1>0, <1>2, <1>3, <1>5, <2>1 DEF Run
    <3> QED
      BY <3>1 DEF Exponent
  <2>2. CASE Sign(f) = f + 2
    <3>1. f + 1 + 1 <= x - 1 /\ f + 1 + 1 = f + 2
      BY <1>0, <1>2, <1>3, <1>5, <2>2
    <3>2. Run(f + 1 + 1, x - 1, Digits)
      BY <1>2, <2>2, <3>1 DEF Run
    <3> QED
      BY <1>1, <2>2, <3>1, <3>2 DEF Exponent
  <2> QED
    BY <1>0, <1>1, <2>1, <2>2
<1>6. ASSUME NEW q \in f + 1 .. Len(text), Exponent(f + 1, q) PROVE q < x /\ x # Sign(f)
  <2>1. Sign(f) \in f + 1 .. q /\ \A j \in Sign(f) .. q : text[j] \in Digits
    <3>1. CASE f + 1 <= q /\ Run(f + 1, q, Digits)
      <4>1. text[f + 1] \in Digits /\ f + 1 \in 1 .. Len(text)
        BY <1>0, <3>1 DEF Run
      <4>2. Sign(f) = f + 1
        <5>1. Sign(f) # f + 2
          BY <1>1, <4>1 DEF Digits, Signs
        <5> QED
          BY <1>0, <1>1, <5>1
      <4> QED
        BY <1>0, <3>1, <4>2 DEF Run
    <3>2. CASE f + 1 + 1 <= q /\ text[f + 1] \in Signs /\ Run(f + 1 + 1, q, Digits)
      <4>1. Sign(f) = f + 2
        <5>1. f + 1 \in 1 .. Len(text)
          BY <1>0
        <5>2. Ch(f + 1) \in Signs
          BY <3>2, <5>1, TextFacts
        <5> QED
          BY <1>0, <1>1, <5>2
      <4>2. f + 1 + 1 = f + 2
        BY <1>0
      <4> QED
        BY <1>0, <3>2, <4>1, <4>2 DEF Run
    <3> QED
      BY <1>6, <3>1, <3>2 DEF Exponent
  <2>2. x > q
    <3>1. CASE x <= q
      <4>1. x \in Sign(f) .. q /\ x \in 1 .. Len(text)
        BY <1>0, <1>1, <1>2, <3>1
      <4>2. text[x] \in Digits /\ Ch(x) = text[x]
        BY <2>1, <4>1, TextFacts
      <4> QED
        BY <1>2, <4>2
    <3> QED
      BY <1>0, <1>3, <3>1
  <2> QED
    BY <1>0, <1>3, <2>1, <2>2
<1> QED
  BY <1>3, <1>4, <1>5, <1>6

\* The end of a number at p, and whether its exponent lacks digits.
NumberEnd(p) ==
  LET f == Fraction(Past(p, Digits)) IN IF Ch(f) = "e" THEN Past(Sign(f), Digits) ELSE f
Unfinished(p) ==
  LET f == Fraction(Past(p, Digits)) IN Ch(f) = "e" /\ Past(Sign(f), Digits) = Sign(f)

\* The number that num_gen reads is the longest one there, if its exponent has digits.
LEMMA NumberTaken ==
  ASSUME text \in Texts, NEW p \in 1 .. Len(text), text[p] \in Digits
  PROVE  /\ NumberEnd(p) \in p + 1 .. Len(text) + 1 /\ Run(p, NumberEnd(p) - 1, NumberChars)
         /\ ~Unfinished(p) => Number(p, NumberEnd(p) - 1)
         /\ \A q \in p .. Len(text) : Number(p, q) =>
              q < NumberEnd(p) /\ (Unfinished(p) => q + 1 < NumberEnd(p))
<1> DEFINE f == Fraction(Past(p, Digits))
           x == Past(Sign(f), Digits)
<1>0. p \in Nat /\ Len(text) \in Nat
  BY TextFacts
<1>1. /\ f \in p + 1 .. Len(text) + 1 /\ Decimal(p, f - 1) /\ Run(p, f - 1, DecimalChars)
      /\ \A q \in p .. Len(text) : Decimal(p, q) => q < f
  BY DecimalTaken
<1>n. (NumberEnd(p) = IF Ch(f) = "e" THEN x ELSE f) /\ (Unfinished(p) <=> Ch(f) = "e" /\ x = Sign(f))
  BY DEF NumberEnd, Unfinished
<1> HIDE DEF f
\* The exponent is behind the longest decimal.
<1>2. ASSUME NEW q \in p .. Len(text), NEW m \in p + 1 .. q - 1, text[m] = "e", Decimal(p, m - 1)
      PROVE  m = f /\ Ch(f) = "e"
  <2>1. m - 1 \in p .. Len(text) /\ m \in 1 .. Len(text)
    BY <1>0
  <2>2. m - 1 < f
    BY <1>1, <1>2, <2>1
  <2>3. m \notin p .. f - 1
    BY <1>1, <1>2 DEF Run, DecimalChars, Digits
  <2>4. m = f
    BY <1>0, <1>1, <2>1, <2>2, <2>3
  <2> QED
    BY <1>2, <2>1, <2>4, TextFacts
<1>3. CASE Ch(f) = "e"
  <2>1. f \in 1 .. Len(text) /\ text[f] = "e"
    BY <1>0, <1>1, <1>3, TextFacts
  <2>2. /\ x \in f + 1 .. Len(text) + 1 /\ Run(f, x - 1, NumberChars)
        /\ x # Sign(f) => Exponent(f + 1, x - 1)
        /\ \A q \in f + 1 .. Len(text) : Exponent(f + 1, q) => q < x /\ x # Sign(f)
    BY <1>3, <2>1, ExponentTaken, Zenon
  <2> HIDE DEF x
  <2>3. x \in p + 1 .. Len(text) + 1
    BY <1>0, <1>1, <2>2
  <2>4. Run(p, x - 1, NumberChars)
    <3>1. \A j \in p .. x - 1 : j \in p .. f - 1 \/ j \in f .. x - 1
      BY <1>0, <1>1, <2>2
    <3> QED
      BY <1>1, <2>2, <3>1 DEF Run, NumberChars, DecimalChars
  <2>5. ASSUME x # Sign(f) PROVE Number(p, x - 1)
    <3>1. Exponent(f + 1, x - 1)
      BY <2>2, <2>5
    <3>2. f + 1 <= x - 1
      BY <1>0, <1>1, <2>2, <3>1 DEF Exponent
    <3>3. f \in p + 1 .. x - 1 - 1
      BY <1>0, <1>1, <2>2, <3>2
    <3> QED
      BY <1>1, <2>1, <3>1, <3>3 DEF Number
  <2>6. ASSUME NEW q \in p .. Len(text), Number(p, q)
        PROVE  q < x /\ (x = Sign(f) => q + 1 < x)
    <3>1. CASE Decimal(p, q)
      <4>1. q < f
        BY <1>1, <3>1
      <4> QED
        BY <1>0, <1>1, <2>2, <4>1
    <3>2. CASE \E m \in p + 1 .. q - 1 : text[m] = "e" /\ Decimal(p, m - 1) /\ Exponent(m + 1, q)
      <4>1. PICK m \in p + 1 .. q - 1 : text[m] = "e" /\ Decimal(p, m - 1) /\ Exponent(m + 1, q)
        BY <3>2
      <4>2. m = f
        BY <1>2, <4>1
      <4>3. q \in f + 1 .. Len(text)
        BY <1>0, <1>1, <4>1, <4>2
      <4> QED
        BY <2>2, <4>1, <4>2, <4>3
    <3> QED
      BY <2>6, <3>1, <3>2 DEF Number
  <2> QED
    BY <1>n, <1>3, <2>3, <2>4, <2>5, <2>6
<1>4. CASE Ch(f) # "e"
  <2>1. NumberEnd(p) = f /\ ~Unfinished(p)
    BY <1>n, <1>4
  <2>2. Run(p, f - 1, NumberChars)
    BY <1>1 DEF Run, NumberChars, DecimalChars
  <2>3. Number(p, f - 1)
    BY <1>1 DEF Number
  <2>4. ASSUME NEW q \in p .. Len(text), Number(p, q) PROVE q < f
    <3>1. Decimal(p, q)
      BY <1>2, <1>4, <2>4 DEF Number
    <3> QED
      BY <1>1, <3>1
  <2> QED
    BY <1>1, <2>1, <2>2, <2>3, <2>4
<1> QED
  BY <1>3, <1>4

\* The tokens of a text depend on the text alone.
LEMMA SameTokens ==
  ASSUME text' = text
  PROVE  TokensFrom' = TokensFrom /\ Reference' = Reference /\ (Stray' <=> Stray)
<1>1. \A p : Ends(p)' = Ends(p)
  BY DEF Ends
<1>2. \A p : Longest(p)' = Longest(p)
  BY <1>1, Zenon DEF Longest
<1>3. \A f, p : TokensAt(f, p)' = TokensAt(f, p)
  BY <1>1, <1>2, Zenon DEF TokensAt
<1>4. TokensFrom' = TokensFrom
  BY <1>3, Zenon DEF TokensFrom
<1>5. Stray' <=> Stray
  BY DEF Stray
<1> QED
  BY <1>4, <1>5 DEF Reference

-----------------------------------------------------------------------------
(* What a branch of scan takes is the longest lexeme. *)

\* To show that q is the end of the longest lexeme at p.
LEMMA MunchesIf ==
  ASSUME NEW p, NEW q \in p .. Len(text), Lexical(Part(text, p, q)) \/ Skipped(Part(text, p, q)),
         \A r \in p .. Len(text) : Lexical(Part(text, p, r)) \/ Skipped(Part(text, p, r)) => r <= q
  PROVE  Munches(p, q)
<1>1. q \in Ends(p)
  BY DEF Ends
<1>2. \A r \in Ends(p) : r \in p .. Len(text) /\ (Lexical(Part(text, p, r)) \/ Skipped(Part(text, p, r)))
  BY DEF Ends
<1> QED
  BY <1>1, <1>2 DEF Munches

\* An identifier, read whole, is the longest lexeme at its place.
LEMMA WordMunch ==
  ASSUME text \in Texts, ~Stray, NEW p \in 1 .. Len(text), Ch(p) \in Letters \cup {"h1", "h2"},
         NEW r, r = Rest[p], r.broken = 0
  PROVE  /\ r.next - 1 \in p .. Len(text) /\ r.next - 1 + 1 = r.next /\ Munches(p, r.next - 1)
         /\ ~Skipped(Part(text, p, r.next - 1))
         /\ KindOf(Part(text, p, r.next - 1)) = IdType(r.name)
         /\ Ch(r.next) # "c"
<1> DEFINE e == r.next - 1
<1>0. p \in Nat /\ Len(text) \in Nat /\ p \in Place /\ text[p] = Ch(p) /\ Ch(p) # "c" /\ Ch(p) \in WordChars
  BY TextFacts DEF Place, Letters, WordChars, High
<1>1. /\ r.next \in p .. Len(text) + 1 /\ Ch(r.next) \notin WordChars
      /\ r.name = Part(text, p, e) /\ Wordly(p, e) /\ Run(p, e, WordChars)
  BY <1>0, WordTaken DEF WordOf
<1>2. r.next # p
  BY <1>0, <1>1
<1>3. e \in p .. Len(text) /\ e + 1 = r.next /\ e \in Int
  <2> DEFINE n == r.next
  <2>1. n \in p .. Len(text) + 1 /\ n # p /\ e = n - 1
    BY <1>1, <1>2
  <2> HIDE DEF n, e
  <2>2. e \in p .. Len(text) /\ e + 1 = n /\ e \in Int
    BY <1>0, <2>1
  <2> QED
    BY <2>2 DEF n
<1> HIDE DEF e
<1>4. Lexical(Part(text, p, e)) /\ ~Skipped(Part(text, p, e)) /\ KindOf(Part(text, p, e)) = IdType(Part(text, p, e))
  BY <1>0, <1>1, <1>3, EndIs
<1>5. ASSUME NEW q \in p .. Len(text), Lexical(Part(text, p, q)) \/ Skipped(Part(text, p, q)) PROVE q <= e
  <2>1. Wordly(p, q)
    BY <1>0, <1>5, EndIs
  <2>2. CASE e < q
    <3>1. r.next \in p .. q /\ r.next \in 1 .. Len(text)
      BY <1>0, <1>1, <1>3, <2>2
    <3>2. text[r.next] \in WordChars /\ Ch(r.next) = text[r.next]
      BY <2>1, <3>1, TextFacts DEF Wordly, WordChars, High
    <3> QED
      BY <1>1, <3>2
  <2> QED
    BY <1>0, <1>3, <2>2
<1>6. Munches(p, e)
  BY <1>3, <1>4, <1>5, MunchesIf
<1>7. Ch(r.next) # "c"
  BY <1>1 DEF WordChars, High
<1> QED
  BY <1>1, <1>3, <1>4, <1>6, <1>7 DEF e

\* Behind a character of one byte another begins.
LEMMA NextWhole ==
  ASSUME text \in Texts, ~Stray, NEW q \in 1 .. Len(text), text[q] \notin {"h1", "h2", "c"}
  PROVE  Ch(q + 1) # "c"
<1> DEFINE k == q + 1
<1>1. k \in Place /\ k - 1 = q
  BY TextFacts DEF Place
<1> HIDE DEF k
<1>2. Ch(k) # "c"
  BY <1>1, Whole
<1> QED
  BY <1>2 DEF k

\* So is a number,
LEMMA NumberMunch ==
  ASSUME text \in Texts, ~Stray, NEW p \in 1 .. Len(text), Ch(p) \in Digits, ~Unfinished(p),
         NEW q, q = NumberEnd(p) - 1
  PROVE  /\ q \in p .. Len(text) /\ Munches(p, q) /\ ~Skipped(Part(text, p, q))
         /\ KindOf(Part(text, p, q)) = <<"num">> /\ Ch(q + 1) # "c"
<1>0. p \in Nat /\ Len(text) \in Nat /\ text[p] = Ch(p)
  BY TextFacts
<1>1. /\ NumberEnd(p) \in p + 1 .. Len(text) + 1 /\ Run(p, NumberEnd(p) - 1, NumberChars)
      /\ Number(p, NumberEnd(p) - 1)
      /\ \A r \in p .. Len(text) : Number(p, r) => r < NumberEnd(p)
  BY <1>0, NumberTaken
<1>2. q \in p .. Len(text) /\ Run(p, q, NumberChars) /\ Number(p, q) /\ q \in Int
      /\ \A r \in p .. Len(text) : Number(p, r) => r <= q
  BY <1>0, <1>1
<1>3. /\ Lexical(Part(text, p, q)) /\ ~Skipped(Part(text, p, q)) /\ KindOf(Part(text, p, q)) = <<"num">>
      /\ \A r \in p .. Len(text) : Lexical(Part(text, p, r)) \/ Skipped(Part(text, p, r)) => Number(p, r)
  <2>1. Lexical(Part(text, p, q)) /\ ~Skipped(Part(text, p, q)) /\ KindOf(Part(text, p, q)) = <<"num">>
    BY <1>0, <1>2, EndIs
  <2>2. \A r \in p .. Len(text) : Lexical(Part(text, p, r)) \/ Skipped(Part(text, p, r)) => Number(p, r)
    BY <1>0, EndIs
  <2> QED
    BY <2>1, <2>2
<1>4. Munches(p, q)
  BY <1>2, <1>3, MunchesIf
<1>5. Ch(q + 1) # "c"
  <2>1. q \in 1 .. Len(text) /\ text[q] \in NumberChars
    BY <1>0, <1>2 DEF Run
  <2>2. text[q] \notin {"h1", "h2", "c"}
    BY <2>1 DEF NumberChars, Digits, Signs
  <2> QED
    BY <2>1, <2>2, NextWhole
<1> QED
  BY <1>2, <1>3, <1>4, <1>5

\* An operator of one character, or of two.
LEMMA TypeMunch ==
  ASSUME text \in Texts, ~Stray, NEW p \in 1 .. Len(text), Ch(p) \in OneTypes \cup {"!"},
         NEW q \in p .. Len(text), Part(text, p, q) \in TypeTable,
         q = p => ~(p + 1 <= Len(text) /\ TwoTypes(text[p], text[p + 1])),
         Ch(p) = "/" => Ch(p + 1) \notin {"/", "*"}
  PROVE  /\ Munches(p, q) /\ ~Skipped(Part(text, p, q)) /\ KindOf(Part(text, p, q)) = Type(Part(text, p, q))
         /\ Ch(q + 1) # "c"
<1>0. p \in Nat /\ Len(text) \in Nat /\ text[p] = Ch(p) /\ q \in Int /\ p <= q
  BY TextFacts
<1>1. (q = p /\ text[p] \in OneTypes) \/ (q = p + 1 /\ TwoTypes(text[p], text[p + 1]))
  BY TypeIs
<1>2. ASSUME NEW r \in p .. Len(text) PROVE ~Skipped(Part(text, p, r))
  <2>1. CASE text[p] # "/"
    BY <1>0, <2>1, EndIs
  <2>2. CASE text[p] = "/"
    <3>1. LineTo(p, r) \/ BlockTo(p, r) => p + 1 <= r /\ text[p + 1] \in {"/", "*"}
      BY <1>0 DEF LineTo, BlockTo
    <3>2. p + 1 <= r => p + 1 \in 1 .. Len(text)
      BY <1>0
    <3>3. ~(LineTo(p, r) \/ BlockTo(p, r))
      BY <1>0, <2>2, <3>1, <3>2, TextFacts
    <3> QED
      BY <2>2, <3>3, EndIs
  <2> QED
    BY <2>1, <2>2
<1>3. ASSUME NEW r \in p .. Len(text), Lexical(Part(text, p, r)) \/ Skipped(Part(text, p, r)) PROVE r <= q
  <2>1. Part(text, p, r) \in TypeTable
    BY <1>0, <1>2, <1>3, EndIs
  <2>2. r = p \/ (r = p + 1 /\ TwoTypes(text[p], text[p + 1]))
    BY <2>1, TypeIs
  <2> QED
    BY <1>0, <1>1, <2>2
<1>4. Lexical(Part(text, p, q))
  BY DEF Lexical
<1>5. Munches(p, q)
  BY <1>3, <1>4, MunchesIf
<1>6. KindOf(Part(text, p, q)) = Type(Part(text, p, q))
  BY DEF KindOf, Type
<1>7. q \in 1 .. Len(text) /\ text[q] \notin {"h1", "h2", "c"}
  BY <1>0, <1>1 DEF OneTypes, TwoTypes
<1>8. Ch(q + 1) # "c"
  BY <1>7, NextWhole
<1> QED
  BY <1>2, <1>5, <1>6, <1>8

\* a blank,
LEMMA SpaceMunch ==
  ASSUME text \in Texts, ~Stray, NEW p \in 1 .. Len(text), Ch(p) \in Blanks
  PROVE  Munches(p, p) /\ Skipped(Part(text, p, p)) /\ Ch(p + 1) # "c"
<1>0. p \in Nat /\ Len(text) \in Nat /\ text[p] = Ch(p) /\ p \in p .. Len(text)
  BY TextFacts
<1>1. Skipped(Part(text, p, p))
  BY <1>0, EndIs
<1>2. \A r \in p .. Len(text) : Lexical(Part(text, p, r)) \/ Skipped(Part(text, p, r)) => r = p
  BY <1>0, EndIs
<1>3. Munches(p, p)
  BY <1>0, <1>1, <1>2, MunchesIf
<1>4. Ch(p + 1) # "c"
  <2>1. text[p] \notin {"h1", "h2", "c"}
    BY <1>0 DEF Blanks
  <2> QED
    BY <2>1, NextWhole
<1> QED
  BY <1>1, <1>3, <1>4

\* Two characters from the text.
LEMMA Pair ==
  ASSUME text \in Texts, NEW p \in 1 .. Len(text), Ch(p + 1) # "eof"
  PROVE  p + 1 \in 1 .. Len(text) /\ text[p + 1] = Ch(p + 1)
<1>1. p + 1 \in Nat \ {0}
  BY TextFacts
<1> QED
  BY <1>1, TextFacts

\* and a note.
LEMMA NoteMunch ==
  ASSUME text \in Texts, NEW p \in 1 .. Len(text), Ch(p) = "/", Ch(p + 1) = "/",
         NEW q, q = Past(p, Chars \ {"n"}) - 1
  PROVE  q \in p .. Len(text) /\ Munches(p, q) /\ Skipped(Part(text, p, q)) /\ Ch(q + 1) # "c"
<1> DEFINE n == Past(p, Chars \ {"n"})
<1>0. p \in Nat /\ Len(text) \in Nat /\ text[p] = "/" /\ p \in Place /\ "eof" \notin Chars \ {"n"}
  BY TextFacts DEF Place
<1>1. p + 1 \in 1 .. Len(text) /\ text[p + 1] = "/"
  BY Pair
<1>2. n \in p .. Len(text) + 1 /\ Ch(n) \notin Chars \ {"n"} /\ \A m \in p .. n - 1 : text[m] \in Chars \ {"n"}
  BY <1>0, PastFacts
<1> HIDE DEF n
<1>3. n # p /\ n # p + 1
  <2>1. "/" \in Chars \ {"n"}
    BY DEF Chars, Calc, Signs
  <2> QED
    BY <1>1, <1>2, <2>1
<1>4. q = n - 1 /\ q \in p + 1 .. Len(text) /\ q + 1 = n /\ q \in p .. Len(text)
  BY <1>0, <1>2, <1>3 DEF n
<1>5. LineTo(p, q)
  <2>1. Run(p, q, Chars \ {"n"}) /\ p + 1 <= q
    BY <1>2, <1>4 DEF Run
  <2> QED
    BY <1>0, <1>1, <2>1 DEF LineTo
<1>6. Skipped(Part(text, p, q))
  BY <1>0, <1>4, <1>5, EndIs
<1>7. ASSUME NEW r \in p .. Len(text), Lexical(Part(text, p, r)) \/ Skipped(Part(text, p, r)) PROVE r <= q
  <2>1. r = p \/ LineTo(p, r)
    <3>1. Part(text, p, r) \in TypeTable => r = p
      BY <1>0, TypeIs DEF TwoTypes
    <3>2. ~BlockTo(p, r)
      BY <1>1 DEF BlockTo
    <3> QED
      BY <1>0, <1>7, <3>1, <3>2, EndIs
  <2>2. CASE q < r
    <3>1. LineTo(p, r) /\ n \in p .. r /\ n \in 1 .. Len(text)
      BY <1>0, <1>2, <1>4, <2>1, <2>2
    <3>2. text[n] \in Chars \ {"n"} /\ Ch(n) = text[n]
      BY <3>1, TextFacts DEF LineTo, Run
    <3> QED
      BY <1>2, <3>2
  <2> QED
    BY <1>0, <1>4, <2>2
<1>8. Munches(p, q)
  BY <1>4, <1>6, <1>7, MunchesIf
<1>9. Ch(q + 1) # "c"
  <2>1. "c" \in Chars \ {"n"}
    BY DEF Chars, High
  <2> QED
    BY <1>2, <1>4, <2>1
<1> QED
  BY <1>4, <1>6, <1>8, <1>9

\* A comment ends at its first */.
LEMMA CommentMunch ==
  ASSUME text \in Texts, ~Stray, NEW p \in 1 .. Len(text), Ch(p) = "/", Ch(p + 1) = "*",
         NEW k \in p + 2 .. Len(text) - 1, text[k] = "*", text[k + 1] = "/",
         \A j \in p + 2 .. k - 1 : ~(text[j] = "*" /\ text[j + 1] = "/"),
         NEW q, q = k + 1
  PROVE  q \in p .. Len(text) /\ Munches(p, q) /\ Skipped(Part(text, p, q)) /\ Ch(q + 1) # "c"
<1>0. p \in Nat /\ Len(text) \in Nat /\ text[p] = "/" /\ k \in Int
  BY TextFacts
<1>1. p + 1 \in 1 .. Len(text) /\ text[p + 1] = "*"
  BY Pair
<1>2. q \in p .. Len(text) /\ p + 3 <= q /\ q - 1 = k /\ q - 2 = k - 1 /\ q \in Int
  BY <1>0
<1>3. BlockTo(p, q)
  BY <1>0, <1>1, <1>2 DEF BlockTo
<1>4. Skipped(Part(text, p, q))
  BY <1>0, <1>2, <1>3, EndIs
<1>5. ASSUME NEW r \in p .. Len(text), Lexical(Part(text, p, r)) \/ Skipped(Part(text, p, r)) PROVE r <= q
  <2>1. r = p \/ BlockTo(p, r)
    <3>1. Part(text, p, r) \in TypeTable => r = p
      BY <1>0, TypeIs DEF TwoTypes
    <3>2. ~LineTo(p, r)
      BY <1>1 DEF LineTo
    <3> QED
      BY <1>0, <1>5, <3>1, <3>2, EndIs
  <2>2. CASE q < r
    <3>1. BlockTo(p, r) /\ k \in p + 2 .. r - 2
      BY <1>0, <1>2, <2>1, <2>2
    <3> QED
      BY <3>1 DEF BlockTo
  <2> QED
    BY <1>0, <1>2, <2>2
<1>6. Munches(p, q)
  BY <1>2, <1>4, <1>5, MunchesIf
<1>7. q \in 1 .. Len(text) /\ text[q] \notin {"h1", "h2", "c"}
  BY <1>0, <1>2
<1>8. Ch(q + 1) # "c"
  BY <1>7, NextWhole
<1> QED
  BY <1>2, <1>4, <1>6, <1>8

-----------------------------------------------------------------------------
(* The tokens so far and those from here on are the tokens of the text. *)

\* What the reference says of a token.
Brief(t) == [type |-> t.type, at |-> t.at, upto |-> t.upto]
Read(s) == [k \in 1 .. Len(s) |-> Brief(s[k])]

\* Nothing has been reported, and no token is without a type.
Faultless == ~errs /\ ~Stray /\ \A k \in DOMAIN toks : toks[k].type # Null

\* The invariant behind MaximalMunch: what has been read and what the reference finds
\* from here on are the reference, and the scanner is not inside a character.
MInv ==
  /\ LInv
  /\ ~errs => invalid = 0
  /\ Faultless => IF done THEN Found = Reference
                  ELSE Ch(ptr) # "c" /\ Reference = Read(toks) \o TokensFrom[ptr]

\* A token more.
LEMMA ReadMore ==
  ASSUME Sequence(toks), NEW t, NEW z \in Seq(Items)
  PROVE  /\ Read(toks) \o (<<Brief(t)>> \o z) = Read(Append(toks, t)) \o z
         /\ [k \in 1 .. Len(Append(toks, t)) - 1 |-> Brief(Append(toks, t)[k])] = Read(toks)
         /\ Read(toks) \o << >> = Read(toks)
<1>0. PICK T : toks \in Seq(T)
  BY DEF Sequence
<1> DEFINE n == Len(toks)
           more == Append(toks, t)
           B == {Brief(toks[k]) : k \in 1 .. n} \cup {Brief(t)} \cup Items
           x == Read(toks)
           y == Read(more)
           b == Brief(t)
<1>1. n \in Nat /\ Len(more) = n + 1 /\ (\A k \in 1 .. n : more[k] = toks[k]) /\ more[n + 1] = t
  BY <1>0
<1>2. x \in Seq(B) /\ Len(x) = n /\ \A k \in 1 .. n : x[k] = Brief(toks[k])
  <2>1. \A k \in 1 .. n : Brief(toks[k]) \in B
    OBVIOUS
  <2>2. x = [k \in 1 .. n |-> Brief(toks[k])]
    BY DEF Read
  <2> HIDE DEF B, x, n
  <2> QED
    BY <1>1, <2>1, <2>2
<1>3. y = [k \in 1 .. n + 1 |-> Brief(more[k])] /\ y \in Seq(B) /\ Len(y) = n + 1
  <2>1. \A k \in 1 .. n + 1 : Brief(more[k]) \in B
    <3>1. ASSUME NEW k \in 1 .. n + 1 PROVE Brief(more[k]) \in B
      <4>1. k \in 1 .. n \/ k = n + 1
        BY <1>1
      <4> HIDE DEF more, n
      <4>2. CASE k \in 1 .. n
        BY <1>1, <4>2
      <4>3. CASE k = n + 1
        BY <1>1, <4>3
      <4> QED
        BY <4>1, <4>2, <4>3
    <3> QED
      BY <3>1
  <2>2. y = [k \in 1 .. n + 1 |-> Brief(more[k])]
    BY <1>1 DEF Read
  <2> HIDE DEF B, y, n, more
  <2> QED
    BY <1>1, <2>1, <2>2
<1>4. b \in B /\ z \in Seq(B)
  OBVIOUS
<1> HIDE DEF n, more, B, x, y, b
<1>5. y = Append(x, b)
  <2>1. \A k \in 1 .. n + 1 : y[k] = IF k <= n THEN x[k] ELSE b
    <3>1. ASSUME NEW k \in 1 .. n + 1 PROVE y[k] = IF k <= n THEN x[k] ELSE b
      <4>1. y[k] = Brief(more[k])
        BY <1>3
      <4>2. CASE k <= n
        <5>1. k \in 1 .. n
          BY <1>1, <4>2
        <5> QED
          BY <1>1, <1>2, <4>1, <4>2, <5>1
      <4>3. CASE ~(k <= n)
        <5>1. k = n + 1
          BY <1>1, <4>3
        <5> QED
          BY <1>1, <4>1, <4>3, <5>1 DEF b
      <4> QED
        BY <4>2, <4>3
    <3> QED
      BY <3>1
  <2> DEFINE a == Append(x, b)
  <2>2. a \in Seq(B) /\ Len(a) = n + 1 /\ \A k \in 1 .. n + 1 : a[k] = IF k <= n THEN x[k] ELSE b
    BY <1>1, <1>2, <1>4
  <2> HIDE DEF a
  <2>3. \A k \in 1 .. Len(a) : y[k] = a[k]
    BY <2>1, <2>2
  <2>4. y = a
    BY <1>3, <2>2, <2>3
  <2> QED
    BY <2>4 DEF a
<1>6. x \o (<<b>> \o z) = y \o z
  BY <1>2, <1>4, <1>5
<1>7. [k \in 1 .. Len(more) - 1 |-> Brief(more[k])] = x
  <2>1. Len(more) - 1 = n
    BY <1>1
  <2>2. x = [k \in 1 .. n |-> Brief(toks[k])]
    BY DEF Read, x, n
  <2>3. \A k \in 1 .. n : Brief(more[k]) = Brief(toks[k])
    BY <1>1
  <2> QED
    BY <2>1, <2>2, <2>3
<1>8. x \o << >> = x
  BY <1>2
<1> QED
  BY <1>6, <1>7, <1>8 DEF x, y, b, more

\* What is skipped adds no token.
LEMMA Skipping ==
  ASSUME MInv, LInv', ~done, done' = done, text' = text, toks' = toks,
         ~errs' => ~errs /\ invalid' = 0,
         NEW q, Faultless /\ ~errs' =>
           /\ ptr \in 1 .. Len(text) /\ q \in ptr .. Len(text) /\ ptr' = q + 1
           /\ Munches(ptr, q) /\ Skipped(Part(text, ptr, q)) /\ Ch(q + 1) # "c"
  PROVE  MInv'
<1>1. TokensFrom' = TokensFrom /\ Reference' = Reference /\ (Stray' <=> Stray)
  BY SameTokens
<1>2. Faultless' => Faultless /\ ~errs'
  BY <1>1 DEF Faultless
<1>3. ASSUME Faultless' PROVE Ch(ptr)' # "c" /\ Reference' = Read(toks)' \o TokensFrom'[ptr']
  <2>1. /\ ptr \in 1 .. Len(text) /\ q \in ptr .. Len(text) /\ ptr' = q + 1
        /\ Munches(ptr, q) /\ Skipped(Part(text, ptr, q)) /\ Ch(q + 1) # "c"
    BY <1>2, <1>3
  <2>2. TokensFrom[ptr] = TokensFrom[q + 1]
    BY <2>1, Munched DEF MInv, LInv
  <2>3. Reference = Read(toks) \o TokensFrom[ptr]
    BY <1>2, <1>3 DEF MInv
  <2>4. Ch(ptr)' = Ch(q + 1)
    BY <2>1 DEF Ch
  <2>5. Read(toks)' = Read(toks)
    BY DEF Read
  <2> QED
    BY <1>1, <2>1, <2>2, <2>3, <2>4, <2>5
<1> QED
  BY <1>3 DEF MInv

\* A token of the type of the longest lexeme.
LEMMA Taking ==
  ASSUME MInv, LInv', ~done, NEW type, NEW next, NEW columns, NEW bad, NEW n,
         Emit(type, next, columns, bad, n), ~errs => n \in Nat,
         Faultless /\ ~bad /\ n = 0 /\ type # Null =>
           /\ ptr \in 1 .. Len(text) /\ next - 1 \in ptr .. Len(text) /\ next - 1 + 1 = next
           /\ Munches(ptr, next - 1) /\ ~Skipped(Part(text, ptr, next - 1))
           /\ KindOf(Part(text, ptr, next - 1)) = type /\ Ch(next) # "c"
  PROVE  MInv'
<1> DEFINE t == Token(type, next)
           q == next - 1
<1>1. /\ text' = text /\ toks' = Append(toks, t) /\ ptr' = next /\ done' = done
      /\ invalid' = invalid + n /\ errs' = (errs \/ bad \/ n > 0)
  BY DEF Emit, Count
<1>2. TokensFrom' = TokensFrom /\ Reference' = Reference /\ (Stray' <=> Stray)
  BY <1>1, SameTokens
<1>3. ~errs' => ~errs /\ ~bad /\ n = 0 /\ invalid' = 0
  <2>1. ~errs' => ~errs /\ ~bad /\ ~(n > 0)
    BY <1>1
  <2>2. n \in Nat /\ ~(n > 0) => n = 0
    OBVIOUS
  <2>3. ~errs => invalid = 0
    BY DEF MInv
  <2> QED
    BY <1>1, <2>1, <2>2, <2>3
<1>4. Faultless' => Faultless /\ type # Null
  <2>1. PICK T : toks \in Seq(T)
    BY DEF MInv, LInv, Sequence
  <2>2. t.type = type
    BY DEF Token
  <2> HIDE DEF t
  <2>3. /\ \A k \in DOMAIN toks : k \in DOMAIN toks' /\ toks'[k] = toks[k]
        /\ Len(toks) + 1 \in DOMAIN toks' /\ toks'[Len(toks) + 1] = t
    BY <1>1, <2>1
  <2> QED
    BY <1>2, <1>3, <2>2, <2>3 DEF Faultless
<1>5. ASSUME Faultless' PROVE Ch(ptr)' # "c" /\ Reference' = Read(toks)' \o TokensFrom'[ptr']
  <2>0. Faultless /\ ~bad /\ n = 0 /\ type # Null
    BY <1>3, <1>4, <1>5 DEF Faultless
  <2>1. /\ ptr \in 1 .. Len(text) /\ q \in ptr .. Len(text) /\ q + 1 = next
        /\ Munches(ptr, q) /\ ~Skipped(Part(text, ptr, q))
        /\ KindOf(Part(text, ptr, q)) = type /\ Ch(next) # "c"
    BY <2>0
  <2>b. Brief(t) = [type |-> type, at |-> ptr, upto |-> q]
    BY DEF Brief, Token
  <2> HIDE DEF q, t
  <2>2. TokensFrom[ptr] = <<Brief(t)>> \o TokensFrom[next]
    BY <2>1, <2>b, Munched DEF MInv, LInv
  <2>3. Reference = Read(toks) \o TokensFrom[ptr]
    BY <2>0 DEF MInv
  <2>4. TokensFrom[next] \in Seq(Items)
    <3>1. next \in Place
      BY <2>1, TextFacts DEF Place, MInv, LInv
    <3> QED
      BY <3>1, TokensType DEF MInv, LInv
  <2>5. Read(toks) \o (<<Brief(t)>> \o TokensFrom[next]) = Read(Append(toks, t)) \o TokensFrom[next]
    BY <2>4, ReadMore DEF MInv, LInv
  <2>6. Ch(ptr)' = Ch(next)
    BY <1>1 DEF Ch
  <2>7. Read(toks)' = Read(Append(toks, t))
    BY <1>1 DEF Read
  <2> QED
    BY <1>1, <1>2, <2>1, <2>2, <2>3, <2>5, <2>6, <2>7
<1> QED
  BY <1>1, <1>3, <1>5 DEF MInv

\* Where the scanner is, if a character is there.
LEMMA InText ==
  ASSUME LInv, ~errs, Ch(ptr) # "eof"
  PROVE  text \in Texts /\ ptr \in 1 .. Len(text) /\ text[ptr] = Ch(ptr)
<1>1. text \in Texts /\ ptr \in Nat \ {0}
  BY TextFacts DEF LInv, Here, Place
<1> QED
  BY <1>1, TextFacts

\* MInv is kept by a blank,
LEMMA BlankMunches ==
  ASSUME MInv, LInv', SkipBlank
  PROVE  MInv'
<1>1. ~done /\ done' = done /\ text' = text /\ toks' = toks /\ errs' = errs /\ invalid' = invalid
      /\ ptr' = ptr + 1 /\ Ch(ptr) \in Blanks
  BY DEF SkipBlank, At, Scanning, Skips
<1>2. ~errs' => ~errs /\ invalid' = 0
  BY <1>1 DEF MInv
<1>3. ASSUME Faultless
      PROVE  /\ ptr \in 1 .. Len(text) /\ ptr \in ptr .. Len(text)
             /\ Munches(ptr, ptr) /\ Skipped(Part(text, ptr, ptr)) /\ Ch(ptr + 1) # "c"
  <2>1. text \in Texts /\ ptr \in 1 .. Len(text) /\ ~Stray
    BY <1>1, <1>3, InText DEF MInv, Faultless, Blanks
  <2> QED
    BY <1>1, <2>1, SpaceMunch
<1> QED
  BY <1>1, <1>2, <1>3, Skipping

\* by a note,
LEMMA NoteMunches ==
  ASSUME MInv, LInv', SkipNote
  PROVE  MInv'
<1> DEFINE q == Past(ptr, Chars \ {"n"}) - 1
<1>1. ~done /\ done' = done /\ text' = text /\ toks' = toks /\ errs' = (errs \/ FALSE \/ 0 > 0)
      /\ invalid' = invalid + 0 /\ ptr' = Past(ptr, Chars \ {"n"}) /\ Ch(ptr) = "/" /\ Ch(ptr + 1) = "/"
  BY DEF SkipNote, Scanning, Skips, IsNote, Count
<1>2. ~errs' => ~errs /\ invalid' = 0
  <2>1. ~errs' => ~errs
    BY <1>1, Zenon
  <2>2. ~errs => invalid = 0
    BY DEF MInv
  <2>3. invalid = 0 => invalid' = 0
    BY <1>1
  <2> QED
    BY <2>1, <2>2, <2>3
<1>3. ASSUME Faultless
      PROVE  /\ ptr \in 1 .. Len(text) /\ q \in ptr .. Len(text) /\ ptr' = q + 1
             /\ Munches(ptr, q) /\ Skipped(Part(text, ptr, q)) /\ Ch(q + 1) # "c"
  <2>1. text \in Texts /\ ptr \in 1 .. Len(text)
    BY <1>1, <1>3, InText DEF MInv, Faultless
  <2>2. q \in ptr .. Len(text) /\ Munches(ptr, q) /\ Skipped(Part(text, ptr, q)) /\ Ch(q + 1) # "c"
    <3>1. q = Past(ptr, Chars \ {"n"}) - 1
      OBVIOUS
    <3> HIDE DEF q
    <3> QED
      BY <1>1, <2>1, <3>1, NoteMunch
  <2>3. ptr' = q + 1
    <3>1. ptr \in Place /\ "eof" \notin Chars \ {"n"}
      BY <2>1, TextFacts DEF Place
    <3>2. Past(ptr, Chars \ {"n"}) \in ptr .. Len(text) + 1
      BY <2>1, <3>1, PastFacts, Zenon
    <3> QED
      BY <1>1, <2>1, <3>2
  <2> QED
    BY <2>1, <2>2, <2>3
<1> HIDE DEF q
<1> QED
  BY <1>1, <1>2, <1>3, Skipping

\* by a comment that is closed,
LEMMA CommentMunches ==
  ASSUME MInv, LInv', SkipMultiLineComment
  PROVE  MInv'
<1> DEFINE N == Len(text)
           ends == {k \in ptr + 2 .. N - 1 : text[k] = "*" /\ text[k + 1] = "/"}
           end == CHOOSE k \in ends : \A j \in ends : k <= j
           q == end + 1
<1>1. ~done /\ done' = done /\ text' = text /\ toks' = toks /\ Ch(ptr) = "/" /\ Ch(ptr + 1) = "*"
      /\ errs' = (errs \/ ends = {} \/ 0 > 0) /\ invalid' = invalid + 0
  BY DEF SkipMultiLineComment, Scanning, Skips, IsComment, Count
<1>2. ~errs' => ~errs /\ invalid' = 0 /\ ends # {}
  <2> HIDE DEF ends
  <2>1. ~errs' => ~errs /\ ends # {}
    BY <1>1, Zenon
  <2>2. ~errs => invalid = 0
    BY DEF MInv
  <2>3. invalid = 0 => invalid' = 0
    BY <1>1
  <2> QED
    BY <2>1, <2>2, <2>3
<1>p. ends # {} => ptr' = end + 2
  BY Zenon DEF SkipMultiLineComment, Skips
<1>3. ASSUME Faultless, ends # {}
      PROVE  /\ ptr \in 1 .. Len(text) /\ q \in ptr .. Len(text) /\ ptr' = q + 1
             /\ Munches(ptr, q) /\ Skipped(Part(text, ptr, q)) /\ Ch(q + 1) # "c"
  <2>1. text \in Texts /\ ptr \in 1 .. Len(text) /\ ~Stray /\ N \in Nat
    BY <1>1, <1>3, InText, TextFacts DEF MInv, Faultless
  <2>2. end \in ends /\ \A j \in ends : end <= j
    <3>1. ends \in SUBSET Nat
      BY <2>1
    <3>2. PICK m \in ends : \A n \in ends : m <= n
      <4> HIDE DEF ends
      <4> QED
        BY <1>3, <3>1, Least
    <3> HIDE DEF ends
    <3> QED
      BY <3>2
  <2>3. end \in ptr + 2 .. N - 1 /\ text[end] = "*" /\ text[end + 1] = "/"
    BY <2>2
  <2>4. ptr' = end + 2 /\ q = end + 1
    BY <1>3, <1>p
  <2>5. \A j \in ptr + 2 .. end - 1 : ~(text[j] = "*" /\ text[j + 1] = "/")
    <3>1. ASSUME NEW j \in ptr + 2 .. end - 1 PROVE j \in ptr + 2 .. N - 1 /\ ~(end <= j)
      <4> HIDE DEF end
      <4> QED
        BY <2>1, <2>3
    <3>2. \A j \in ptr + 2 .. N - 1 : text[j] = "*" /\ text[j + 1] = "/" => end <= j
      <4> HIDE DEF end
      <4> QED
        BY <2>2
    <3> HIDE DEF end
    <3> QED
      BY <3>1, <3>2
  <2> HIDE DEF end, q
  <2>6. q \in ptr .. Len(text) /\ Munches(ptr, q) /\ Skipped(Part(text, ptr, q)) /\ Ch(q + 1) # "c"
    BY <1>1, <2>1, <2>3, <2>4, <2>5, CommentMunch
  <2>7. ptr' = q + 1
    BY <2>1, <2>3, <2>4
  <2> QED
    BY <2>1, <2>6, <2>7
<1> HIDE DEF ends, q
<1>4. Faultless /\ ~errs' => ends # {}
  BY <1>2
<1> QED
  BY <1>1, <1>2, <1>3, <1>4, Skipping

\* by an identifier,
LEMMA WordMunches ==
  ASSUME MInv, LInv', IdGen
  PROVE  MInv'
<1> DEFINE r == Rest[ptr]
<1>1. Emit(IdType(r.name), r.next, r.columns, FALSE, r.broken) /\ Ch(ptr) \in Letters \cup High /\ ~done
  BY DEF IdGen, At, Scanning
<1>2. ASSUME ~errs PROVE text \in Texts /\ ptr \in 1 .. Len(text) /\ ptr \in Place
  <2>1. Ch(ptr) # "eof"
    BY <1>1 DEF Letters, High
  <2> QED
    BY <1>2, <2>1, InText DEF MInv, LInv, Here
<1>3. ~errs => r.broken \in Nat
  BY <1>2, RestFacts DEF WordFrom
<1>4. ASSUME Faultless, r.broken = 0
      PROVE  /\ ptr \in 1 .. Len(text) /\ r.next - 1 \in ptr .. Len(text) /\ r.next - 1 + 1 = r.next
             /\ Munches(ptr, r.next - 1) /\ ~Skipped(Part(text, ptr, r.next - 1))
             /\ KindOf(Part(text, ptr, r.next - 1)) = IdType(r.name) /\ Ch(r.next) # "c"
  <2>1. ~Stray /\ Ch(ptr) \in Letters \cup {"h1", "h2"}
    BY <1>1, <1>4 DEF MInv, Faultless, High
  <2>2. r = Rest[ptr]
    OBVIOUS
  <2>3. text \in Texts /\ ptr \in 1 .. Len(text)
    BY <1>2, <1>4 DEF Faultless
  <2> HIDE DEF r
  <2> QED
    BY <1>4, <2>1, <2>2, <2>3, WordMunch
<1> HIDE DEF r
<1> QED
  BY <1>1, <1>3, <1>4, Taking, Zenon

\* A number is one token.
LEMMA NumberEmits ==
  ASSUME NumGen
  PROVE  /\ Emit(<<"num">>, NumberEnd(ptr), NumberEnd(ptr) - ptr, Unfinished(ptr), 0)
         /\ Ch(ptr) \in Digits /\ ~done
<1> DEFINE f == Fraction(Past(ptr, Digits))
           e == NumberEnd(ptr)
           bad == Unfinished(ptr)
<1>1. Ch(f) = "e" => Ch(Past(ptr, Digits)) # "." \/ f # Past(ptr, Digits)
  OBVIOUS
<1>2. CASE Ch(f) = "e"
  <2>1. Lexeme(<<"num">>, Past(Sign(f), Digits), Past(Sign(f), Digits) = Sign(f))
    BY <1>1, <1>2, Zenon DEF NumGen, Sign
  <2>2. e = Past(Sign(f), Digits) /\ (bad <=> Past(Sign(f), Digits) = Sign(f))
    BY <1>2, Zenon DEF NumberEnd, Unfinished
  <2> QED
    BY <2>1, <2>2 DEF Lexeme, NumGen, At, Scanning, Emit, Count
<1>3. CASE Ch(f) # "e"
  <2>1. Lexeme(<<"num">>, f, FALSE)
    BY <1>3, Zenon DEF NumGen
  <2>2. e = f /\ ~bad
    BY <1>3, Zenon DEF NumberEnd, Unfinished
  <2> QED
    BY <2>1, <2>2 DEF Lexeme, NumGen, At, Scanning, Emit, Count
<1> QED
  BY <1>2, <1>3

\* by a number: one whose exponent lacks digits is reported.
LEMMA NumberMunches ==
  ASSUME MInv, LInv', NumGen
  PROVE  MInv'
<1> DEFINE e == NumberEnd(ptr)
           bad == Unfinished(ptr)
<1>1. Emit(<<"num">>, e, e - ptr, bad, 0) /\ Ch(ptr) \in Digits /\ ~done
  BY NumberEmits
<1>2. ASSUME Faultless, ~bad
      PROVE  /\ ptr \in 1 .. Len(text) /\ e - 1 \in ptr .. Len(text) /\ e - 1 + 1 = e
             /\ Munches(ptr, e - 1) /\ ~Skipped(Part(text, ptr, e - 1))
             /\ KindOf(Part(text, ptr, e - 1)) = <<"num">> /\ Ch(e) # "c"
  <2>1. text \in Texts /\ ptr \in 1 .. Len(text) /\ ~Stray /\ text[ptr] \in Digits
    BY <1>1, <1>2, InText DEF MInv, Faultless, Digits
  <2>2. e \in ptr + 1 .. Len(text) + 1
    BY <2>1, NumberTaken
  <2> DEFINE q == e - 1
  <2>3. q = NumberEnd(ptr) - 1 /\ q + 1 = e
    BY <2>1, <2>2
  <2> HIDE DEF q
  <2>4. /\ q \in ptr .. Len(text) /\ Munches(ptr, q) /\ ~Skipped(Part(text, ptr, q))
        /\ KindOf(Part(text, ptr, q)) = <<"num">> /\ Ch(q + 1) # "c"
    BY <1>1, <1>2, <2>1, <2>3, NumberMunch
  <2> QED
    BY <2>1, <2>3, <2>4 DEF q
<1> HIDE DEF e, bad
<1>3. 0 \in Nat
  OBVIOUS
<1> QED
  BY <1>1, <1>2, <1>3, Taking, Zenon

\* An operator from ptr on, of one character or of two.
LEMMA OperatorMunches ==
  ASSUME MInv, LInv', ~done, NEW next, NEW bad, Lexeme(Type(Word(ptr, next)), next, bad),
         Ch(ptr) \in OneTypes \cup {"!"}, ~IsNote, ~IsComment,
         ~errs /\ ~bad /\ Type(Word(ptr, next)) # Null =>
           \/ next = ptr + 1 /\ ~TwoTypes(Ch(ptr), Ch(ptr + 1))
           \/ next = ptr + 2 /\ ptr + 1 \in 1 .. Len(text)
  PROVE  MInv'
<1> DEFINE type == Type(Word(ptr, next))
           q == next - 1
<1>1. Emit(type, next, next - ptr, bad, 0) /\ 0 \in Nat
  BY DEF Lexeme
<1>2. ASSUME Faultless, ~bad, type # Null
      PROVE  /\ ptr \in 1 .. Len(text) /\ q \in ptr .. Len(text) /\ q + 1 = next
             /\ Munches(ptr, q) /\ ~Skipped(Part(text, ptr, q))
             /\ KindOf(Part(text, ptr, q)) = type /\ Ch(next) # "c"
  <2>1. text \in Texts /\ ptr \in 1 .. Len(text) /\ ~Stray /\ text[ptr] = Ch(ptr) /\ ptr \in Int /\ Len(text) \in Nat
    BY <1>2, InText, TextFacts DEF MInv, Faultless, OneTypes
  <2>2. q \in ptr .. Len(text) /\ q + 1 = next
        /\ (q = ptr => ~(ptr + 1 <= Len(text) /\ TwoTypes(text[ptr], text[ptr + 1])))
    <3>1. CASE next = ptr + 1 /\ ~TwoTypes(Ch(ptr), Ch(ptr + 1))
      <4>1. ptr + 1 <= Len(text) => ptr + 1 \in 1 .. Len(text) /\ text[ptr + 1] = Ch(ptr + 1)
        BY <2>1, TextFacts
      <4> QED
        BY <2>1, <3>1, <4>1
    <3>2. CASE next = ptr + 2 /\ ptr + 1 \in 1 .. Len(text)
      BY <2>1, <3>2
    <3> QED
      BY <1>2, <3>1, <3>2 DEF Faultless
  <2>3. Ch(ptr) = "/" => Ch(ptr + 1) \notin {"/", "*"}
    BY DEF IsNote, IsComment
  <2>4. Word(ptr, next) = Part(text, ptr, q)
    BY DEF Word, Part
  <2> HIDE DEF q
  <2>5. Part(text, ptr, q) \in TypeTable /\ type = Type(Part(text, ptr, q))
    BY <1>2, <2>4 DEF Type
  <2>6. /\ Munches(ptr, q) /\ ~Skipped(Part(text, ptr, q))
        /\ KindOf(Part(text, ptr, q)) = Type(Part(text, ptr, q)) /\ Ch(q + 1) # "c"
    BY <2>1, <2>2, <2>3, <2>5, TypeMunch
  <2> QED
    BY <2>1, <2>2, <2>5, <2>6
<1> HIDE DEF type
<1> QED
  BY <1>1, <1>2, Taking, Zenon

\* MInv is kept by the operators of scan.
LEMMA OperatorsMunch ==
  ASSUME MInv, LInv', ArrowGen \/ SingleOpr \/ Dots \/ Colons \/ CalcOpr
  PROVE  MInv'
<1>0. ~done
  BY DEF ArrowGen, SingleOpr, Dots, Colons, CalcOpr, At, Scanning
<1>p. ASSUME ~errs, Ch(ptr) # "eof", Ch(ptr + 1) # "eof"
      PROVE  ptr + 1 \in 1 .. Len(text)
  <2>1. text \in Texts /\ ptr \in 1 .. Len(text)
    BY <1>p, InText DEF MInv
  <2> QED
    BY <1>p, <2>1, Pair
<1>1. CASE ArrowGen
  <2>1. Ch(ptr) \in {"-", "="} /\ Ch(ptr + 1) = ">" /\ Lexeme(Type(Word(ptr, ptr + 2)), ptr + 2, FALSE)
    BY <1>1 DEF ArrowGen, IsArrow
  <2>2. Ch(ptr) \in OneTypes \cup {"!"} /\ ~IsNote /\ ~IsComment /\ (~errs => ptr + 1 \in 1 .. Len(text))
    BY <1>p, <2>1 DEF OneTypes, IsNote, IsComment
  <2> DEFINE next == ptr + 2
  <2>3. Lexeme(Type(Word(ptr, next)), next, FALSE) /\ next = ptr + 2
    BY <2>1
  <2> HIDE DEF next
  <2> QED
    BY <1>0, <2>2, <2>3, OperatorMunches
<1>2. CASE SingleOpr
  <2> DEFINE next == ptr + 1
  <2>1. Ch(ptr) = "(" /\ Lexeme(Type(<<Ch(ptr)>>), next, FALSE)
    BY <1>2 DEF SingleOpr, At, Single
  <2>2. Ch(ptr) \in OneTypes \cup {"!"} /\ ~IsNote /\ ~IsComment /\ ~TwoTypes(Ch(ptr), Ch(ptr + 1))
    BY <2>1 DEF OneTypes, IsNote, IsComment, TwoTypes
  <2>3. CASE ~errs
    <3>1. Word(ptr, next) = <<Ch(ptr)>>
      <4>1. text \in Texts /\ ptr \in 1 .. Len(text) /\ text[ptr] = Ch(ptr)
        BY <2>1, <2>3, InText DEF MInv
      <4>2. Part(text, ptr, ptr) = <<text[ptr]>>
        BY <4>1, OneIs
      <4>3. next - 1 = ptr
        BY <4>1
      <4> QED
        BY <4>1, <4>2, <4>3 DEF Word, Part
    <3>2. Lexeme(Type(Word(ptr, next)), next, FALSE) /\ next = ptr + 1
      BY <2>1, <3>1
    <3> HIDE DEF next
    <3> QED
      BY <1>0, <2>2, <3>2, OperatorMunches
  <2>4. CASE errs
    <3>1. Emit(Type(<<Ch(ptr)>>), next, next - ptr, FALSE, 0) /\ ~Faultless
      BY <2>1, <2>4 DEF Lexeme, Faultless
    <3> HIDE DEF next
    <3> QED
      BY <1>0, <2>4, <3>1, Taking, Zenon
  <2> QED
    BY <2>3, <2>4
<1>3. CASE Dots
  <2> DEFINE next == IF Ch(ptr + 1) = "." /\ Ch(ptr + 2) = "." THEN ptr + 3 ELSE ptr + 1
  <2>1. Ch(ptr) = "." /\ Lexeme(Type(Word(ptr, next)), next, FALSE)
    BY <1>3 DEF Dots, At
  <2>2. Ch(ptr) \in OneTypes \cup {"!"} /\ ~IsNote /\ ~IsComment /\ ~TwoTypes(Ch(ptr), Ch(ptr + 1))
    BY <2>1 DEF OneTypes, IsNote, IsComment, TwoTypes
  <2>3. ASSUME ~errs, Type(Word(ptr, next)) # Null PROVE next = ptr + 1
    <3>1. CASE Ch(ptr + 1) = "." /\ Ch(ptr + 2) = "."
      <4>1. text \in Texts /\ ptr \in 1 .. Len(text) /\ text[ptr] = Ch(ptr) /\ ptr \in Nat /\ Len(text) \in Nat
        BY <2>1, <2>3, InText, TextFacts DEF MInv
      <4>2. ptr + 2 \in 1 .. Len(text)
        <5>1. ptr + 2 \in Nat \ {0} /\ Ch(ptr + 2) # "eof"
          BY <3>1, <4>1
        <5> QED
          BY <4>1, <5>1, TextFacts
      <4> DEFINE q == ptr + 2
      <4>3. Word(ptr, next) = Part(text, ptr, q) /\ q \in ptr .. Len(text) /\ q # ptr /\ q # ptr + 1
        BY <3>1, <4>1, <4>2 DEF Word, Part
      <4>4. Part(text, ptr, q) \in TypeTable
        <5> HIDE DEF next
        <5> QED
          BY <2>3, <4>3 DEF Type
      <4> HIDE DEF q
      <4> QED
        BY <4>1, <4>3, <4>4, TypeIs
    <3> QED
      BY <3>1
  <2> HIDE DEF next
  <2> QED
    BY <1>0, <2>1, <2>2, <2>3, OperatorMunches
<1>4. CASE Colons
  <2> DEFINE next == IF Ch(ptr + 1) = ":" THEN ptr + 2 ELSE ptr + 1
  <2>1. Ch(ptr) = ":" /\ Lexeme(Type(Word(ptr, next)), next, FALSE)
    BY <1>4 DEF Colons, At
  <2>2. Ch(ptr) \in OneTypes \cup {"!"} /\ ~IsNote /\ ~IsComment
    BY <2>1 DEF OneTypes, IsNote, IsComment
  <2>3. ~errs => \/ next = ptr + 1 /\ ~TwoTypes(Ch(ptr), Ch(ptr + 1))
                 \/ next = ptr + 2 /\ ptr + 1 \in 1 .. Len(text)
    BY <1>p, <2>1 DEF TwoTypes
  <2> HIDE DEF next
  <2> QED
    BY <1>0, <2>1, <2>2, <2>3, OperatorMunches
<1>5. CASE CalcOpr
  <2> DEFINE next == CalcEnd(ptr)
             bad == Type(Word(ptr, next)) = Null
  <2>1. Ch(ptr) \in Calc /\ ~IsNote /\ ~IsComment /\ ~IsArrow /\ Lexeme(Type(Word(ptr, next)), next, bad)
    BY <1>5 DEF CalcOpr, At
  <2>2. Ch(ptr) \in OneTypes \cup {"!"}
    BY <2>1 DEF Calc, Signs, OneTypes
  <2>3. ~errs => \/ next = ptr + 1 /\ ~TwoTypes(Ch(ptr), Ch(ptr + 1))
                 \/ next = ptr + 2 /\ ptr + 1 \in 1 .. Len(text)
    <3>1. CASE Ch(ptr + 1) = "="
      <4>1. Ch(ptr) # "eof" /\ Ch(ptr + 1) # "eof"
        BY <2>1, <3>1 DEF Calc, Signs
      <4> QED
        BY <1>p, <3>1, <4>1 DEF CalcEnd
    <3>2. CASE Ch(ptr + 1) # "="
      BY <2>1, <3>2 DEF CalcEnd, TwoTypes, IsArrow, Calc, Signs
    <3> QED
      BY <3>1, <3>2
  <2> HIDE DEF next, bad
  <2> QED
    BY <1>0, <2>1, <2>2, <2>3, OperatorMunches
<1> QED
  BY <1>1, <1>2, <1>3, <1>4, <1>5

\* An invalid character is reported, which ends what MInv says.
LEMMA ErrMunches ==
  ASSUME MInv, LInv', ErrChar
  PROVE  MInv'
<1>0. 1 > 0
  OBVIOUS
<1>1. errs'
  BY <1>0, Zenon DEF ErrChar, Count
<1> QED
  BY <1>1 DEF MInv, Faultless

\* The last token repeats another and is not counted.
LEMMA EndMunches ==
  ASSUME MInv, LInv', ScanEnd
  PROVE  MInv'
<1> DEFINE t == IF toks = << >> THEN Token(<<"eof">>, ptr) ELSE [Last(toks) EXCEPT !.type = <<"eof">>]
<1>1. ~done /\ done' /\ text' = text /\ errs' = errs /\ invalid' = invalid /\ toks' = Append(toks, t)
      /\ (ptr > Len(text) \/ invalid > MaxInvalid)
  BY DEF ScanEnd
<1> HIDE DEF t
<1>2. TokensFrom' = TokensFrom /\ Reference' = Reference /\ (Stray' <=> Stray)
  BY <1>1, SameTokens
<1>3. Sequence(toks)
  BY DEF MInv, LInv
<1>4. Faultless' => Faultless
  <2>1. PICK T : toks \in Seq(T)
    BY <1>3 DEF Sequence
  <2>2. \A k \in DOMAIN toks : k \in DOMAIN toks' /\ toks'[k] = toks[k]
    BY <1>1, <2>1
  <2> QED
    BY <1>1, <1>2, <2>2 DEF Faultless
<1>5. ASSUME Faultless PROVE Found' = Reference
  <2>1. ptr \in Place /\ text \in Texts /\ invalid = 0 /\ Len(text) \in Nat /\ MaxInvalid \in Nat
    BY <1>5, TextFacts, TextsAssumption DEF Faultless, MInv, LInv, Here
  <2>2. ptr > Len(text)
    BY <1>1, <2>1
  <2>3. TokensFrom[ptr] = << >>
    <3>1. TokensFrom[ptr] = TokensAt(TokensFrom, ptr)
      BY <2>1, TokensIs
    <3> QED
      BY <2>2, <3>1, Zenon DEF TokensAt
  <2>4. Reference = Read(toks) \o << >>
    BY <1>1, <1>5, <2>3 DEF MInv
  <2>5. << >> \in Seq(Items)
    OBVIOUS
  <2>6. /\ Read(toks) \o << >> = Read(toks)
        /\ [k \in 1 .. Len(Append(toks, t)) - 1 |-> Brief(Append(toks, t)[k])] = Read(toks)
    BY <1>3, <2>5, ReadMore, Zenon
  <2>7. Found' = [k \in 1 .. Len(Append(toks, t)) - 1 |-> Brief(Append(toks, t)[k])]
    BY <1>1 DEF Found, Brief
  <2> QED
    BY <2>4, <2>6, <2>7
<1> QED
  BY <1>1, <1>2, <1>4, <1>5 DEF MInv, Faultless

\* MInv holds in the beginning.
LEMMA InitMunches ==
  ASSUME Init
  PROVE  MInv
<1>1. LInv
  BY InitCounts
<1>2. toks = << >> /\ ptr = 1 /\ invalid = 0 /\ ~done /\ text \in Texts
  BY DEF Init
<1>3. 1 \in Place /\ 1 = 1
  BY <1>2, TextFacts DEF Place
<1>4. ~Stray => Ch(1) # "c"
  BY <1>2, <1>3, Whole
<1>5. Reference = Read(toks) \o TokensFrom[ptr]
  <2>1. Read(toks) = << >>
    BY <1>2 DEF Read
  <2>2. TokensFrom[1] \in Seq(Items)
    BY <1>2, <1>3, TokensType
  <2> QED
    BY <1>2, <2>1, <2>2 DEF Reference
<1> QED
  BY <1>1, <1>2, <1>4, <1>5 DEF MInv, Faultless

\* MInv is inductive.
LEMMA NextMunches ==
  ASSUME MInv, [Next]_vars
  PROVE  MInv'
<1>1. LInv'
  BY NextCounts DEF MInv
<1>2. CASE UNCHANGED vars
  <2>1. TokensFrom' = TokensFrom /\ Reference' = Reference /\ (Stray' <=> Stray)
    BY <1>2, SameTokens DEF vars
  <2>2. Faultless' <=> Faultless
    BY <1>2, <2>1 DEF vars, Faultless
  <2>3. Found' = Found /\ Read(toks)' = Read(toks) /\ Ch(ptr)' = Ch(ptr)
    BY <1>2 DEF vars, Found, Read, Ch
  <2> QED
    BY <1>1, <1>2, <2>1, <2>2, <2>3 DEF vars, MInv
<1> QED
  BY <1>1, <1>2, BlankMunches, NoteMunches, CommentMunches, WordMunches, NumberMunches, OperatorsMunch,
     ErrMunches, EndMunches DEF Next

\* Whatever the text, one that is scanned without an error, each of its tokens with a
\* type, has become its longest lexemes, one after the other.
THEOREM ScansLongest == Spec => []MaximalMunch
<1>1. Init => MInv
  BY InitMunches
<1>2. MInv /\ [Next]_vars => MInv'
  BY NextMunches
<1>3. MInv => MaximalMunch
  BY DEF MInv, MaximalMunch, Faultless
<1> QED
  BY <1>1, <1>2, <1>3, PTL DEF Spec

-----------------------------------------------------------------------------
(* Lexemes between blanks. *)

\* A lexeme may begin at p, or a blank is there, or the text has ended.
Between(p) == Ch(p) \in Blanks \/ p = Len(text) + 1 \/ p \in Bare

\* The invariant behind AcceptsLexemes: nothing has been reported, and the scanner is
\* never inside a lexeme.
AInv ==
  /\ LInv
  /\ Separated => ~errs /\ invalid = 0 /\ (~done => Between(ptr))

\* What is separated depends on the text alone.
LEMMA SameBare ==
  ASSUME text' = text
  PROVE  (Separated' <=> Separated) /\ \A p : Between(p)' <=> Between(p)
<1>1. \A p : Ch(p)' = Ch(p)
  BY DEF Ch
<1>2. Bare' = Bare
  BY <1>1 DEF Bare
<1>3. \A k, S : Past(k, S)' = Past(k, S)
  BY <1>1, Zenon DEF Past
<1>4. \A k, n : Word(k, n)' = Word(k, n)
  BY DEF Word
<1>5. Separated' <=> Separated
  BY <1>2, <1>3, <1>4 DEF Separated
<1> QED
  BY <1>1, <1>2, <1>5 DEF Between

\* Up to the next blank is a lexeme.
LEMMA Chunk ==
  ASSUME AInv, Separated, ~done, Ch(ptr) \notin Blanks, Ch(ptr) # "eof",
         NEW e, e = Past(ptr, Chars \ Blanks)
  PROVE  /\ text \in Texts /\ ptr \in 1 .. Len(text) /\ text[ptr] = Ch(ptr)
         /\ e \in ptr + 1 .. Len(text) + 1 /\ Ch(e) \in Blanks \cup {"eof"}
         /\ \A j \in ptr .. e - 1 : text[j] \in Chars \ Blanks
         /\ Lexical(Part(text, ptr, e - 1)) /\ Between(e)
<1>1. ~errs /\ Between(ptr)
  BY DEF AInv
<1>2. text \in Texts /\ ptr \in 1 .. Len(text) /\ text[ptr] = Ch(ptr) /\ Len(text) \in Nat
      /\ ptr \in Place /\ "eof" \notin Chars \ Blanks /\ text[ptr] \in Chars
  BY <1>1, InText, TextFacts DEF AInv, Place
<1>3. e \in ptr .. Len(text) + 1 /\ Ch(e) \notin Chars \ Blanks /\ \A j \in ptr .. e - 1 : text[j] \in Chars \ Blanks
  BY <1>2, PastFacts
<1>4. e # ptr
  BY <1>2, <1>3
<1>5. e \in ptr + 1 .. Len(text) + 1 /\ e \in Nat \ {0}
  BY <1>2, <1>3, <1>4
<1>6. Ch(e) \in Blanks \cup {"eof"}
  <2>1. Ch(e) # "eof" => Ch(e) \in Chars
    BY <1>2, <1>5, TextFacts
  <2> QED
    BY <1>3, <2>1
<1>7. Between(e)
  <2>1. Ch(e) = "eof" => e = Len(text) + 1
    <3>1. e \in 1 .. Len(text) => Ch(e) \in Chars /\ Ch(e) # "eof"
      BY <1>2, TextFacts
    <3> QED
      BY <1>2, <1>5, <3>1
  <2> QED
    BY <1>6, <2>1 DEF Between
<1>8. ptr \in Bare /\ ~(ptr > Len(text))
  BY <1>1, <1>2 DEF Between
<1>9. Lexical(Word(ptr, e))
  BY <1>8 DEF Separated
<1> QED
  BY <1>2, <1>3, <1>5, <1>6, <1>7, <1>9 DEF Word, Part

\* A token keeps AInv that is not faulty and ends where the next lexeme may begin.
LEMMA Accepting ==
  ASSUME AInv, LInv', ~done, NEW type, NEW next, NEW columns, NEW bad, NEW n,
         Emit(type, next, columns, bad, n),
         Separated => ~bad /\ n = 0 /\ Between(next)
  PROVE  AInv'
<1>1. /\ text' = text /\ ptr' = next /\ done' = done
      /\ invalid' = invalid + n /\ errs' = (errs \/ bad \/ n > 0)
  BY DEF Emit, Count
<1>2. (Separated' <=> Separated) /\ \A p : Between(p)' <=> Between(p)
  BY <1>1, SameBare
<1>3. ASSUME Separated PROVE ~errs' /\ invalid' = 0 /\ Between(next)
  <2>1. ~errs /\ invalid = 0 /\ ~bad /\ n = 0 /\ ~(0 > 0)
    BY <1>3 DEF AInv
  <2>2. ~errs'
    BY <1>1, <2>1
  <2>3. invalid' = 0
    BY <1>1, <2>1
  <2> QED
    BY <1>3, <2>2, <2>3
<1>4. Between(ptr)' <=> Between(next)
  BY <1>1, <1>2 DEF Between, Ch, Bare
<1> QED
  BY <1>2, <1>3, <1>4 DEF AInv

\* AInv is kept by a blank.
LEMMA BlankAccepts ==
  ASSUME AInv, LInv', SkipBlank
  PROVE  AInv'
<1>1. ~done /\ done' = done /\ text' = text /\ errs' = errs /\ invalid' = invalid
      /\ ptr' = ptr + 1 /\ Ch(ptr) \in Blanks
  BY DEF SkipBlank, At, Scanning, Skips
<1>2. (Separated' <=> Separated)
  BY <1>1, SameBare
<1>3. ASSUME Separated PROVE Between(ptr + 1)
  <2>1. ptr \in 1 .. Len(text) /\ Len(text) \in Nat /\ text \in Texts
    BY <1>1, <1>3, InText, TextFacts DEF AInv, Blanks
  <2> DEFINE k == ptr + 1
  <2>2. k \in 1 .. Len(text) + 1 /\ k - 1 = ptr
    BY <2>1
  <2> HIDE DEF k
  <2>3. Between(k)
    BY <1>1, <2>2 DEF Between, Bare
  <2> QED
    BY <2>3 DEF k
<1>4. Between(ptr)' <=> Between(ptr + 1)
  BY <1>1 DEF Between, Ch, Bare
<1> QED
  BY <1>1, <1>2, <1>3, <1>4 DEF AInv

\* No comment stands where a lexeme does.
LEMMA CommentAccepts ==
  ASSUME AInv, SkipNote \/ SkipMultiLineComment
  PROVE  ~Separated
<1> SUFFICES ASSUME Separated PROVE FALSE
  OBVIOUS
<1>1. ~done /\ Ch(ptr) = "/" /\ Ch(ptr + 1) \in {"/", "*"}
  BY DEF SkipNote, SkipMultiLineComment, Scanning, IsNote, IsComment
<1>2. Ch(ptr) \notin Blanks /\ Ch(ptr) # "eof"
  BY <1>1 DEF Blanks
<1> DEFINE e == Past(ptr, Chars \ Blanks)
<1>3. /\ text \in Texts /\ ptr \in 1 .. Len(text) /\ text[ptr] = Ch(ptr)
      /\ e \in ptr + 1 .. Len(text) + 1 /\ Ch(e) \in Blanks \cup {"eof"}
      /\ Lexical(Part(text, ptr, e - 1))
  BY <1>1, <1>2, Chunk, Zenon
<1> HIDE DEF e
<1> DEFINE q == e - 1
<1>4. q \in ptr .. Len(text) /\ q + 1 = e
  BY <1>3, TextFacts
<1>5. Part(text, ptr, q) \in TypeTable
  <2> HIDE DEF q
  <2>1. Lexical(Part(text, ptr, q))
    BY <1>3 DEF q
  <2> QED
    BY <1>1, <1>3, <1>4, <2>1, EndIs
<1> HIDE DEF q
<1>6. q = ptr
  BY <1>1, <1>3, <1>4, <1>5, TypeIs DEF TwoTypes
<1>7. Ch(ptr + 1) \in Blanks \cup {"eof"}
  BY <1>3, <1>4, <1>6
<1> QED
  BY <1>1, <1>7 DEF Blanks

\* An identifier between blanks is read to its end.
LEMMA WordAccepts ==
  ASSUME AInv, LInv', IdGen
  PROVE  AInv'
<1> DEFINE r == Rest[ptr]
           e == Past(ptr, Chars \ Blanks)
<1>1. Emit(IdType(r.name), r.next, r.columns, FALSE, r.broken) /\ Ch(ptr) \in Letters \cup High /\ ~done
  BY DEF IdGen, At, Scanning
<1>2. Ch(ptr) \notin Blanks /\ Ch(ptr) # "eof"
  BY <1>1 DEF Letters, High, Blanks
<1>3. ASSUME Separated PROVE r.broken = 0 /\ Between(r.next)
  <2>1. /\ text \in Texts /\ ptr \in 1 .. Len(text) /\ text[ptr] = Ch(ptr)
        /\ e \in ptr + 1 .. Len(text) + 1 /\ Ch(e) \in Blanks \cup {"eof"}
        /\ Lexical(Part(text, ptr, e - 1)) /\ Between(e)
    BY <1>1, <1>2, <1>3, Chunk, Zenon
  <2> HIDE DEF e
  <2> DEFINE q == e - 1
  <2>2. q \in ptr .. Len(text) /\ q + 1 = e /\ q \in 0 .. Len(text) /\ ptr \in 1 .. q + 1
    BY <2>1, TextFacts
  <2> HIDE DEF q
  <2>3. Lexical(Part(text, ptr, q))
    BY <2>1 DEF q
  <2>4. Wordly(ptr, q)
    <3>1. text[ptr] \in Letters \cup {"h1", "h2"} \/ text[ptr] = "c"
      BY <1>1, <2>1 DEF High
    <3> QED
      BY <2>1, <2>2, <2>3, <3>1, EndIs
  <2>5. Ch(q + 1) \notin WordChars
    BY <2>1, <2>2 DEF WordChars, Letters, Digits, High, Blanks
  <2>6. r.next = q + 1 /\ r.broken = 0
    BY <2>1, <2>2, <2>4, <2>5, WordRead
  <2> QED
    BY <2>1, <2>2, <2>6
<1> HIDE DEF r
<1> QED
  BY <1>1, <1>3, Accepting, Zenon

\* So is a number, whose exponent has digits then.
LEMMA NumberAccepts ==
  ASSUME AInv, LInv', NumGen
  PROVE  AInv'
<1> DEFINE n == NumberEnd(ptr)
           bad == Unfinished(ptr)
           e == Past(ptr, Chars \ Blanks)
<1>1. Emit(<<"num">>, n, n - ptr, bad, 0) /\ Ch(ptr) \in Digits /\ ~done
  BY NumberEmits
<1>2. Ch(ptr) \notin Blanks /\ Ch(ptr) # "eof"
  BY <1>1 DEF Digits, Blanks
<1>3. ASSUME Separated PROVE ~bad /\ Between(n)
  <2>1. /\ text \in Texts /\ ptr \in 1 .. Len(text) /\ text[ptr] = Ch(ptr)
        /\ e \in ptr + 1 .. Len(text) + 1 /\ Ch(e) \in Blanks \cup {"eof"}
        /\ Lexical(Part(text, ptr, e - 1)) /\ Between(e)
    BY <1>1, <1>2, <1>3, Chunk, Zenon
  <2> HIDE DEF e
  <2> DEFINE q == e - 1
  <2>2. q \in ptr .. Len(text) /\ q + 1 = e /\ q \in Int
    BY <2>1, TextFacts
  <2> HIDE DEF q
  <2>3. Lexical(Part(text, ptr, q))
    BY <2>1 DEF q
  <2>4. Number(ptr, q)
    BY <1>1, <2>1, <2>2, <2>3, EndIs
  <2>5. /\ n \in ptr + 1 .. Len(text) + 1 /\ Run(ptr, n - 1, NumberChars)
        /\ q < n /\ (bad => q + 1 < n)
    BY <1>1, <2>1, <2>2, <2>4, NumberTaken
  <2> HIDE DEF n, bad
  <2>6. CASE e < n
    <3>1. e \in ptr .. n - 1 /\ e \in 1 .. Len(text)
      BY <2>1, <2>5, <2>6, TextFacts
    <3>2. text[e] \in NumberChars /\ Ch(e) = text[e]
      BY <2>1, <2>5, <3>1, TextFacts DEF Run
    <3> QED
      BY <2>1, <3>2 DEF NumberChars, Digits, Signs, Blanks
  <2>7. CASE ~(e < n)
    <3>1. n = e /\ ~bad
      BY <2>1, <2>2, <2>5, <2>7, TextFacts
    <3> QED
      BY <2>1, <3>1
  <2> QED
    BY <2>6, <2>7
<1> DEFINE columns == n - ptr
           type == <<"num">>
           none == 0
<1>4. Emit(type, n, columns, bad, none)
  BY <1>1
<1>5. Separated => ~bad /\ none = 0 /\ Between(n)
  BY <1>3
<1> HIDE DEF n, bad, columns, type, none
<1> QED
  BY <1>1, <1>4, <1>5, Accepting, Zenon

\* An operator between blanks is one of the words.
LEMMA OperatorAccepts ==
  ASSUME AInv, ~done, Separated, Ch(ptr) \in OneTypes \cup {"!"}
  PROVE  /\ text \in Texts /\ ptr \in 1 .. Len(text) /\ text[ptr] = Ch(ptr)
         /\ \/ /\ Ch(ptr) \in OneTypes /\ Ch(ptr + 1) \in Blanks \cup {"eof"}
               /\ Word(ptr, ptr + 1) = <<Ch(ptr)>> /\ Between(ptr + 1)
            \/ /\ TwoTypes(Ch(ptr), Ch(ptr + 1)) /\ Between(ptr + 2) /\ Word(ptr, ptr + 2) \in TypeTable
<1> DEFINE e == Past(ptr, Chars \ Blanks)
<1>1. Ch(ptr) \notin Blanks /\ Ch(ptr) # "eof"
  BY DEF OneTypes, Blanks
<1>2. /\ text \in Texts /\ ptr \in 1 .. Len(text) /\ text[ptr] = Ch(ptr)
      /\ e \in ptr + 1 .. Len(text) + 1 /\ Ch(e) \in Blanks \cup {"eof"}
      /\ Lexical(Part(text, ptr, e - 1)) /\ Between(e)
  BY <1>1, Chunk, Zenon
<1> HIDE DEF e
<1> DEFINE q == e - 1
<1>3. q \in ptr .. Len(text) /\ q + 1 = e
  BY <1>2, TextFacts
<1> HIDE DEF q
<1>4. Lexical(Part(text, ptr, q))
  BY <1>2 DEF q
<1>5. Part(text, ptr, q) \in TypeTable
  BY <1>2, <1>3, <1>4, EndIs
<1>6. CASE q = ptr /\ text[ptr] \in OneTypes
  <2>1. e = ptr + 1 /\ e - 1 = ptr
    BY <1>2, <1>3, <1>6
  <2>2. Part(text, ptr, ptr) = <<text[ptr]>>
    BY <1>2, OneIs
  <2>3. Word(ptr, e) = <<Ch(ptr)>>
    BY <1>2, <2>1, <2>2 DEF Word, Part
  <2> QED
    BY <1>2, <1>6, <2>1, <2>3
<1>7. CASE q = ptr + 1 /\ TwoTypes(text[ptr], text[ptr + 1])
  <2>1. e = ptr + 2 /\ e - 1 = q /\ ptr + 1 \in 1 .. Len(text)
    BY <1>2, <1>3, <1>7, TextFacts
  <2>2. text[ptr + 1] = Ch(ptr + 1)
    BY <1>2, <2>1, TextFacts
  <2>3. Word(ptr, e) \in TypeTable
    BY <1>5, <2>1 DEF Word, Part
  <2> QED
    BY <1>2, <1>7, <2>1, <2>2, <2>3
<1> QED
  BY <1>2, <1>3, <1>5, <1>6, <1>7, TypeIs

\* AInv is kept by the operators of scan.
LEMMA OperatorsAccept ==
  ASSUME AInv, LInv', ArrowGen \/ SingleOpr \/ Dots \/ Colons \/ CalcOpr
  PROVE  AInv'
<1>0. ~done
  BY DEF ArrowGen, SingleOpr, Dots, Colons, CalcOpr, At, Scanning
<1>1. CASE ArrowGen
  <2> DEFINE next == ptr + 2
  <2>1. Ch(ptr) \in {"-", "="} /\ Ch(ptr + 1) = ">"
        /\ Emit(Type(Word(ptr, next)), next, next - ptr, FALSE, 0)
    BY <1>1 DEF ArrowGen, IsArrow, Lexeme
  <2>2. ASSUME Separated PROVE Between(next)
    <3>1. Ch(ptr) \in OneTypes \cup {"!"} /\ Ch(ptr + 1) \notin Blanks \cup {"eof"}
      BY <2>1 DEF OneTypes, Blanks
    <3> QED
      BY <1>0, <2>2, <3>1, OperatorAccepts
  <2> HIDE DEF next
  <2> QED
    BY <1>0, <2>1, <2>2, Accepting, Zenon
<1>2. CASE SingleOpr
  <2> DEFINE next == ptr + 1
  <2>1. Ch(ptr) = "(" /\ Emit(Type(<<Ch(ptr)>>), next, next - ptr, FALSE, 0)
    BY <1>2 DEF SingleOpr, At, Single, Lexeme
  <2>2. ASSUME Separated PROVE Between(next)
    <3>1. Ch(ptr) \in OneTypes \cup {"!"} /\ ~TwoTypes(Ch(ptr), Ch(ptr + 1))
      BY <2>1 DEF OneTypes, TwoTypes
    <3> QED
      BY <1>0, <2>2, <3>1, OperatorAccepts
  <2> HIDE DEF next
  <2> QED
    BY <1>0, <2>1, <2>2, Accepting, Zenon
<1>3. CASE Dots
  <2> DEFINE next == IF Ch(ptr + 1) = "." /\ Ch(ptr + 2) = "." THEN ptr + 3 ELSE ptr + 1
  <2>1. Ch(ptr) = "." /\ Emit(Type(Word(ptr, next)), next, next - ptr, FALSE, 0)
    BY <1>3 DEF Dots, At, Lexeme
  <2>2. ASSUME Separated PROVE Between(next)
    <3>1. Ch(ptr) \in OneTypes \cup {"!"} /\ ~TwoTypes(Ch(ptr), Ch(ptr + 1))
      BY <2>1 DEF OneTypes, TwoTypes
    <3>2. Between(ptr + 1) /\ Ch(ptr + 1) \in Blanks \cup {"eof"}
      BY <1>0, <2>2, <3>1, OperatorAccepts
    <3>3. next = ptr + 1
      BY <3>2 DEF Blanks
    <3> QED
      BY <3>2, <3>3
  <2> HIDE DEF next
  <2> QED
    BY <1>0, <2>1, <2>2, Accepting, Zenon
<1>4. CASE Colons
  <2> DEFINE next == IF Ch(ptr + 1) = ":" THEN ptr + 2 ELSE ptr + 1
  <2>1. Ch(ptr) = ":" /\ Emit(Type(Word(ptr, next)), next, next - ptr, FALSE, 0)
    BY <1>4 DEF Colons, At, Lexeme
  <2>2. ASSUME Separated PROVE Between(next)
    <3>1. Ch(ptr) \in OneTypes \cup {"!"}
      BY <2>1 DEF OneTypes
    <3>2. \/ Ch(ptr + 1) \in Blanks \cup {"eof"} /\ Between(ptr + 1)
          \/ Ch(ptr + 1) = ":" /\ Between(ptr + 2)
      BY <1>0, <2>1, <2>2, <3>1, OperatorAccepts DEF TwoTypes
    <3> QED
      BY <3>2 DEF Blanks
  <2> HIDE DEF next
  <2> QED
    BY <1>0, <2>1, <2>2, Accepting, Zenon
<1>5. CASE CalcOpr
  <2> DEFINE next == CalcEnd(ptr)
             type == Type(Word(ptr, next))
  <2>1. Ch(ptr) \in Calc /\ ~IsArrow /\ Emit(type, next, next - ptr, type = Null, 0)
    BY <1>5 DEF CalcOpr, At, Lexeme
  <2>2. ASSUME Separated PROVE Between(next) /\ type # Null
    <3>1. Ch(ptr) \in OneTypes \cup {"!"}
      BY <2>1 DEF Calc, Signs, OneTypes
    <3>2. \/ /\ Ch(ptr) \in OneTypes /\ Ch(ptr + 1) \in Blanks \cup {"eof"}
             /\ Word(ptr, ptr + 1) = <<Ch(ptr)>> /\ Between(ptr + 1)
          \/ /\ TwoTypes(Ch(ptr), Ch(ptr + 1)) /\ Between(ptr + 2) /\ Word(ptr, ptr + 2) \in TypeTable
      BY <1>0, <2>2, <3>1, OperatorAccepts
    <3>3. \A w \in TypeTable : Type(w) # Null
      BY DEF TypeTable, Type, Null
    <3>4. CASE /\ Ch(ptr) \in OneTypes /\ Ch(ptr + 1) \in Blanks \cup {"eof"}
               /\ Word(ptr, ptr + 1) = <<Ch(ptr)>> /\ Between(ptr + 1)
      <4>1. next = ptr + 1
        BY <3>4 DEF CalcEnd, Blanks
      <4>2. <<Ch(ptr)>> \in TypeTable
        BY <3>4, TypesAre
      <4> QED
        BY <3>3, <3>4, <4>1, <4>2
    <3>5. CASE TwoTypes(Ch(ptr), Ch(ptr + 1)) /\ Between(ptr + 2) /\ Word(ptr, ptr + 2) \in TypeTable
      <4>1. Ch(ptr + 1) = "="
        BY <2>1, <3>5 DEF TwoTypes, Calc, Signs, IsArrow
      <4>2. next = ptr + 2
        BY <4>1 DEF CalcEnd
      <4> QED
        BY <3>3, <3>5, <4>2
    <3> QED
      BY <3>2, <3>4, <3>5
  <2> HIDE DEF next, type
  <2> QED
    BY <1>0, <2>1, <2>2, Accepting, Zenon
<1> QED
  BY <1>1, <1>2, <1>3, <1>4, <1>5

\* An invalid character is in no lexeme.
LEMMA ErrAccepts ==
  ASSUME AInv, ErrChar
  PROVE  ~Separated
<1> SUFFICES ASSUME Separated PROVE FALSE
  OBVIOUS
<1>1. ~done /\ Ch(ptr) = "@"
  BY DEF ErrChar, At, Scanning
<1>2. Ch(ptr) \notin Blanks /\ Ch(ptr) # "eof"
  BY <1>1 DEF Blanks
<1> DEFINE e == Past(ptr, Chars \ Blanks)
<1>3. /\ text \in Texts /\ ptr \in 1 .. Len(text) /\ text[ptr] = Ch(ptr)
      /\ e \in ptr + 1 .. Len(text) + 1 /\ Lexical(Part(text, ptr, e - 1))
  BY <1>1, <1>2, Chunk, Zenon
<1> HIDE DEF e
<1> DEFINE q == e - 1
<1>4. q \in ptr .. Len(text)
  BY <1>3, TextFacts
<1>5. Lexical(Part(text, ptr, q))
  BY <1>3
<1> HIDE DEF q
<1> QED
  BY <1>1, <1>3, <1>4, <1>5, EndIs

\* AInv is inductive.
LEMMA NextAccepts ==
  ASSUME AInv, [Next]_vars
  PROVE  AInv'
<1>1. LInv'
  BY NextCounts DEF AInv
<1>2. CASE SkipNote \/ SkipMultiLineComment \/ ErrChar
  <2>1. ~Separated /\ text' = text
    BY <1>2, CommentAccepts, ErrAccepts DEF SkipNote, SkipMultiLineComment, ErrChar, Skips
  <2>2. ~Separated'
    BY <2>1, SameBare
  <2> QED
    BY <1>1, <2>2 DEF AInv
<1>3. CASE ScanEnd
  <2>1. done' /\ text' = text /\ errs' = errs /\ invalid' = invalid
    BY <1>3 DEF ScanEnd
  <2>2. Separated' <=> Separated
    BY <2>1, SameBare
  <2> QED
    BY <1>1, <2>1, <2>2 DEF AInv
<1>4. CASE UNCHANGED vars
  <2>1. (Separated' <=> Separated) /\ (Between(ptr)' <=> Between(ptr))
    BY <1>4 DEF vars, Between, Bare, Ch, Separated, Word, Past
  <2> QED
    BY <1>1, <1>4, <2>1 DEF vars, AInv
<1> QED
  BY <1>1, <1>2, <1>3, <1>4, BlankAccepts, WordAccepts, NumberAccepts, OperatorsAccept DEF Next

\* AInv holds in the beginning.
LEMMA InitAccepts ==
  ASSUME Init
  PROVE  AInv
<1>1. LInv /\ ~errs /\ invalid = 0 /\ ptr = 1 /\ text \in Texts
  BY InitCounts DEF Init
<1>2. Between(1)
  <2>1. 1 \in 1 .. Len(text) + 1 /\ 1 = 1
    BY <1>1, TextFacts
  <2> QED
    BY <2>1 DEF Between, Bare
<1> QED
  BY <1>1, <1>2 DEF AInv

\* Lexemes between blanks are accepted in every text, however many and whatever they are.
THEOREM ScansLexemes == Spec => []AcceptsLexemes
<1>1. Init => AInv
  BY InitAccepts
<1>2. AInv /\ [Next]_vars => AInv'
  BY NextAccepts
<1>3. AInv => AcceptsLexemes
  BY DEF AInv, AcceptsLexemes
<1> QED
  BY <1>1, <1>2, <1>3, PTL DEF Spec
=============================================================================
