------------------------------- MODULE Lexer --------------------------------
(***************************************************************************)
(* The lexer (src/src/parser/lexer.cpp): a cursor in a text, with the line *)
(* and the column it counts, and at most one token read ahead.  The parser *)
(* calls next and peek in any order.                                       *)
(***************************************************************************)
EXTENDS Naturals, Sequences, FiniteSets

CONSTANTS
  Texts,      \* the texts, as sequences of characters
  Keywords    \* the keywords, as sequences of capital letters

ASSUME LexerAssumption == Texts \subseteq Seq(STRING) /\ Keywords \subseteq Seq(STRING)

(* The classes of characters, as far as they are needed here.              *)
Capital == [e |-> "E", n |-> "N", o |-> "O", r |-> "R"]
Letters == DOMAIN Capital \cup {Capital[c] : c \in DOMAIN Capital}
Digits == {"0", "1"}
Alnum == Letters \cup Digits \cup {"_"}
Spaces == {" ", "\t", "\n", "\r"}
Breaks == {"\n", "\r"}
Quotes == {"'", "\""}
Signs == {"+", "-"}

(* The operators and delimiters; of two characters, those with a longer    *)
(* operator behind them: the second characters that make one.              *)
Single == {"=", "<", ">", "+", "-", "*", "/", "%", ",", ";", ".", "(", ")", "[", "]"}
Seconds(c) ==
  CASE c = "!" -> {"="}
    [] c = "<" -> {"=", ">"}
    [] c = ">" -> {"="}
    [] OTHER -> {}

VARIABLES
  text,     \* input_
  cursor,   \* position_, line_ and column_
  peeked,   \* peeked_token_: a sequence of at most one token
  tokens    \* the tokens that next has returned

lexer_vars == <<text, cursor, peeked, tokens>>

(* from and to say which characters a token was made of.                   *)
Token(kind, value, start, end) ==
  [kind |-> kind, text |-> value, line |-> start.line, column |-> start.column,
   from |-> start.position, to |-> end.position]

-----------------------------------------------------------------------------
(* peek_char and advance.                                                  *)

AtEnd(c) == c.position > Len(text)
None == ""
Char(c) == IF AtEnd(c) THEN None ELSE text[c.position]

(* Bug: \n after \r is a line of its own.                                  *)
AdvanceOne(c) ==
  IF AtEnd(c) THEN c
  ELSE [position |-> c.position + 1,
        line |-> IF Char(c) \in Breaks THEN c.line + 1 ELSE c.line,
        column |-> IF Char(c) \in Breaks THEN 1 ELSE c.column + 1]

(* \r takes a \n behind it along.                                          *)
Advance(c) ==
  LET next == c.position + 1
      pair == Char(c) = "\r" /\ next <= Len(text) /\ text[next] = "\n"
  IN
  IF AtEnd(c) THEN c
  ELSE [position |-> IF pair THEN next + 1 ELSE next,
        line |-> IF Char(c) \in Breaks THEN c.line + 1 ELSE c.line,
        column |-> IF Char(c) \in Breaks THEN 1 ELSE c.column + 1]

(* while (peek_char() is one of chars) advance().                          *)
While(c, chars) ==
  LET after[n \in 0..Len(text)] == IF n = 0 THEN c ELSE Advance(after[n - 1])
      done == CHOOSE n \in 0..Len(text) :
                /\ Char(after[n]) \notin chars
                /\ \A m \in 0 .. n - 1 : Char(after[m]) \in chars
  IN  after[done]

Between(c, d) == SubSeq(text, c.position, d.position - 1)

-----------------------------------------------------------------------------
(* What next_internal reads behind the spaces.                             *)

ToUpper(word) ==
  [i \in DOMAIN word |-> IF word[i] \in DOMAIN Capital THEN Capital[word[i]] ELSE word[i]]

ReadWord(c) ==
  LET end == While(c, Alnum)
      word == Between(c, end)
  IN  [token |-> Token(IF ToUpper(word) \in Keywords THEN "keyword" ELSE "identifier",
                       word, c, end),
       cursor |-> end]

(* A point belongs to the number when a digit is behind it.                *)
Fraction(c) ==
  IF Char(c) = "." /\ Char(Advance(c)) \in Digits THEN While(Advance(c), Digits) ELSE c

(* Bug: the e stays read when no digit follows it.                         *)
ExponentKept(c) ==
  IF Char(c) \in {"e", "E"}
  THEN LET e == Advance(c)
           sign == IF Char(e) \in Signs THEN Advance(e) ELSE e
       IN  IF Char(sign) \in Digits THEN While(sign, Digits) ELSE e
  ELSE c

(* Without a digit, the cursor goes back to the e.                         *)
Exponent(c) ==
  IF Char(c) \in {"e", "E"}
  THEN LET e == Advance(c)
           sign == IF Char(e) \in Signs THEN Advance(e) ELSE e
       IN  IF Char(sign) \in Digits THEN While(sign, Digits) ELSE c
  ELSE c

ReadNumber(c) ==
  LET integer == While(c, Digits)
      end == Exponent(Fraction(integer))
  IN  [token |-> Token(IF end = integer THEN "integer" ELSE "float", Between(c, end), c, end),
       cursor |-> end]

Escape(c) ==
  CASE c = "n" -> "\n"
    [] c = "r" -> "\r"
    [] OTHER -> c

(* The loop of read_string: until the quote, or a break or the end.        *)
ReadString(c) ==
  LET quote == Char(c)
      Stops(s) == AtEnd(s.cursor) \/ (~s.escaped /\ Char(s.cursor) \in Breaks \cup {quote})
      Step(s) ==
        LET char == Char(s.cursor) IN
        [cursor |-> Advance(s.cursor),
         escaped |-> ~s.escaped /\ char = "\\",
         value |-> IF s.escaped THEN Append(s.value, Escape(char))
                   ELSE IF char = "\\" THEN s.value
                   ELSE Append(s.value, char)]
      state[n \in 0..Len(text)] ==
        IF n = 0 THEN [cursor |-> Advance(c), escaped |-> FALSE, value |-> <<>>]
        ELSE Step(state[n - 1])
      last == state[CHOOSE n \in 0..Len(text) :
                      Stops(state[n]) /\ \A m \in 0 .. n - 1 : ~Stops(state[m])]
      end == Advance(last.cursor)
  IN
  IF Char(last.cursor) = quote
  THEN [token |-> Token("string", last.value, c, end), cursor |-> end]
  ELSE [token |-> Token("error", <<>>, c, last.cursor), cursor |-> last.cursor]

(* Any other character; a lone ! is an error, as is one that is unknown.   *)
ReadOperator(c) ==
  LET one == Advance(c)
      end == IF Char(one) \in Seconds(Char(c)) THEN Advance(one) ELSE one
      known == Char(c) \in Single \/ end # one
  IN  [token |-> Token(IF known THEN "operator" ELSE "error", Between(c, end), c, end),
       cursor |-> end]

NextInternal(from) ==
  LET c == While(from, Spaces) IN
  IF AtEnd(c) THEN [token |-> Token("eof", <<>>, c, c), cursor |-> c]
  ELSE IF Char(c) \in Letters \cup {"_"} THEN ReadWord(c)
  ELSE IF Char(c) \in Digits THEN ReadNumber(c)
  ELSE IF Char(c) \in Quotes THEN ReadString(c)
  ELSE ReadOperator(c)

-----------------------------------------------------------------------------
LexerInit ==
  /\ text \in Texts
  /\ cursor = [position |-> 1, line |-> 1, column |-> 1]
  /\ peeked = <<>>
  /\ tokens = <<>>

(* The end of the text is returned again and again; twice is enough here.  *)
MaxEnds == 2
Ended == Cardinality({i \in DOMAIN tokens : tokens[i].kind = "eof"}) >= MaxEnds

Peek ==
  /\ peeked = <<>>
  /\ LET read == NextInternal(cursor) IN
       peeked' = <<read.token>> /\ cursor' = read.cursor
  /\ UNCHANGED <<text, tokens>>

NextToken ==
  \/ /\ peeked # <<>>
     /\ tokens' = tokens \o peeked
     /\ peeked' = <<>>
     /\ UNCHANGED <<text, cursor>>
  \/ /\ peeked = <<>>
     /\ LET read == NextInternal(cursor) IN
          tokens' = Append(tokens, read.token) /\ cursor' = read.cursor
     /\ UNCHANGED <<text, peeked>>

LexerNext == ~Ended /\ (Peek \/ NextToken)

LexerSpec == LexerInit /\ [][LexerNext]_lexer_vars

-----------------------------------------------------------------------------
(* The tokens that were read, returned or not.                             *)
Read == tokens \o peeked

(* Where a position is, counted from the text alone: \n ends a line, and   *)
(* so does \r without one behind it.                                       *)
Ends(p) == text[p] = "\n" \/ (text[p] = "\r" /\ (p = Len(text) \/ text[p + 1] # "\n"))
EndsBefore(p) == {q \in 1 .. p - 1 : Ends(q)}
LineOf(p) == Cardinality(EndsBefore(p)) + 1
ColumnOf(p) ==
  IF EndsBefore(p) = {} THEN p
  ELSE p - (CHOOSE q \in EndsBefore(p) : \A r \in EndsBefore(p) : r <= q)

(* Every token says on which line and column it starts, and the cursor     *)
(* where it is: also after the cursor went back over an exponent that is   *)
(* none, after \r\n, and after a line break escaped in a string.           *)
PositionsTrue ==
  /\ \A i \in DOMAIN Read :
       Read[i].line = LineOf(Read[i].from) /\ Read[i].column = ColumnOf(Read[i].from)
  /\ cursor.line = LineOf(cursor.position) /\ cursor.column = ColumnOf(cursor.position)

(* The lexemes, by what they look like and not by how they are read.       *)
IsDigits(w) == w # <<>> /\ \A i \in DOMAIN w : w[i] \in Digits
IsSignedDigits(w) ==
  IsDigits(w) \/ (w # <<>> /\ Head(w) \in Signs /\ IsDigits(Tail(w)))
IsDecimal(w) ==
  IsDigits(w) \/ \E i \in DOMAIN w :
    w[i] = "." /\ IsDigits(SubSeq(w, 1, i - 1)) /\ IsDigits(SubSeq(w, i + 1, Len(w)))
IsNumber(w) ==
  IsDecimal(w) \/ \E i \in DOMAIN w :
    /\ w[i] \in {"e", "E"}
    /\ IsDecimal(SubSeq(w, 1, i - 1)) /\ IsSignedDigits(SubSeq(w, i + 1, Len(w)))
IsWord(w) == w # <<>> /\ Head(w) \notin Digits /\ \A i \in DOMAIN w : w[i] \in Alnum
IsOperator(w) ==
  \/ Len(w) = 1 /\ w[1] \in Single
  \/ Len(w) = 2 /\ w[2] \in Seconds(w[1])

(* A character of a string is escaped when an odd number of backslashes    *)
(* stands before it, not counting the opening quote.                       *)
Escaped(w, i) ==
  LET run == {j \in 2 .. i - 1 : \A k \in j .. i - 1 : w[k] = "\\"}
  IN  Cardinality(run) % 2 = 1
Closes(w, i) == i > 1 /\ w[i] = w[1] /\ ~Escaped(w, i)
Broken(w, i) == i > 1 /\ w[i] \in Breaks /\ ~Escaped(w, i)
              /\ ~(w[i] = "\n" /\ w[i - 1] = "\r" /\ Escaped(w, i - 1))
IsString(w) ==
  /\ w # <<>> /\ Head(w) \in Quotes /\ Closes(w, Len(w))
  /\ \A i \in 1 .. Len(w) - 1 : ~Closes(w, i) /\ ~Broken(w, i)

IsLexeme(w) == IsNumber(w) \/ IsWord(w) \/ IsOperator(w) \/ IsString(w)

Rest(p, q) == SubSeq(text, p, q)
Longest(t) == ~(\E q \in t.to .. Len(text) : IsLexeme(Rest(t.from, q)))

OfKind(t) ==
  LET w == Rest(t.from, t.to - 1) IN
  CASE t.kind = "integer" -> IsDigits(w) /\ t.text = w
    [] t.kind = "float" -> IsNumber(w) /\ ~IsDigits(w) /\ t.text = w
    [] t.kind \in {"identifier", "keyword"} -> IsWord(w) /\ t.text = w
    [] t.kind = "operator" -> IsOperator(w) /\ t.text = w
    [] t.kind = "string" -> IsString(w)
    [] t.kind = "error" ->
         w # <<>> /\ \A q \in t.from .. Len(text) : ~IsLexeme(Rest(t.from, q))
    [] t.kind = "eof" -> t.from = Len(text) + 1 /\ t.to = t.from

OnlySpaces(p, q) == \A i \in p .. q - 1 : text[i] \in Spaces

(* However peek and next are mixed, the tokens are those of the text: each *)
(* is the longest lexeme at its place, nothing but spaces is left between  *)
(* two of them, none is skipped or returned twice, and an error is where   *)
(* no lexeme is.                                                           *)
LongestLexemes ==
  /\ \A i \in DOMAIN Read :
       /\ OfKind(Read[i]) /\ Longest(Read[i])
       /\ OnlySpaces(IF i = 1 THEN 1 ELSE Read[i - 1].to, Read[i].from)
       /\ i > 1 => Read[i - 1].to <= Read[i].from
  /\ Read # <<>> => cursor.position = Read[Len(Read)].to
=============================================================================
