------------------------------ MODULE MCLexer -------------------------------
(***************************************************************************)
(* Short texts of all characters, and longer ones of the characters that   *)
(* matter to each other: in numbers, in strings and between lines.         *)
(***************************************************************************)
EXTENDS Lexer

CONSTANTS
  AllLength, NumberLength, StringLength, LineLength   \* lengths of the texts

Of(chars, n) == UNION {[1..k -> chars] : k \in 0..n}

Characters == Letters \cup {"1", "'", "\"", "\\", ".", " ", "=", "!", "<", ">", "+", "_", "?"}

MCTexts ==
  Of(Characters, AllLength)
    \cup Of({"1", ".", "e", "+"}, NumberLength)
    \cup Of({"'", "\"", "\\", "\n", "\r", "n"}, StringLength)
    \cup Of({"\n", "\r", " ", "1", "e"}, LineLength)

MCKeywords == {<<"O", "R">>}
=============================================================================
