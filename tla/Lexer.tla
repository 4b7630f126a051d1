-------------------------------- MODULE Lexer --------------------------------
(***************************************************************************)
(* lex.cpp: from the characters of a source file to tokens.  A source is a *)
(* string, its characters are numbered from 1, and the character behind    *)
(* the last one is "", the NUL the code stops at.  A token keeps the       *)
(* position behind it, where the next one is read; the type of a keyword,  *)
(* an operator or a bracket is its text.                                   *)
(*                                                                         *)
(* Comments and strings are read by recursion: this module is for TLC.     *)
(***************************************************************************)
EXTENDS Integers, Sequences, FiniteSetsExt, SequencesExt

Char(s, i) == IF i \in 1 .. Len(s) THEN SubSeq(s, i, i) ELSE ""

(* consume_sequence, without the move of the cursor. *)
StartsWith(s, i, prefix) ==
  /\ i + Len(prefix) - 1 <= Len(s)
  /\ SubSeq(s, i, i + Len(prefix) - 1) = prefix

White     == {" ", "\t", "\n"}
Digits    == {"0", "1", "2", "3", "4", "5", "6", "7", "8", "9"}
HexDigits == Digits \cup {"a", "b", "c", "d", "e", "f", "A", "B", "C", "D", "E", "F"}
Letters   ==
  {"_", "a", "b", "c", "d", "e", "f", "g", "h", "i", "j", "k", "l", "m", "n", "o", "p", "q",
   "r", "s", "t", "u", "v", "w", "x", "y", "z", "A", "B", "C", "D", "E", "F", "G", "H", "I",
   "J", "K", "L", "M", "N", "O", "P", "Q", "R", "S", "T", "U", "V", "W", "X", "Y", "Z"}

Keywords ==
  {"break", "continue", "else", "external", "false", "for", "goto", "if", "proc", "return",
   "true", "while"}

(* In the order in which they are tried: the longer ones come first. *)
SimpleTokens ==
  <<"...", "<<", ">>", "&&", "||", "==", "!=", ">=", "<=",
    "*", "/", "%", "+", "-", "=", "&", "^", "|", ",", "(", ")", "{", "}", "[", "]", ">", "<",
    ":">>

(* The first position from i on whose character is not in chars. *)
Skip(s, i, chars) ==
  CHOOSE j \in i .. Len(s) + 1 :
    Char(s, j) \notin chars /\ \A k \in i .. j - 1 : Char(s, k) \in chars

(* Mutant: comments do not nest. *)
CommentEnd_Flat(s, i, depth) ==
  IF \E j \in i .. Len(s) : StartsWith(s, j, "*/")
  THEN 2 + Min({j \in i .. Len(s) : StartsWith(s, j, "*/")})
  ELSE Len(s) + 1

(* Behind the end of a comment whose opening has been read: comments nest, *)
(* and one that is not closed ends with the file.                          *)
RECURSIVE CommentEnd(_, _, _)
CommentEnd(s, i, depth) ==
  IF depth = 0 \/ i > Len(s)    THEN i
  ELSE IF StartsWith(s, i, "/*") THEN CommentEnd(s, i + 2, depth + 1)
  ELSE IF StartsWith(s, i, "*/") THEN CommentEnd(s, i + 2, depth - 1)
  ELSE CommentEnd(s, i + 1, depth)

(* Behind the closing quote, or 0 when the file ends first.  A backslash   *)
(* directly before a quote escapes it, whatever stands before the          *)
(* backslash.                                                              *)
RECURSIVE StringEnd(_, _)
StringEnd(s, i) ==
  CASE Char(s, i) = "\"" -> i + 1
    [] Char(s, i) = ""   -> 0
    [] Char(s, i) = "\\" /\ Char(s, i + 1) = "\"" -> StringEnd(s, i + 2)
    [] OTHER -> StringEnd(s, i + 1)

(* Mutant: a number may hold a second point. *)
NumberEnd_Points(s, i) ==
  IF Char(s, i) \in Digits \/ (Char(s, i) = "." /\ Char(s, i + 1) # ".")
  THEN Skip(s, i + 1, HexDigits \cup {"."})
  ELSE i

(* Behind the number at i, or i when there is none: a digit or a point     *)
(* that no second one follows, an x, hexadecimal digits with one point at  *)
(* most, and a suffix.                                                     *)
NumberEnd(s, i) ==
  LET point == Char(s, i) = "."
      begin == IF Char(s, i + 1) = "x" THEN i + 2 ELSE i + 1
      more  == Skip(s, begin, HexDigits)
      end   == IF Char(s, more) = "." /\ ~point THEN Skip(s, more + 1, HexDigits) ELSE more
  IN  IF Char(s, i) \notin Digits /\ ~(point /\ Char(s, i + 1) # ".") THEN i
      ELSE IF Char(s, end) \in {"u", "f"} THEN end + 1 ELSE end

(***************************************************************************)
(* Lexer::next_token at position at.  "abort" is the TODO an unterminated  *)
(* string runs into; a character that starts no token is consumed and      *)
(* reported as the end of the file, which only its text tells apart.       *)
(***************************************************************************)
NextToken(s, at) ==
  LET start  == Skip(s, at, White)
      Token(type, end) ==
        [type |-> type, text |-> SubSeq(s, start, end - 1), start |-> start, end |-> end]
      number == NumberEnd(s, start)
      string == StringEnd(s, start + 1)
      simple == SelectInSeq(SimpleTokens, LAMBDA text : StartsWith(s, start, text))
      word   == IF Char(s, start) \in Letters THEN Skip(s, start, Letters \cup Digits) ELSE start
      text   == SubSeq(s, start, word - 1)
      line   == Min({i \in start .. Len(s) + 1 : Char(s, i) \in {"\n", ""}})
  IN  IF StartsWith(s, start, "//") THEN Token("comment", line)
      ELSE IF StartsWith(s, start, "/*") THEN Token("comment", CommentEnd(s, start + 2, 1))
      ELSE IF number > start THEN Token("number", number)
      ELSE IF Char(s, start) = "\"" THEN
        IF string = 0 THEN Token("abort", Len(s) + 1) ELSE Token("string", string)
      ELSE IF simple # 0 THEN
        Token(SimpleTokens[simple], start + Len(SimpleTokens[simple]))
      ELSE IF word > start THEN Token(IF text \in Keywords THEN text ELSE "identifier", word)
      ELSE Token("eof", IF start > Len(s) THEN start ELSE start + 1)

(* The tokens of a source, up to the first one behind which nobody reads. *)
RECURSIVE TokensFrom(_, _)
TokensFrom(s, at) ==
  LET token == NextToken(s, at)
  IN  <<token>> \o IF token.type \in {"eof", "abort"} THEN <<>> ELSE TokensFrom(s, token.end)

Tokens(s) == TokensFrom(s, 1)

==============================================================================
