------------------------------ MODULE MCScanners ------------------------------
(***************************************************************************)
(* Texts of up to six lines, of those lines that the scanners tell apart:  *)
(* every way to begin a line, strings that go on or are escaped, comments, *)
(* the adverb /: and delimiters that match or do not.                      *)
(***************************************************************************)
EXTENDS Scanners

x == "other"
s == "space"
q == "quote"
b == "backslash"
c == "slash"

MCLines ==
  { <<>>, <<s>>, <<c>>, <<c, x>>, <<b>>, <<b, s>>, <<x>>, <<s, x>>,
    <<x, s, c, "lbrace">>, <<x, c, "lparen">>, <<x, s, c, "colon", "lparen">>,
    <<s, c, "rbrace">>, <<"lbrace">>, <<"rbrace">>, <<s, "rbrace">>,
    <<"lparen", x, "rparen">>, <<x, "rbracket">>, <<"lbracket">>,
    <<q>>, <<x, q, c, "lbrace">>, <<s, q, c, "lparen", q>>, <<q, b, q, q>>,
    <<x, q, x, b>>, <<s, c, q>>, <<q, q, c, "lbrace">> }
===============================================================================
