------------------------------ MODULE MCLexer ------------------------------
(* Values of the constants for checking Lexer: the characters of numbers, of  *)
(* literals, of comments and operators, and of words and dots.                *)
EXTENDS Lexer

Texts == {{"0", "1", ".", "e", "+", "x"},
          {Quote, "'", Backslash, Newline, "a"},
          {"/", "*", "=", Newline, "a"},
          {"<", ">", "-", "=", ":"},
          {Lead, Continuation, "a", Space, "#", NUL},
          {Lead, Continuation, "/", "*", Newline, Quote}}
=============================================================================
