----------------------------- MODULE HttpChars -----------------------------
(***************************************************************************)
(* The characters of a request.  Each is a number, and some stand for what *)
(* is written with several: the numbers up to 9, the names Content-Length  *)
(* and Range, "bytes=".  What is not named here is a plain character.      *)
(***************************************************************************)
SP == 10
COLON == 11
CR == 12
LF == 13
PLUS == 14
PERCENT == 15
NUL == 16
ContentLength == 17
SLASH == 18
DOT == 19
QUESTION == 20
DASH == 21
BYTES == 22
RangeName == 23
=============================================================================
