------------------------------ MODULE MCLexer ------------------------------
(***************************************************************************)
(* Every source over a small alphabet, one alphabet for each part of the   *)
(* lexer: comments, raw strings, strings and characters, numbers, and      *)
(* identifiers with what may follow them.                                  *)
(***************************************************************************)
EXTENDS Lexer

UpTo(n, S) == UNION {[1 .. k -> S] : k \in 0 .. n}

Behind(prefix, S) == {prefix \o s : s \in S}

MCSources ==
    UpTo(9, {"/", "*", "\n"}) \cup
    Behind(<<"r">>, UpTo(9, {"#", "\"", "z"})) \cup
    Behind(<<"b", "r">>, UpTo(6, {"#", "\"", "z"})) \cup
    UpTo(7, {"\"", "'", "\\", "b"}) \cup
    Behind(<<"'">>, UpTo(5, {"'", "\\", "/", "\n", "z"})) \cup
    Behind(<<"0">>, UpTo(4, {"0", "7", ".", "e", "x", "_", "-", "a"})) \cup
    Behind(<<"7">>, UpTo(5, {"7", ".", "e", "z", "+"})) \cup
    Behind(<<"0">>, UpTo(4, {"b", "o", "7", "_", "."})) \cup
    UpTo(3, {"z", "r", "_", "#", "\"", "emoji", "joiner", "other", ":", " "})
============================================================================
