---------------------------- MODULE MCKeyLayout ----------------------------
(***************************************************************************)
(* KeyLayout for TLC: a value block of a LONG, a BYTE and a SHORT (so the  *)
(* key block starts at an odd-sized offset, 15), and a key of a string,   *)
(* an int, a binary and a second string, each string or binary null or of *)
(* length 0, 1, 2 or 40: null, empty and non-empty payloads next to each   *)
(* other.  Ints are 8 bits wide (Integer.MAX_VALUE = 127), so a 40-char    *)
(* string makes the record 115 bytes long, and the columns after it end   *)
(* exactly at 127 or just past it.                                        *)
(***************************************************************************)
EXTENDS KeyLayout

MCValueTypes == <<"LONG", "BYTE", "SHORT">>
MCKeyTypes == <<"STRING", "INT", "BINARY", "STRING">>

MCLens == {0, 1, 2, 40}

\* TableUtils.NULL_LEN
MCNullLen == -1
=============================================================================
