---------------------------- MODULE LoadContent ----------------------------
(***************************************************************************)
(* LoadableContent::parse: what stands between `Load` and `->`.  The       *)
(* tokens are a number of hyphens and one that is not a hyphen, with what  *)
(* belongs to it:                                                          *)
(*   "Int"         value (None if from_str_radix refuses the digits, as it *)
(*                   does an underscore), suffix                           *)
(*   "EmptyInt", "Float", "Other"                                          *)
(*   "Char", "Byte", "Str", "ByteStr"                                      *)
(*                 text, None if an escape in it is wrong                  *)
(*   "RawStr", "RawByteStr"   text                                         *)
(*   "true", "false", "this"                                               *)
(*   "arg"         index (None as above)                                   *)
(*   "static"      ty, field                                               *)
(*   "field"       container, field                                        *)
(*   "sizeof"      ty                                                      *)
(* The lexer's tokens are terminated ones here: ast::parse refuses a file  *)
(* with any other.                                                         *)
(***************************************************************************)
EXTENDS Integers

CONSTANTS
    Bits,    \* the suffixes of integers, and how many bits a value has
    Signed,  \* those of signed types
    Empty,   \* the text without characters
    None

ASSUME BitsAssumption == /\ DOMAIN Bits \subseteq STRING
                         /\ \A s \in DOMAIN Bits : Bits[s] \in Nat \ {0}
                         /\ Signed \subseteq DOMAIN Bits
ASSUME NoValueAssumption == None \notin Nat

Rejected == [kind |-> "error"]
Panics   == [kind |-> "panic"]

AnyHyphen(hyphens) == hyphens > 0
\* `Some(!is_negative.unwrap_or(false))`
Negative(hyphens) == hyphens % 2 = 1

\* The largest value from_str_radix of the suffix's type takes.
Largest(suffix) == 2 ^ (Bits[suffix] - (IF suffix \in Signed THEN 1 ELSE 0)) - 1

\* Which of LoadContent::U8 ... I64 it is: `usize` is as good as `u64`.
NumberType(suffix) == [signed |-> suffix \in Signed, bits |-> Bits[suffix]]

\* The value is parsed first and negated then.
Number(hyphens, tk) ==
    IF tk.suffix \in DOMAIN Bits /\ tk.value # None /\ tk.value <= Largest(tk.suffix)
    THEN [kind  |-> "Number",
          type  |-> NumberType(tk.suffix),
          value |-> IF tk.suffix \in Signed /\ Negative(hyphens)
                    THEN -tk.value ELSE tk.value]
    ELSE Rejected

Truth(hyphens, tk) ==
    IF (tk.kind = "true") # Negative(hyphens) THEN [kind |-> "True"]
                                              ELSE [kind |-> "False"]

\* A text with its escapes resolved; of a character, its first one.
Text(kind, single, tk) ==
    IF tk.text = None \/ (single /\ tk.text = Empty)
    THEN Rejected
    ELSE [kind |-> kind, text |-> tk.text]

\* `assert!(is_negative.is_none())`
Unsigned == {"Char", "Byte", "Str", "ByteStr", "RawStr", "RawByteStr",
             "this", "arg", "static", "field", "sizeof"}

TokenKinds == Unsigned \cup {"Int", "EmptyInt", "Float", "Other", "true", "false"}

Parse(hyphens, tk) ==
    CASE tk.kind \in Unsigned /\ hyphens > 0 -> Panics
      [] tk.kind = "Int"                  -> Number(hyphens, tk)
      [] tk.kind = "Float"                -> Panics
      [] tk.kind \in {"true", "false"}    -> Truth(hyphens, tk)
      [] tk.kind \in {"EmptyInt", "Other"} -> Rejected
      [] OTHER ->
            CASE tk.kind = "Char"    -> Text("Char", TRUE, tk)
              [] tk.kind = "Byte"    -> Text("Byte", TRUE, tk)
              [] tk.kind \in {"Str", "RawStr"} -> Text("String", FALSE, tk)
              [] tk.kind \in {"ByteStr", "RawByteStr"} -> Text("ByteString", FALSE, tk)
              [] tk.kind = "arg" -> IF tk.index = None THEN Panics ELSE tk
              [] OTHER -> tk
============================================================================
