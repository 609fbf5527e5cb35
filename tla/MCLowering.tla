----------------------------- MODULE MCLowering -----------------------------
(***************************************************************************)
(* Methods over four locals: x of the current type, y of another type that *)
(* has members of the same names with other indexes, y again (shadowed),   *)
(* and g of a generic parameter.  Every statement of a pool alone and in   *)
(* pairs, every entry of a small set of exception tables.                  *)
(***************************************************************************)
EXTENDS Lowering, TLC

CONSTANTS x, y, g, z, This, Other, Param, Missing, f, h, text

Member(name, static, id) == [name |-> name, static |-> static, id |-> id]

MCTypes == {This, Other, Param, Missing}
MCFields == This :> <<Member(f, TRUE, 0), Member(f, FALSE, 1)>> @@
            Other :> <<Member(f, FALSE, 0), Member(f, FALSE, 2), Member(h, TRUE, 1)>>
MCMethods == This :> <<Member(f, TRUE, 2), Member(f, FALSE, 3)>> @@
             Other :> <<Member(f, FALSE, 4), Member(f, TRUE, 1)>>
MCIndexed == {Param}
MCBits == [i8 |-> 3, u8 |-> 3, usize |-> 4]
MCSigned == {"i8"}

ByName(n)  == [index |-> None, name |-> n, generics |-> <<>>]
ByIndex(i) == [index |-> i, name |-> None, generics |-> <<>>]
Generic(n, types) == [index |-> None, name |-> n, generics |-> types]

FieldRefs  == {ByName(f), ByName(h), ByIndex(2)}
MethodRefs == {ByName(f), ByName(h), ByIndex(2), Generic(f, <<Other>>),
               Generic(f, <<Param, Missing>>)}

Load(hyphens, content) ==
    [op |-> "Load", hyphens |-> hyphens, content |-> content, var |-> x]

Ints == {[kind |-> "Int", value |-> v, suffix |-> s] :
           v \in {0, 3, 4, 7, 8, None}, s \in {"i8", "u8", "usize", "i9"}}
Texts == {[kind |-> k, text |-> t] :
            k \in {"Char", "Byte", "Str", "ByteStr", "RawStr"}, t \in {text, Empty, None}}
Plain == {[kind |-> k] : k \in {"EmptyInt", "Float", "Other", "true", "false", "this"}}
Places == {[kind |-> "static", ty |-> t, field |-> r] : t \in {This, Other, Missing}, r \in FieldRefs}
     \cup {[kind |-> "field", container |-> v, field |-> r] : v \in {x, y, g, z}, r \in FieldRefs}
     \cup {[kind |-> "arg", index |-> i] : i \in {1, None}}
     \cup {[kind |-> "sizeof", ty |-> t] : t \in {Other, Missing}}

Loads == {Load(k, c) : k \in 0 .. 2, c \in Ints}
    \cup {Load(k, c) : k \in 0 .. 1, c \in Texts \cup Plain}
    \cup {Load(0, c) : c \in Places}

Pointers == {[op |-> "ReadPointerTo", ptr |-> x, size |-> v, destination |-> g] : v \in {y, z}}
       \cup {[op |-> "WritePointer", source |-> x, size |-> y, ptr |-> g]}
       \cup {[op |-> "Check", to_check |-> x, result |-> y]}
News == {[op |-> "NewObject", ty |-> t, ctor |-> r, args |-> a, result |-> y] :
           t \in {Other, Param, Missing}, r \in MethodRefs, a \in {<<>>, <<x, y>>}}
   \cup {[op |-> "NewArray", ty |-> Other, dynamic |-> d, static |-> n, result |-> x] :
           d \in {x, None}, n \in {2, None}}
Calls == {[op |-> "InstanceCall", val |-> v, method |-> r, args |-> <<y, x>>, result |-> x] :
            v \in {x, y, g}, r \in MethodRefs}
    \cup {[op |-> "StaticCall", ty |-> t, method |-> r, args |-> <<>>, result |-> x] :
            t \in {This, Other}, r \in MethodRefs}
    \cup {[op |-> "InterfaceCall", val |-> v, ty |-> Other, method |-> ByName(f),
           args |-> <<x>>, result |-> x] : v \in {x, y}}
    \cup {[op |-> "NonPurusCall", f_pointer |-> x, config |-> y, args |-> <<g, z>>, result |-> x]}
    \cup {[op |-> "NonPurusCall", f_pointer |-> x, config |-> y, args |-> <<g>>, result |-> x]}
Sets == {[op |-> "SetField", val |-> y, container |-> v, field |-> r] :
           v \in {x, y}, r \in FieldRefs}
   \cup {[op |-> "SetThisField", val |-> y, field |-> r] : r \in FieldRefs}
   \cup {[op |-> "SetStaticField", val |-> y, ty |-> t, field |-> r] :
           t \in {This, Other}, r \in FieldRefs}
Jumps == {[op |-> "Jump", condition |-> c, val |-> x, target |-> n] :
            c \in {"Unconditional", "IfTrue", "CheckSuccess", "CheckFailure"}, n \in {1, None}}
    \cup {[op |-> "Throw", val |-> x], [op |-> "ReturnVal", val |-> z], [op |-> "Nop"]}

Pool == Loads \cup Pointers \cup News \cup Calls \cup Sets \cup Jumps

\* The statements that leave something behind for one after them.
Pairing == {Load(0, c) : c \in Places} \cup Sets
      \cup {Load(0, [kind |-> "Str", text |-> t]) : t \in {text, Empty}}
      \cup {s \in Calls : s.op = "StaticCall"}

Signatures == {[op |-> "signature", name |-> n, args |-> <<Other>>, ty |-> t] :
                 n \in {text}, t \in {Param, Missing}}
Signature == [op |-> "signature", name |-> text, args |-> <<Other>>, ty |-> Param]
TypeField == [op |-> "field", name |-> f, ty |-> Other]

Locs == {[rel |-> r, loc |-> l] : r \in BOOLEAN, l \in {1, 6}}
Ranges == Locs \X Locs
Filter(m) == [ty |-> Other, method |-> m]
Entries == {[op |-> "entry", begin |-> b, end |-> e, ty |-> t, filter |-> fl,
             catch |-> c, finally |-> fin, fault |-> fau] :
              b \in {2, 4}, e \in Locs, t \in {Other}, fl \in {None, Filter(ByName(f))},
              c \in Ranges, fin \in {None} \cup Ranges, fau \in {None}}
      \cup {[op |-> "entry", begin |-> 2, end |-> [rel |-> TRUE, loc |-> 1], ty |-> t, filter |-> fl,
             catch |-> <<[rel |-> TRUE, loc |-> 1], [rel |-> FALSE, loc |-> 6]>>,
             finally |-> None, fault |-> fau] :
              t \in {Other, Missing},
              fl \in {Filter(r) : r \in MethodRefs}, fau \in {None} \cup Ranges}

Source(us) == [units  |-> us,
               locals |-> <<x, y, y, g>>,
               types  |-> <<This, Other, This, Param>>]

MCSources ==
    {Source(<<s>>) : s \in Signatures}
    \cup {Source(<<Signature, s, TypeField>>) : s \in Pool}
    \cup {Source(<<Signature, s1, s2, TypeField>>) : s1 \in Pairing, s2 \in Pairing}
    \cup {Source(<<Signature, e>>) : e \in Entries}
============================================================================
