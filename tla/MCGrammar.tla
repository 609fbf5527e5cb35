------------------------------ MODULE MCGrammar ------------------------------
(***************************************************************************)
(* Files that between them use every rule, each as it is, cut off after    *)
(* every token, and with every token left out, replaced or preceded by one *)
(* that does not belong there; and every pair of small members of a        *)
(* generic type whose names are shadowed, repeated, unknown or another     *)
(* method's.  The sample program is one of the files, token by token.      *)
(* Indexes are below 10, so that 12 does not fit in a u32.                 *)
(***************************************************************************)
EXTENDS Grammar, SequencesExt

MCValueOf == [x \in {"0", "1", "2", "3", "4", "12", "1_", "0x", "5u8", "0u8", "1u8",
                     "2u8", "64u32", "0u64", "1u64", "2u64", "3u64"} |->
                 CASE x \in {"0", "0u8", "0u64"} -> 0 [] x \in {"1", "1u8", "1u64"} -> 1
                   [] x \in {"2", "2u8", "2u64"} -> 2 [] x \in {"3", "3u64"} -> 3
                   [] x = "4" -> 4 [] x = "5u8" -> 5 [] x = "12" -> 12
                   [] x = "64u32" -> 64 [] x \in {"1_", "0x"} -> None]

\* The sample program's names and strings, in the quotes they have there.
Quoted == {"'MsgboxTest::Test'", "'.sctor'", "'TestFn'", "'User32.dll'", "'MessageBoxW'",
           "'Test passed'", "'INFO'", "'System::Object'", "'System::Void'",
           "'System::String'", "'System::Pointer'", "'System::DynamicLibrary'",
           "'System::Int32'", "'System::UInt32'", "'System::UInt8'", "'System::USize'",
           "'System::Array`1'", "'System::NonPurusCallType'",
           "'System::NonPurusCallConfiguration'"}

\* A token from how it is written here.
Tok(x) ==
    CASE x \in Special              -> [form |-> "special", text |-> x]
      [] x = "0x"                   -> [form |-> "empty_int", text |-> x]
      [] x \in DOMAIN MCValueOf     -> [form |-> "int", text |-> x]
      [] x = "'field'"              -> [form |-> "string", text |-> "field"]
      [] x = "'T'"                  -> [form |-> "string", text |-> "T"]
      [] x \in Quoted               -> [form |-> "string", text |-> x]
      [] x = "'\\'"                 -> [form |-> "bad_string", text |-> x]
      [] x = "r#class"              -> [form |-> "raw", text |-> "class"]
      [] x \in {"float", "char", "table"} -> [form |-> x, text |-> x]
      [] OTHER                      -> [form |-> "word", text |-> x]

Toks(s) == [i \in DOMAIN s |-> Tok(s[i])]

T(n) == <<"[", "!", "]", n>>
Body == <<"{", "}">>

Local(n, t)   == <<n, ":">> \o T(t)
ArrayOf(t)    == T("'System::Array`1'") \o <<"<">> \o T(t) \o <<">">>
LoadInto(x, r) == <<"Load", x, "->", r, ";">>

\* One of the arguments TestFn describes.
SetArgument(i, constructor) ==
    LoadInto(i, "indexForSetting") \o
    <<"StaticCall">> \o T("'System::NonPurusCallType'")
      \o <<constructor, "(", ")", "->", "argument", ";",
      "InstanceCall", "arguments", "set_Index", "(", "indexForSetting", ",", "argument",
      ")", "->", "junk", ";">>

Sctor ==
    <<"method", "[", "2", "public", "static", "]", "'.sctor'", "(", ")", "->">>
      \o T("'System::Void'") \o <<"{", "locals", "(">>
      \o Local("dllName", "'System::String'") \o Local("dll", "'System::DynamicLibrary'")
      \o <<")">> \o LoadInto("'User32.dll'", "dllName")
      \o <<"NewObject">> \o T("'System::DynamicLibrary'")
      \o <<"2", "(", "dllName", ")", "->", "dll", ";",
      "SetStaticField", "dll", "->", "[", "MsgboxTest", "]", "'MsgboxTest::Test'", "0", ";",
      "}">>

TestFnLocals ==
    <<"locals", "(">> \o Local("junk", "'System::Void'")
      \o Local("lib", "'System::DynamicLibrary'") \o Local("methodName", "'System::String'")
      \o Local("fnPtr", "'System::Pointer'") \o Local("hWnd", "'System::Pointer'")
      \o Local("lpText", "'System::String'") \o Local("lpCaption", "'System::String'")
      \o Local("uType", "'System::UInt32'")
      \o Local("callConfig", "'System::NonPurusCallConfiguration'")
      \o Local("callConvention", "'System::UInt8'")
      \o Local("returnType", "'System::NonPurusCallType'")
      \o Local("encoding", "'System::UInt8'") \o Local("objectStrategy", "'System::UInt8'")
      \o <<"byrefArguments", ":">> \o ArrayOf("'System::USize'")
      \o <<"arguments", ":">> \o ArrayOf("'System::NonPurusCallType'")
      \o Local("indexForSetting", "'System::USize'")
      \o Local("argument", "'System::NonPurusCallType'") \o Local("RET", "'System::Int32'")
      \o <<")">>

TestFn ==
    <<"method", "[", "3", "public", "static", "]", "'TestFn'", "(", ")", "->">>
      \o T("'System::Int32'") \o <<"{">> \o TestFnLocals
      \o <<"Load", "static", "(", "[", "MsgboxTest", "]", "'MsgboxTest::Test'", "0", ")",
      "->", "lib", ";">> \o LoadInto("'MessageBoxW'", "methodName")
      \o <<"InstanceCall", "lib", "GetSymbol", "(", "methodName", ")", "->", "fnPtr", ";">>
      \o LoadInto("0u64", "hWnd") \o LoadInto("'Test passed'", "lpText")
      \o LoadInto("'INFO'", "lpCaption") \o LoadInto("64u32", "uType")
      \o LoadInto("0u8", "callConvention")
      \o <<"StaticCall">> \o T("'System::NonPurusCallType'")
      \o <<"CreateI32", "(", ")", "->", "returnType", ";">>
      \o LoadInto("2u8", "encoding") \o LoadInto("1u8", "objectStrategy")
      \o <<"NewArray">> \o T("'System::USize'") \o <<"0", "->", "byrefArguments", ";",
      "NewArray">> \o T("'System::NonPurusCallType'") \o <<"4", "->", "arguments", ";">>
      \o SetArgument("0u64", "CreatePointer") \o SetArgument("1u64", "CreateString")
      \o SetArgument("2u64", "CreateString") \o SetArgument("3u64", "CreateU32")
      \o <<"NewObject">> \o T("'System::NonPurusCallConfiguration'")
      \o <<"2", "(", "callConvention", ",", "returnType", ",", "encoding", ",",
      "objectStrategy", ",", "byrefArguments", ",", "arguments", ",", ")", "->",
      "callConfig", ";",
      "NonPurusCall", "#", "callConfig", "fnPtr", "(", "hWnd", ",", "lpText", ",",
      "lpCaption", ",", "uType", ")", "->", "RET", ";", "ReturnVal", "RET", ";", "}">>

\* MsgboxTest/src/Program.plir:1-92.
Sample ==
    <<"class", "[", "0", "public", "]", "'MsgboxTest::Test'", ":">> \o T("'System::Object'")
      \o <<"{", "field", "[", "0", "public", "static", "]", "LIB", ":">>
      \o T("'System::DynamicLibrary'") \o <<";">> \o Sctor \o TestFn \o <<"}">>

\* A class of the shape of the sample's, short enough to be spoilt at every token.
Short ==
    <<"class", "[", "0", "public", "]", "Test", ":">> \o T("Object") \o <<"{",
      "field", "[", "0", "public", "static", "]", "LIB", ":">> \o T("Lib") \o <<";",
      "method", "[", "2", "public", "static", "]", "sctor", "(", ")", "->">>
      \o T("Void") \o <<"{", "locals", "(">> \o Local("dllName", "String")
      \o <<"dll", ":">> \o T("Array") \o <<"<">> \o T("USize") \o <<">", ")",
      "Load", "'field'", "->", "dllName", ";",
      "NewObject">> \o T("Lib") \o <<"2", "(", "dllName", ",", ")", "->", "dll", ";",
      "SetStaticField", "dll", "->", "[", "Msgbox", "]", "Test", "0", ";",
      "}", "}">>

Generic ==
    <<"class", "[", "2", "private", "1", "partial", "]", "__MAIN", "(", "0", ")",
      "r#class", "[", "T", "+", "]", ":">> \o T("B") \o <<"<", "T", ",">> \o T("C")
      \o <<"<", "T", ">", ">", "{",
      "method", "[", "C", "1", "override", "STDCALL", "]", "m", "[", "U", "]",
      "(", "[", "ref", "]", "T", ",", "[", "]", "U", ")", "->", "U",
      "impl", "0", "[", "T", "U", "]", "in">> \o T("I") \o <<"{", "table", "Nop", ";",
      "}", "}">>

Others ==
    <<"interface", "[", "0", "internal", "]", "I", ":">> \o T("J") \o <<",">> \o T("K")
      \o <<"{", "method", "[", "0", "hide_when_capturing", "]", "m", "(", ")", "->">>
      \o T("V") \o Body \o <<"}",
      "struct", "[", "1", "ref", "}", "S", "[", "T", "]", "{",
      "field", "[", "0", "internal", "]", "f", ":", "T", ";", "}">>

Code(s) == <<"class", "[", "0", "]", "A", "{", "method", "[", "0", "]", "m", "(", ")",
             "->">> \o T("V") \o <<"{">> \o s \o <<"}", "}">>

Statements ==
    {Code(s) : s \in
        {<<"ReadPointerTo", "a", "b", "->", "c", ";",
           "WritePointer", "a", "b", "->", "c", ";",
           "Check", "__all_zero", "a", "->", "b", ";">>,
         <<"NewArray">> \o T("V") \o <<"1", "->", "a", ";", "Throw", "a", ";",
           "NewArray">> \o T("V") \o <<"n", "->", "a", ";">>,
         <<"InstanceCall", "a", "m", "(", "b", ",", "c", ")", "->", "d", ";",
           "ReturnVal", "d", ";">>,
         <<"InterfaceCall", "a", "as">> \o T("I") \o <<"0", "[">> \o T("V")
           \o <<"]", "(", ")", "->", "d", ";">>,
         <<"StaticCall">> \o T("I") \o <<"m", "(", ")", "->", "d", ";",
           "NonPurusCall", "#", "a", "b", "(", "c", ")", "->", "d", ";">>,
         <<"SetField", "a", "->", "b", ".", "f", ";",
           "SetThisField", "a", "->", "0", ";">>,
         <<"Jump", "if", "a", "__absolute", "1", ";",
           "Jump", "success", "__all_zero", "a", "__forward", "1", ";">>,
         <<"Jump", "failure", "__all_zero", "a", "__backward", "1", ";",
           "Jump", "__forward", "12", ";">>,
         <<"Load", "-", "5u8", "->", "a", ";", "Load", "-", "-", "true", "->", "a", ";">>,
         <<"Load", "this", "->", "a", ";", "Load", "__arg", "(", "0", ")", "->", "a", ";",
           "Load", "char", "->", "a", ";">>,
         <<"Load", "static", "(">> \o T("V") \o <<"f", ")", "->", "a", ";",
           "Load", "__field", "(", "a", "0", ")", "->", "b", ";">>,
         <<"Load", "sizeof", "(">> \o T("V") \o <<")", "->", "a", ";",
           "Load", "'T'", "->", "a", ";">>}}

Whole == {Short, Generic, Others} \cup Statements

----------------------------------------------------------------------------
Strays == {"}", "name", "12", "'\\'", "method", "-", "float"}
Extras == {"]", "1_", "0x", "0", "where", ","}

Without(s, i) == SubSeq(s, 1, i - 1) \o SubSeq(s, i + 1, Len(s))
Spoilt == UNION {{SubSeq(s, 1, k) : k \in 0 .. Len(s)}
                   \cup {Without(s, i) : i \in DOMAIN s}
                   \cup {ReplaceAt(s, i, x) : i \in DOMAIN s, x \in Strays}
                   \cup {InsertAt(s, i, x) : i \in DOMAIN s, x \in Extras} : s \in Whole}

----------------------------------------------------------------------------
Lists == {<<>>, <<"[", "T", "]">>, <<"[", "U", "T", "]">>}
Bare  == {"T", "'T'", "U", "V"}

Fields  == {<<"field", "[", "0", "]", "f", ":", x, ";">> : x \in Bare}
Methods == {<<"method", "[", "0", "]", "m">> \o g \o <<"(", ")", "->", x>> \o Body :
               g \in Lists \cup {<<"[", "V", "U", "U", "]">>}, x \in Bare}
Calls   == {<<"method", "[", "0", "]", "m">> \o g
              \o <<"(", ")", "->">> \o T("V") \o <<"{", "InstanceCall", "a", "n", "[",
                   x, y, "]", "(", ")", "->", "b", ";", "}">> :
              g \in Lists, x \in Bare, y \in Bare \cup {"+"}}

Scopes == {<<"class", "[", "0", "]", "A">> \o g \o <<"{">> \o a \o b \o <<"}">> :
              g \in Lists, a \in Methods \cup Fields, b \in Methods \cup Fields}
            \cup {<<"class", "[", "0", "]", "A">> \o g \o <<"{">> \o a \o <<"}">> :
                     g \in Lists, a \in Calls}
            \cup {<<"class", "[", "0", "]", "A", "[", "T", "]", "{", "}",
                    "class", "[", "0", "]", "B">> \o g \o <<"{">> \o a \o <<"}">> :
                     g \in Lists, a \in Methods \cup Fields}

MCInputs  == {Toks(s) : s \in {Sample} \cup Whole \cup Spoilt \cup Scopes}
MCSamples == {Toks(Sample)}
============================================================================
