------------------------------ MODULE Keywords ------------------------------
(***************************************************************************)
(* The words the lexer's `edit` turns from identifiers into keywords, and  *)
(* the modifiers each kind of item takes in its attribute list.            *)
(***************************************************************************)

Visibility == {"public", "private", "internal"}

CallConventions == {"C", "C_VARARG", "WIN64", "SYSTEM_V", "STDCALL", "FASTCALL"}

ClassModifiers     == Visibility \cup {"static", "partial"}
StructModifiers    == Visibility \cup {"ref", "partial"}
InterfaceModifiers == Visibility
FieldModifiers     == Visibility \cup {"static"}
MethodModifiers    ==
    Visibility \cup {"static", "override", "hide_when_capturing"} \cup CallConventions
ParameterModifiers == {"ref"}

TypeKeywords   == {"class", "struct", "interface"}
MemberKeywords == {"method", "field"}

ExceptionKeywords == {"exception_table", "try_rel", "ExceptionCatch",
                      "ExceptionFinally", "ExceptionFault"}
JumpKeywords == {"__absolute", "__forward", "__backward", "if", "success", "failure"}
LoadKeywords == {"true", "false", "this", "__arg", "__field", "sizeof"}

Keywords ==
    TypeKeywords \cup MemberKeywords \cup ClassModifiers \cup StructModifiers
      \cup MethodModifiers \cup ExceptionKeywords \cup JumpKeywords \cup LoadKeywords
      \cup {"__MAIN", "where", "impl", "in", "as", "locals", "__all_zero"}

StatementKeywords ==
    {"Load", "ReadPointerTo", "WritePointer", "Check", "NewObject", "NewArray",
     "InstanceCall", "StaticCall", "InterfaceCall", "NonPurusCall", "SetField",
     "SetThisField", "SetStaticField", "Throw", "ReturnVal", "Jump", "Nop"}
============================================================================
