----------------------------- MODULE X86Runtime -----------------------------
(***************************************************************************)
(* The operands of instructions, and the routines generate() writes into    *)
(* every user program beside the code of its procedures.                   *)
(***************************************************************************)
EXTENDS Integers, Sequences

eax == <<"reg", "eax">>
ebx == <<"reg", "ebx">>
ecx == <<"reg", "ecx">>
edx == <<"reg", "edx">>
esi == <<"reg", "esi">>
edi == <<"reg", "edi">>
esp == <<"reg", "esp">>
ebp == <<"reg", "ebp">>

Imm(n) == <<"imm", n>>
Sym(label) == <<"sym", label>>              \* the address of a label
Var(label) == <<"var", label>>              \* what is at a label
At(reg, disp) == <<"mem", reg, disp>>       \* what is at reg + disp
AtIndex(reg, index) == <<"idx", reg, index>> \* what is at reg + index
Frame(offset) == At("ebp", offset)

-----------------------------------------------------------------------------
Enter == << <<"push", ebp>>, <<"mov", ebp, esp>> >>

\* The program runs main and exits with what it returns.
Start ==
    << <<"label", "_start">>, <<"mov", Var("_startup_esp"), esp>>, <<"call", "main">>,
       <<"mov", ebx, eax>>, <<"mov", eax, Imm(1)>>, <<"int">> >>

\* main of a program that has none.
EmptyMain ==
    << <<"label", "main">> >> \o Enter \o << <<"xor", eax, eax>>, <<"pop", ebp>>, <<"ret">> >>

GetArgc ==
    << <<"label", "get_argc">>, <<"mov", eax, Var("_startup_esp")>>,
       <<"mov", eax, At("eax", 0)>>, <<"ret">> >>
GetArgv ==
    << <<"label", "get_argv">> >> \o Enter
    \o << <<"mov", eax, Var("_startup_esp")>>, <<"mov", ecx, Frame(8)>>,
          <<"leaarg", eax>>, <<"mov", eax, At("eax", 0)>>, <<"pop", ebp>>, <<"ret">> >>

\* Compares byte by byte; ebx is not saved.
Strcmp ==
    << <<"label", "strcmp">> >> \o Enter
    \o << <<"push", esi>>, <<"push", edi>>, <<"mov", esi, Frame(8)>>, <<"mov", edi, Frame(12)>>,
          <<"label", ".strcmp_loop">>, <<"movb", eax, At("esi", 0)>>, <<"movb", ebx, At("edi", 0)>>,
          <<"cmpb", eax, ebx>>, <<"jne", ".strcmp_diff">>, <<"testb", eax, eax>>,
          <<"jz", ".strcmp_equal">>, <<"inc", esi>>, <<"inc", edi>>, <<"jmp", ".strcmp_loop">>,
          <<"label", ".strcmp_equal">>, <<"xor", eax, eax>>, <<"jmp", ".strcmp_done">>,
          <<"label", ".strcmp_diff">>, <<"movzxb", eax, eax>>, <<"movzxb", ebx, ebx>>,
          <<"sub", eax, ebx>>,
          <<"label", ".strcmp_done">>, <<"pop", edi>>, <<"pop", esi>>, <<"pop", ebp>>, <<"ret">> >>

SaveThree == << <<"push", esi>>, <<"push", edi>>, <<"push", ebx>> >>
LeaveThree ==
    << <<"pop", ebx>>, <<"pop", edi>>, <<"pop", esi>>, <<"pop", ebp>>, <<"ret">> >>

\* The length of the text at reg, in ecx.
LengthAt(reg, loop, done) ==
    << <<"xor", ecx, ecx>>, <<"label", loop>>, <<"movb", eax, AtIndex(reg, "ecx")>>,
       <<"testb", eax, eax>>, <<"jz", done>>, <<"inc", ecx>>, <<"jmp", loop>>, <<"label", done>> >>

\* Copies the text at esi to edi, which ends at the closing zero.
CopyText(loop, done) ==
    << <<"label", loop>>, <<"movb", eax, At("esi", 0)>>, <<"movb", At("edi", 0), eax>>,
       <<"testb", eax, eax>>, <<"jz", done>>, <<"inc", esi>>, <<"inc", edi>>, <<"jmp", loop>>,
       <<"label", done>> >>

StrcatAlloc ==
    << <<"label", "strcat_alloc">> >> \o Enter \o SaveThree
    \o << <<"mov", esi, Frame(8)>> >> \o LengthAt("esi", ".strlen1_loop", ".strlen1_done")
    \o << <<"mov", ebx, ecx>>, <<"mov", edi, Frame(12)>> >>
    \o LengthAt("edi", ".strlen2_loop", ".strlen2_done")
    \o << <<"add", ecx, ebx>>, <<"inc", ecx>>, <<"push", ecx>>, <<"push", ebx>>, <<"push", ecx>>,
          <<"call", "alloc">>, <<"add", esp, Imm(4)>>, <<"mov", edx, eax>>, <<"pop", ebx>>,
          <<"pop", ecx>>, <<"mov", esi, Frame(8)>>, <<"mov", edi, edx>> >>
    \o CopyText(".copy1_loop", ".copy1_done")
    \o << <<"mov", esi, Frame(12)>> >> \o CopyText(".copy2_loop", ".copy2_done")
    \o << <<"mov", eax, edx>> >> \o LeaveThree

StrcatChar ==
    << <<"label", "strcat_char">> >> \o Enter \o SaveThree
    \o << <<"mov", esi, Frame(8)>> >>
    \o LengthAt("esi", ".strcat_char_strlen", ".strcat_char_strlen_done")
    \o << <<"mov", ebx, ecx>>, <<"add", ecx, Imm(2)>>, <<"push", ebx>>, <<"push", ecx>>,
          <<"call", "alloc">>, <<"add", esp, Imm(4)>>, <<"mov", edx, eax>>, <<"pop", ebx>>,
          <<"mov", esi, Frame(8)>>, <<"mov", edi, edx>> >>
    \o CopyText(".strcat_char_copy", ".strcat_char_copy_done")
    \o << <<"mov", eax, Frame(12)>>, <<"movb", At("edi", 0), eax>>,
          <<"movb", At("edi", 1), Imm(0)>>, <<"mov", eax, edx>> >> \o LeaveThree

Stubs ==
    << <<"label", "uint8_join">>, <<"mov", eax, At("esp", 4)>>, <<"ret">>,
       <<"label", "original_init">>, <<"xor", eax, eax>>, <<"ret">>,
       <<"label", "types">>, <<"xor", eax, eax>>, <<"ret">> >>

\* strcmp is left out when the program has its own.
Routines(hasMain, hasStrcmp) ==
    (IF hasMain THEN <<>> ELSE EmptyMain) \o Start \o GetArgc \o GetArgv
    \o (IF hasStrcmp THEN <<>> ELSE Strcmp) \o StrcatAlloc \o StrcatChar \o Stubs
=============================================================================
