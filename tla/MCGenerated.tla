---------------------------- MODULE MCGenerated -----------------------------
(***************************************************************************)
(* Programs and flags for model checking Generated, with the addresses     *)
(* its & statements store.                                                 *)
(***************************************************************************)
EXTENDS StoredAddresses

CONSTANTS MaxCore,      \* longest program of core statements
          MaxExtended   \* longest program with extended operators

Flags(heap, wrap, turbo, x) ==
  [heap |-> heap, wrap |-> wrap, turbo |-> turbo, x |-> x]
WrapOnly == {Flags(FALSE, TRUE, FALSE, FALSE)}
NoWrapOnly == {Flags(FALSE, FALSE, FALSE, x) : x \in BOOLEAN}
WrapOrHeap == WrapOnly \union {Flags(TRUE, TRUE, FALSE, FALSE)}
Shell == {Flags(h, TRUE, FALSE, TRUE) : h \in BOOLEAN}
Turbo == {Flags(FALSE, FALSE, TRUE, TRUE)}
AnyMode == WrapOrHeap \union NoWrapOnly \union Shell \union Turbo

ProgramsOver(toks, k) == {Emit(p) : p \in {q \in BoundedSeq(toks, k) : TokBalanced(q)}}

Walks == {Tok(">", 1), Tok(">", 2), Tok("<", 1), Tok("<", 2)}
Core == Walks \union {Tok("+", 1), Tok("-", 2), Tok("[", 1), Tok("]", 1), Tok(".", 1), Tok(",", 1)}
CoreCodes == ProgramsOver(Core, MaxCore)
Assigns == ProgramsOver({Tok(">", 2), Tok("<", 1), Tok("Z", 1), Tok("A", 5), Tok("S", 1),
                         Tok("[", 2), Tok("]", 2), Tok("]", 1)}, MaxCore)
DefaultCodes == CoreCodes \union Assigns

Intrinsics == {Tok("$", 1), Tok("$", 2), Tok("$", 3), Tok("$", 4), Tok("$", 5)}
IntrinsicCodes == ProgramsOver({Tok(">", 1), Tok("+", 2), Tok("<", 2)} \union Intrinsics, MaxExtended)

ShellCodes == ProgramsOver({Tok(">", 2), Tok("<", 1), Tok(";", 2), Tok("?", 1), Tok("?", 2),
                            Tok("M", 1), Tok("C", 1), Tok("+", 1), Tok("=", 1), Tok("&", 1)}, MaxExtended)
AddressCodes == ProgramsOver({Tok(">", 2), Tok("<", 1), Tok("<", 2), Tok("+", 1), Tok("M", 1),
                              Tok("$", 2), Tok("&", 1), Tok("&", 2), Tok("=", 1)}, MaxExtended)
AllCodes == DefaultCodes \union IntrinsicCodes \union ShellCodes \union AddressCodes

Words == {<<2>>}
NoInput == {<<>>}
=============================================================================
