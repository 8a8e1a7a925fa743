--------------------------- MODULE PipelineProofs ---------------------------
(***************************************************************************)
(* The proof that the whole compiler keeps behaviour: for every source     *)
(* text, input, tape, cell width, optimizer level and vector growth, a     *)
(* compiled program that ends has done what its source does. The           *)
(* invariants proved of the lexer, of the optimizer and of the program are *)
(* carried from stage to stage.                                            *)
(***************************************************************************)
EXTENDS Pipeline, TLAPS

-----------------------------------------------------------------------------
(* The components, with their proofs. Each is the component Pipeline       *)
(* instantiates, with sets that hold all it may be handed where Pipeline,  *)
(* which never uses their Init, has none; the lemmas say that they are     *)
(* the same.                                                               *)

LP == INSTANCE LexerProofs WITH
       Files <- Sources, OptionSets <- {Flags}, MaxWarnings <- 5, MayFail <- FALSE,
       pc <- lexpc, slots <- lslots, size <- lsize, i <- lexi
\* What the lexer may hand on.
Handable == {p \in Seq(Token) : /\ TokBalanced(p)
                                /\ \A k \in 1 .. Len(p) : p[k].len > 0 \/ p[k].op \in {">", "<"}}
OP == INSTANCE OptimizerProofs WITH
       Programs <- Handable, Levels <- OptLevels, Slack <- 1,
       size <- osize, i <- opti, pc <- optpc
GP == INSTANCE GeneratedProofs WITH
       Codes <- Seq(Token), Sizes <- Nat \ {0}, WordSize <- 1, Bases <- {0},
       Targets <- [heap : BOOLEAN, wrap : BOOLEAN, turbo : BOOLEAN, x : BOOLEAN],
       ExecSize <- 0, MapMayFail <- FALSE, stsize <- asked, notes <- {}

\* The two instances of the lexer.
LEMMA LexNext ==
  L!Next <=> LP!Next
  BY DEF L!Next, LP!Next, L!Stop, LP!Stop, L!vars, LP!vars, L!Ended, LP!Ended, L!Accept,
     LP!Accept, L!checkVars, LP!checkVars, L!scanVars, LP!scanVars, L!RejectOpen, LP!RejectOpen,
     L!Reject, LP!Reject, L!Inspect, LP!Inspect, L!endVars, LP!endVars, L!LevelAfter,
     LP!LevelAfter, L!cur, LP!cur, L!Exceeded, LP!Exceeded, L!Warns, LP!Warns, L!HasMinus,
     LP!HasMinus, L!Suspicious, LP!Suspicious, L!TightLoop, LP!TightLoop, L!RejectLoop,
     LP!RejectLoop, L!RejectClose, LP!RejectClose, L!EndScan, LP!EndScan, L!Scan, LP!Scan, L!Keep,
     LP!Keep, L!Push, LP!Push, L!Zeroed, LP!Zeroed, L!NoOp, LP!NoOp, L!Tok, LP!Tok, L!Opposes,
     LP!Opposes, L!Cancelling, LP!Cancelling, L!Usable, LP!Usable, L!Null, LP!Null, L!Refreshed,
     LP!Refreshed, L!Closes, LP!Closes, L!Merge, LP!Merge, L!SetPrev, LP!SetPrev, L!Annihilates,
     LP!Annihilates, L!Annihilate, LP!Annihilate, L!Pop, LP!Pop, L!CloseFewer, LP!CloseFewer,
     L!CloseMore, LP!CloseMore, L!CancelLoop, LP!CancelLoop, L!IsRun, LP!IsRun, L!Pointee,
     LP!Pointee, L!Garbage, LP!Garbage, L!Uninit, LP!Uninit, L!ReadFails, LP!ReadFails,
     L!EndOfFile, LP!EndOfFile, L!ReadChar, LP!ReadChar, L!Copies, LP!Copies, L!CoreOps,
     LP!CoreOps, L!NoVector, LP!NoVector, L!Overrun, LP!Overrun, L!PushUnsized, LP!PushUnsized,
     L!Fits, LP!Fits, L!Storing, LP!Storing

LEMMA LexInit ==
  L!Init <=> LP!Init
  BY DEF L!Init, LP!Init, L!Null, LP!Null, L!Garbage, LP!Garbage, L!Uninit, LP!Uninit, L!Tok,
     LP!Tok, L!Told, LP!Told

LEMMA LexOut ==
  L!out = LP!out
  BY DEF L!out, LP!out

\* The two instances of the optimizer.
LEMMA OptVisitLoop == O!VisitLoop <=> OP!VisitLoop
<1> DEFINE a == O!OpenLoop(slots, opti + 1)
           b == OP!OpenLoop(slots, opti + 1)
<1>1. \A m, l : O!ZeroLoop(m, l) = OP!ZeroLoop(m, l)
  BY DEF O!ZeroLoop, OP!ZeroLoop, O!Tok, OP!Tok, O!Replace, OP!Replace, O!Peeled, OP!Peeled,
     O!Zeroed, OP!Zeroed, O!NoOp, OP!NoOp, O!Put, OP!Put, O!OpsAt, OP!OpsAt
<1>2. \A m, l : O!MoveLoop(m, l) = OP!MoveLoop(m, l)
  BY DEF O!MoveLoop, OP!MoveLoop, O!Tok, OP!Tok, O!Replace, OP!Replace, O!Peeled, OP!Peeled,
     O!Zeroed, OP!Zeroed, O!NoOp, OP!NoOp, O!OpsAt, OP!OpsAt
<1>3. \A m, l : O!CopyLoop(m, l) = OP!CopyLoop(m, l)
  BY DEF O!CopyLoop, OP!CopyLoop, O!Tok, OP!Tok, O!Replace, OP!Replace, O!Peeled, OP!Peeled,
     O!Zeroed, OP!Zeroed, O!NoOp, OP!NoOp, O!RightTotal, OP!RightTotal, O!OpsAt, OP!OpsAt,
     O!Dests, OP!Dests, O!PairAt, OP!PairAt
<1>4. \A m, l : O!ReadsPast(m, l) <=> OP!ReadsPast(m, l)
  BY DEF O!ReadsPast, OP!ReadsPast, O!OpsAt, OP!OpsAt, O!Dests, OP!Dests, O!PairAt, OP!PairAt
<1>5. a = b
  BY <1>1, <1>2, <1>3 DEF O!OpenLoop, OP!OpenLoop
<1>c. O!Compacted(a) <=> OP!Compacted(b)
  <2> HIDE DEF a, b
  <2> QED
    BY <1>5 DEF O!Compacted, OP!Compacted, O!Living, OP!Living, O!Kept, OP!Kept, O!Dead, OP!Dead,
       O!NoOp, OP!NoOp
<1>6. /\ O!Visiting <=> OP!Visiting
      /\ O!cur = OP!cur
      /\ O!Dead(O!cur) <=> OP!Dead(O!cur)
  BY DEF O!Visiting, OP!Visiting, O!cur, OP!cur, O!Dead, OP!Dead, O!NoOp, OP!NoOp
<1>7. O!ReadsPast(O!MoveLoop(O!ZeroLoop(slots, opti + 1), opti + 1), opti + 1)
        <=> OP!ReadsPast(OP!MoveLoop(OP!ZeroLoop(slots, opti + 1), opti + 1), opti + 1)
  BY <1>1, <1>2, <1>4
<1> QED
  BY <1>c, <1>6, <1>7 DEF O!VisitLoop, OP!VisitLoop

LEMMA OptNext ==
  O!Next <=> OP!Next
<1>1. O!SkipDead <=> OP!SkipDead
  BY DEF O!SkipDead, OP!SkipDead, O!cur, OP!cur, O!Dead, OP!Dead, O!NoOp, OP!NoOp, O!Visiting,
     OP!Visiting
<1>2. O!VisitLoop <=> OP!VisitLoop
  BY OptVisitLoop
<1>3. O!VisitZero <=> OP!VisitZero
  BY DEF O!VisitZero, OP!VisitZero, O!FoldZero, OP!FoldZero, O!Tok, OP!Tok, O!Put, OP!Put,
     O!Zeroed, OP!Zeroed, O!NoOp, OP!NoOp, O!Compacted, OP!Compacted, O!Living, OP!Living, O!Kept,
     OP!Kept, O!Dead, OP!Dead, O!cur, OP!cur, O!Visiting, OP!Visiting
<1>4. O!VisitOther <=> OP!VisitOther
  BY DEF O!VisitOther, OP!VisitOther, O!Compacted, OP!Compacted, O!Living, OP!Living, O!Kept,
     OP!Kept, O!Dead, OP!Dead, O!NoOp, OP!NoOp, O!cur, OP!cur, O!Visiting, OP!Visiting
<1>5. O!EndPass <=> OP!EndPass
  BY DEF O!EndPass, OP!EndPass
<1>6. O!Finish <=> OP!Finish
  BY DEF O!Finish, OP!Finish
<1>7. O!Stop <=> OP!Stop
  BY DEF O!Stop, OP!Stop, O!vars, OP!vars
<1> QED
  BY <1>1, <1>2, <1>3, <1>4, <1>5, <1>6, <1>7 DEF O!Next, OP!Next

LEMMA OptOut ==
  O!out = OP!out
  BY DEF O!out, OP!out

LEMMA OptHanded ==
  (O!SingleDecrements <=> OP!SingleDecrements) /\ (\A t : O!Dead(t) <=> OP!Dead(t))
  BY DEF O!SingleDecrements, OP!SingleDecrements, O!Dead, OP!Dead, O!NoOp, OP!NoOp

\* The two instances of the program.
LEMMA RunExtended == G!Extended <=> GP!Extended
<1>0. \A w, a : G!Holds(w, a) <=> GP!Holds(w, a)
  BY DEF G!Holds, GP!Holds, G!FoldLeft, GP!FoldLeft, G!MapThenFoldSet, GP!MapThenFoldSet,
     G!Max, GP!Max
<1>1. G!FillZero <=> GP!FillZero
  BY DEF G!FillZero, GP!FillZero, G!Cell, GP!Cell, G!Fill, GP!Fill, G!Tape, GP!Tape, G!Write,
     GP!Write, G!fixed, GP!fixed, G!Leave, GP!Leave, G!Fits, GP!Fits, G!Safe, GP!Safe, G!Touched,
     GP!Touched, G!PastPair, GP!PastPair, G!Mode, GP!Mode, G!n, GP!n, G!stmt, GP!stmt, G!FitsWord,
     GP!FitsWord, G!Intrinsic, GP!Intrinsic, G!At, GP!At, G!Running, GP!Running
<1>2. G!FillValue <=> GP!FillValue
  BY DEF G!FillValue, GP!FillValue, G!Cell, GP!Cell, G!Fill, GP!Fill, G!Tape, GP!Tape, G!Write,
     GP!Write, G!fixed, GP!fixed, G!Leave, GP!Leave, G!Fits, GP!Fits, G!Safe, GP!Safe, G!Touched,
     GP!Touched, G!PastPair, GP!PastPair, G!Mode, GP!Mode, G!n, GP!n, G!stmt, GP!stmt, G!FitsWord,
     GP!FitsWord, G!Intrinsic, GP!Intrinsic, G!At, GP!At, G!Running, GP!Running
<1>3. G!Multiply <=> GP!Multiply
  BY DEF G!Multiply, GP!Multiply, G!Cell, GP!Cell, G!Write, GP!Write, G!fixed, GP!fixed, G!Leave,
     GP!Leave, G!Safe, GP!Safe, G!Tape, GP!Tape, G!Touched, GP!Touched, G!PastPair, GP!PastPair,
     G!Mode, GP!Mode, G!n, GP!n, G!stmt, GP!stmt, G!FitsWord, GP!FitsWord, G!Intrinsic,
     GP!Intrinsic, G!At, GP!At, G!Running, GP!Running
<1>4. G!Dump <=> GP!Dump
  BY DEF G!Dump, GP!Dump, G!Goto, GP!Goto, G!fixed, GP!fixed, G!Safe, GP!Safe, G!Tape, GP!Tape,
     G!Touched, GP!Touched, G!PastPair, GP!PastPair, G!Mode, GP!Mode, G!n, GP!n, G!stmt, GP!stmt,
     G!FitsWord, GP!FitsWord, G!At, GP!At, G!Running, GP!Running
<1>5. G!Execute <=> GP!Execute
  BY DEF G!Execute, GP!Execute, G!Goto, GP!Goto, G!fixed, GP!fixed, G!Leave, GP!Leave, G!n, GP!n,
     G!stmt, GP!stmt, G!Safe, GP!Safe, G!Tape, GP!Tape, G!Touched, GP!Touched, G!PastPair,
     GP!PastPair, G!Mode, GP!Mode, G!FitsWord, GP!FitsWord, G!At, GP!At, G!Running, GP!Running
<1>6. G!WriteAddress <=> GP!WriteAddress
  BY <1>0 DEF G!WriteAddress, GP!WriteAddress, G!Tape, GP!Tape, G!Write, GP!Write, G!fixed,
     GP!fixed, G!Pointed, GP!Pointed, G!n, GP!n, G!stmt, GP!stmt, G!WordCells, GP!WordCells,
     G!Leave, GP!Leave, G!FitsWord, GP!FitsWord, G!Safe, GP!Safe, G!Touched, GP!Touched,
     G!PastPair, GP!PastPair, G!Mode, GP!Mode, G!At, GP!At, G!Running, GP!Running
<1>7. G!Jump <=> GP!Jump
  BY <1>0 DEF G!Jump, GP!Jump, G!MoveTo, GP!MoveTo, G!fixed, GP!fixed, G!WordHere, GP!WordHere,
     G!Addresses, GP!Addresses, G!Safe, GP!Safe, G!Tape, GP!Tape, G!Touched, GP!Touched,
     G!PastPair, GP!PastPair, G!Mode, GP!Mode, G!n, GP!n, G!stmt, GP!stmt, G!FitsWord,
     GP!FitsWord, G!At, GP!At, G!Running, GP!Running
<1> QED
  BY <1>1, <1>2, <1>3, <1>4, <1>5, <1>6, <1>7 DEF G!Extended, GP!Extended

LEMMA RunNext == G!Next <=> GP!Next
<1>1. G!Build <=> GP!Build
  BY DEF G!Build, GP!Build, G!fixed, GP!fixed, G!Undeclared, GP!Undeclared, G!Mode, GP!Mode,
     G!Redeclares, GP!Redeclares, G!Declared, GP!Declared, G!Enclosing, GP!Enclosing, G!TokDepth,
     GP!TokDepth, G!n, GP!n, G!stmt, GP!stmt, G!Weight, GP!Weight
<1>2. G!Start <=> GP!Start
  BY DEF G!Start, GP!Start, G!fixed, GP!fixed
<1>3. G!StartFails <=> GP!StartFails
  BY DEF G!StartFails, GP!StartFails, G!fixed, GP!fixed
<1>4. G!TurboMove <=> GP!TurboMove
  BY DEF G!TurboMove, GP!TurboMove, G!n, GP!n, G!stmt, GP!stmt, G!MoveTo, GP!MoveTo, G!fixed,
     GP!fixed, G!Mode, GP!Mode, G!At, GP!At, G!Running, GP!Running
<1>5. G!WrapRight <=> GP!WrapRight
  BY DEF G!WrapRight, GP!WrapRight, G!n, GP!n, G!stmt, GP!stmt, G!MoveTo, GP!MoveTo, G!fixed,
     GP!fixed, G!Mode, GP!Mode, G!At, GP!At, G!Running, GP!Running
<1>6. G!WrapLeft <=> GP!WrapLeft
  BY DEF G!WrapLeft, GP!WrapLeft, G!n, GP!n, G!stmt, GP!stmt, G!MoveTo, GP!MoveTo, G!fixed,
     GP!fixed, G!Mode, GP!Mode, G!At, GP!At, G!Running, GP!Running
<1>7. G!CheckedRight <=> GP!CheckedRight
  BY DEF G!CheckedRight, GP!CheckedRight, G!n, GP!n, G!stmt, GP!stmt, G!MoveTo, GP!MoveTo,
     G!fixed, GP!fixed, G!Leave, GP!Leave, G!Mode, GP!Mode, G!At, GP!At, G!Running, GP!Running
<1>8. G!CheckedLeft <=> GP!CheckedLeft
  BY DEF G!CheckedLeft, GP!CheckedLeft, G!n, GP!n, G!stmt, GP!stmt, G!MoveTo, GP!MoveTo, G!fixed,
     GP!fixed, G!Leave, GP!Leave, G!Mode, GP!Mode, G!At, GP!At, G!Running, GP!Running
<1>9. G!HeapRight <=> GP!HeapRight
  BY DEF G!HeapRight, GP!HeapRight, G!n, GP!n, G!stmt, GP!stmt, G!MoveTo, GP!MoveTo, G!fixed,
     GP!fixed, G!Tape, GP!Tape, G!Mode, GP!Mode, G!At, GP!At, G!Running, GP!Running
<1>10. G!HeapGrow <=> GP!HeapGrow
  BY DEF G!HeapGrow, GP!HeapGrow, G!fixed, GP!fixed, G!n, GP!n, G!stmt, GP!stmt, G!Tape, GP!Tape,
     G!Mode, GP!Mode, G!At, GP!At, G!Running, GP!Running
<1>11. G!HeapExhausted <=> GP!HeapExhausted
  BY DEF G!HeapExhausted, GP!HeapExhausted, G!Leave, GP!Leave, G!fixed, GP!fixed, G!n, GP!n,
     G!stmt, GP!stmt, G!Tape, GP!Tape, G!Mode, GP!Mode, G!At, GP!At, G!Running, GP!Running
<1>12. G!HeapLeft <=> GP!HeapLeft
  BY DEF G!HeapLeft, GP!HeapLeft, G!n, GP!n, G!stmt, GP!stmt, G!MoveTo, GP!MoveTo, G!fixed,
     GP!fixed, G!Mode, GP!Mode, G!At, GP!At, G!Running, GP!Running
<1>13. G!Cells <=> GP!Cells
  BY DEF G!Cells, GP!Cells, G!Get1, GP!Get1, G!fixed, GP!fixed, G!Safe, GP!Safe, G!Tape, GP!Tape,
     G!Touched, GP!Touched, G!PastPair, GP!PastPair, G!Mode, GP!Mode, G!n, GP!n, G!stmt, GP!stmt,
     G!FitsWord, GP!FitsWord, G!At, GP!At, G!Running, GP!Running, G!Put1, GP!Put1, G!Cell,
     GP!Cell, G!CopyCell, GP!CopyCell, G!Write, GP!Write, G!MoveCell, GP!MoveCell, G!Update,
     GP!Update, G!NewValue, GP!NewValue, G!Intrinsic, GP!Intrinsic
<1>14. G!Loop <=> GP!Loop
  BY DEF G!Loop, GP!Loop, G!RepeatLoop, GP!RepeatLoop, G!Goto, GP!Goto, G!fixed, GP!fixed,
     G!Matching, GP!Matching, G!TokDepth, GP!TokDepth, G!n, GP!n, G!stmt, GP!stmt, G!Weight,
     GP!Weight, G!At, GP!At, G!Running, GP!Running, G!SkipLoop, GP!SkipLoop, G!Cell, GP!Cell,
     G!Safe, GP!Safe, G!Tape, GP!Tape, G!Touched, GP!Touched, G!PastPair, GP!PastPair, G!Mode,
     GP!Mode, G!FitsWord, GP!FitsWord, G!EnterLoop, GP!EnterLoop
<1>15. G!Extended <=> GP!Extended
  BY RunExtended
<1>16. G!Escape <=> GP!Escape
  BY DEF G!Escape, GP!Escape, G!Leave, GP!Leave, G!fixed, GP!fixed, G!Safe, GP!Safe, G!Tape,
     GP!Tape, G!Touched, GP!Touched, G!PastPair, GP!PastPair, G!Mode, GP!Mode, G!n, GP!n, G!stmt,
     GP!stmt, G!FitsWord, GP!FitsWord, G!Running, GP!Running
<1>17. G!Return <=> GP!Return
  BY DEF G!Return, GP!Return, G!Leave, GP!Leave, G!fixed, GP!fixed
<1>18. G!Stop <=> GP!Stop
  BY DEF G!Stop, GP!Stop, G!vars, GP!vars, G!CutOff, GP!CutOff, G!At, GP!At, G!stmt, GP!stmt,
     G!Running, GP!Running, G!Ended, GP!Ended
<1> QED
  BY <1>1, <1>2, <1>3, <1>4, <1>5, <1>6, <1>7, <1>8, <1>9, <1>10, <1>11, <1>12, <1>13, <1>14, <1>15, <1>16, <1>17, <1>18 DEF
     G!Next, GP!Next, G!Moves, GP!Moves

LEMMA RunEmit ==
  \A ts : G!Emit(ts) = GP!Emit(ts)
  BY DEF G!Emit, GP!Emit, G!Printed, GP!Printed, G!Uninit, GP!Uninit, G!NoOp, GP!NoOp, G!Tok,
     GP!Tok, G!n, GP!n, G!stmt, GP!stmt, G!FlattenSeq, GP!FlattenSeq

LEMMA RunFits ==
  G!RunsFit <=> GP!RunsFit
  BY DEF G!RunsFit, GP!RunsFit

\* Each component has its own copy of the vocabulary and of the interpreter.
LEMMA SpelledSame ==
  \A ts : LP!Spelled(ts) = GP!Spelled(ts) /\ OP!Spelled(ts) = GP!Spelled(ts)
  BY DEF LP!Spelled, OP!Spelled, GP!Spelled, LP!Meaning, OP!Meaning, GP!Meaning, LP!Unfold,
     OP!Unfold, GP!Unfold, LP!FlattenSeq, OP!FlattenSeq, GP!FlattenSeq

LEMMA TokensSame ==
  Token = GP!Token /\ LP!Token = GP!Token /\ OP!Token = GP!Token
  BY DEF Token, LP!Token, OP!Token, GP!Token, Ops, LP!Ops, OP!Ops, GP!Ops, Uninit, LP!Uninit,
     OP!Uninit, GP!Uninit, NoOp, LP!NoOp, OP!NoOp, GP!NoOp, RewriteOps, LP!RewriteOps,
     OP!RewriteOps, GP!RewriteOps, ExtraOps, LP!ExtraOps, OP!ExtraOps, GP!ExtraOps, CoreOps,
     LP!CoreOps, OP!CoreOps, GP!CoreOps

LEMMA BalancedSame ==
  \A ts : (LP!TokBalanced(ts) <=> TokBalanced(ts)) /\ (OP!TokBalanced(ts) <=> TokBalanced(ts))
  BY DEF TokBalanced, LP!TokBalanced, OP!TokBalanced, TokDepth, LP!TokDepth, OP!TokDepth, Weight,
     LP!Weight, OP!Weight

LEMMA CoreSame ==
  \A ts : LP!Core(ts) <=> OP!Core(ts)
  BY DEF LP!Core, OP!Core, LP!CoreOps, OP!CoreOps

LEMMA YieldsSame ==
  \A s, t : LP!Yields(s, t) <=> OP!Yields(s, t)
  BY DEF LP!Yields, OP!Yields, LP!Follows, OP!Follows, LP!Begin, OP!Begin, LP!Conf, OP!Conf,
     LP!Ends, OP!Ends, LP!EndsIn, OP!EndsIn, LP!Halted, OP!Halted, LP!Step, OP!Step, LP!Obeyed,
     OP!Obeyed, LP!WithCell, OP!WithCell, LP!SetCell, OP!SetCell, LP!Here, OP!Here, LP!CellOf,
     OP!CellOf, LP!Shifted, OP!Shifted, LP!Opened, OP!Opened, LP!May, OP!May, LP!Stuck, OP!Stuck,
     LP!Datas, OP!Datas, LP!CellValues, OP!CellValues, LP!Tapes, OP!Tapes, LP!Streams, OP!Streams,
     LP!Ops, OP!Ops, LP!Uninit, OP!Uninit, LP!NoOp, OP!NoOp, LP!RewriteOps, OP!RewriteOps,
     LP!ExtraOps, OP!ExtraOps, LP!CoreOps, OP!CoreOps, LP!Machines, OP!Machines

LEMMA EndsSame ==
  \A e, x, f : GP!Ends(e, x, f) <=> OP!Ends(e, x, f)
  BY DEF GP!Ends, OP!Ends, GP!EndsIn, OP!EndsIn, GP!Halted, OP!Halted, GP!Step, OP!Step,
     GP!Obeyed, OP!Obeyed, GP!WithCell, OP!WithCell, GP!SetCell, OP!SetCell, GP!Here, OP!Here,
     GP!CellOf, OP!CellOf, GP!Shifted, OP!Shifted, GP!Conf, OP!Conf, GP!Opened, OP!Opened, GP!May,
     OP!May, GP!Stuck, OP!Stuck

LEMMA BeginSame ==
  \A s, w : Begin(s, Blank(w)) = GP!Begin(s, GP!Blank(w)) /\ Begin(s, Blank(w)) = OP!Begin(s, OP!Blank(w))
  BY DEF Begin, OP!Begin, GP!Begin, Conf, OP!Conf, GP!Conf, Blank, OP!Blank, GP!Blank

LEMMA InterpretSame ==
  \A e, x, n : Interpret(e, x, n) = OP!Interpret(e, x, n)
  BY DEF Interpret, OP!Interpret, Step, OP!Step, Obeyed, OP!Obeyed, WithCell, OP!WithCell,
     SetCell, OP!SetCell, Here, OP!Here, CellOf, OP!CellOf, Shifted, OP!Shifted, Conf, OP!Conf,
     Opened, OP!Opened, Stuck, OP!Stuck, Halted, OP!Halted

LEMMA HaltedSame ==
  \A x : Halted(x) <=> OP!Halted(x)
  BY DEF Halted, OP!Halted

LEMMA CellSame ==
  \A t, a : CellOf(t, a) = GP!CellOf(t, a)
  BY DEF CellOf, GP!CellOf

-----------------------------------------------------------------------------
\* The assumptions of the three components, as the pipeline instantiates them.
LEMMA LexAssumed ==
  LP!FilesAssumption /\ LP!OptionsAssumption /\ LP!InitialCapAssumption
  /\ LP!MaxWarningsAssumption /\ LP!MayFailAssumption
<1>1. Flags \in LP!OptionRecord
  BY StackSizeAssumption DEF Flags, LP!OptionRecord
<1> QED
  BY <1>1, SourcesAssumption, InitialCapAssumption
     DEF LP!FilesAssumption, LP!OptionsAssumption, LP!InitialCapAssumption,
         LP!MaxWarningsAssumption, LP!MayFailAssumption

LEMMA OptAssumed == OP!ProgramsAssumption /\ OP!LevelsAssumption /\ OP!SlackAssumption
<1>1. OP!Token = Token
  BY TokensSame
<1> QED
  BY <1>1, BalancedSame, OptLevelsAssumption
     DEF Handable, OP!ProgramsAssumption, OP!LevelsAssumption, OP!SlackAssumption

LEMMA RunAssumed ==
  /\ GP!CodesAssumption /\ GP!InputsAssumption /\ GP!SizesAssumption /\ GP!CellModAssumption
  /\ GP!WordSizeAssumption /\ GP!BasesAssumption /\ GP!MaxSizeAssumption
  /\ GP!MaxOutputAssumption /\ GP!ExecSizeAssumption /\ GP!MapMayFailAssumption
<1>1. GP!Token = Token
  BY TokensSame
<1> QED
  BY <1>1, InputsAssumption, CellModAssumption, BoundsAssumption
     DEF GP!CodesAssumption, GP!InputsAssumption, GP!SizesAssumption, GP!CellModAssumption,
         GP!WordSizeAssumption, GP!BasesAssumption, GP!MaxSizeAssumption,
         GP!MaxOutputAssumption, GP!ExecSizeAssumption, GP!MapMayFailAssumption

-----------------------------------------------------------------------------
(* The front end.                                                          *)

\* The lexer's invariants, and a tape no smaller than was asked for.
LexInv == /\ LP!Keeping /\ LP!Checked /\ LP!ReadInv
          /\ opts = Flags /\ stsize \in Nat /\ stsize >= StackSize

\* It begins with them.
LEMMA LexStarts == L!Init => LexInv
<1> SUFFICES ASSUME L!Init PROVE LexInv
  OBVIOUS
<1>1. LP!Init
  BY LexInit
<1>2. LP!Keeping /\ LP!Checked /\ LP!ReadInv
  BY <1>1, LexAssumed, LP!InitKeeping, LP!InitChecked, LP!InitReadInv
<1>3. opts = Flags /\ stsize = opts.stacksize
  BY DEF L!Init
<1>4. Flags.stacksize = StackSize
  BY DEF Flags
<1> QED
  BY <1>2, <1>3, <1>4, StackSizeAssumption DEF LexInv

\* It keeps them, and so do the later stages, which leave it alone.
LEMMA LexKeeps == LexInv /\ (LP!Next \/ UNCHANGED lexVars) => LexInv'
<1> SUFFICES ASSUME LexInv, LP!Next \/ UNCHANGED lexVars PROVE LexInv'
  OBVIOUS
<1>1. LP!Next \/ UNCHANGED LP!vars
  BY DEF lexVars, LP!vars
<1>2. LP!Keeping' /\ LP!Checked' /\ LP!ReadInv'
  BY <1>1, LexAssumed, LP!StepKeeping, LP!StepChecked, LP!StepReadInv DEF LexInv
<1>3. LP!Keeping' => stsize' \in Nat
  BY DEF LP!Keeping, LP!Folded, LP!IInv, LP!TypeOK
<1>s. LP!Keeping => st \in Nat
  BY DEF LP!Keeping, LP!Folded, LP!IInv, LP!TypeOK
<1>4. opts' = opts /\ (stsize' = stsize \/ stsize' = IF st > stsize THEN st ELSE stsize)
  BY <1>1 DEF LP!vars, LP!Next, LP!ReadChar, LP!EndOfFile, LP!NoVector, LP!Overrun, LP!ReadFails,
     LP!Scan, LP!PushUnsized, LP!EndScan,
     LP!RejectClose, LP!RejectLoop, LP!Inspect, LP!RejectOpen, LP!Accept, LP!Stop, LP!Reject,
     LP!endVars
<1>5. stsize' >= StackSize
  BY <1>4, <1>s, StackSizeAssumption DEF LexInv
<1> QED
  BY <1>2, <1>3, <1>4, <1>5 DEF LexInv

\* What is handed to the optimizer.
LEMMA LexHands ==
  ASSUME LexInv, lexpc = "accepted"
  PROVE  /\ L!out \in Handable /\ Len(L!out) = lsize /\ OP!Core(L!out)
         /\ OP!Yields(src, OP!Spelled(L!out)) /\ src \in Seq(LP!CoreOps)
<1>1. LP!HandedOn
  BY LexAssumed, LP!AcceptedHandsOn DEF LexInv
<1>2. LP!Unextended
  BY DEF LexInv, Flags, LP!Unextended
<1>3. ~dropped
  BY DEF LexInv, LP!Keeping
<1>4. /\ src \in Seq(LP!CoreOps) /\ LP!out \in Seq(LP!Token) /\ Len(LP!out) = lsize
      /\ LP!Core(LP!out) /\ LP!Yields(src, LP!Spelled(LP!out)) /\ LP!TokBalanced(LP!out)
      /\ LP!Solid(LP!out)
  BY <1>1, <1>2, <1>3 DEF LP!HandedOn
<1>5. L!out \in Handable
  BY <1>4, LexOut, TokensSame, BalancedSame DEF Handable, LP!Solid
<1>6. OP!Spelled(LP!out) = LP!Spelled(LP!out)
  BY SpelledSame
<1> QED
  BY <1>4, <1>5, <1>6, LexOut, CoreSame, YieldsSame

-----------------------------------------------------------------------------
(* The optimizer.                                                          *)

\* The optimizer's invariants, from the source text on.
OptInv == /\ OP!BInv /\ OP!RInv
          /\ OP!Core(input) /\ OP!Yields(src, OP!Spelled(input))

\* It begins with them where the lexer has ended.
LEMMA OptBegins == OP!Init => OP!BInv /\ OP!RInv
  BY OptAssumed, OP!InitBInv, OP!InitRInv
LEMMA OptBeginsNext == (OP!Init)' => (OP!BInv /\ OP!RInv)'
  BY OptBegins, PTL

LEMMA OptStarts ==
  ASSUME LexInv, optl \in OptLevels, StartOptimizer
  PROVE  OptInv'
<1>1. /\ L!out \in Handable /\ Len(L!out) = lsize /\ OP!Core(L!out)
      /\ OP!Yields(src, OP!Spelled(L!out))
  BY LexHands DEF StartOptimizer
<1>2. input' = L!out /\ src' = src /\ slots' = L!out \o <<Garbage>> /\ osize' = lsize
      /\ level' = optl /\ pass' = 0 /\ opti' = 0 /\ stray' = FALSE /\ optpc' = "optimize"
  BY DEF StartOptimizer, lexVars
<1>3. <<Garbage>> = [k \in 1 .. 1 |-> OP!Garbage]
  BY DEF Garbage, OP!Garbage, Tok, OP!Tok, Uninit, OP!Uninit
<1>4. (OP!Init)'
  BY <1>1, <1>2, <1>3 DEF OP!Init
<1>5. (OP!BInv /\ OP!RInv)'
  BY <1>4, OptBeginsNext
<1> HIDE DEF Handable
<1>6. (OP!Core(input))' /\ (OP!Yields(src, OP!Spelled(input)))'
  BY <1>1, <1>2
<1> QED
  BY <1>5, <1>6 DEF OptInv

\* It keeps them.
LEMMA OptKeeps ==
  ASSUME OptInv, OP!Next \/ UNCHANGED optVars, src' = src
  PROVE  OptInv'
<1>1. OP!Next \/ UNCHANGED OP!vars
  BY DEF optVars, OP!vars
<1>2. OP!BInv' /\ OP!RInv'
  BY <1>1, OptAssumed, OP!StepBInv, OP!StepRInv DEF OptInv
<1>3. input' = input
  BY <1>1 DEF OP!vars, OP!Next, OP!SkipDead, OP!VisitLoop, OP!VisitZero, OP!VisitOther,
     OP!EndPass, OP!Finish, OP!Stop, OP!Compacted
<1>4. (OP!Core(input))' /\ (OP!Yields(src, OP!Spelled(input)))'
  BY <1>3 DEF OptInv
<1> QED
  BY <1>2, <1>4 DEF OptInv

-----------------------------------------------------------------------------
(* The program.                                                            *)

\* What main passes on to emit or emit_heap.
Built == [heap |-> mode = "heap", wrap |-> TRUE, turbo |-> FALSE, x |-> FALSE]

\* Whatever the interpreter makes of the program's own text, the program does.
Mirrors == \A f : GP!Ends(Machine, GP!Begin(GP!Spelled(code), GP!Blank(given)), f)
                    => GP!Carried(f)

\* The program as it is first run.
Launched == GP!Init /\ stdin = given /\ target = Built /\ mode \in Modes

\* The program was printed for what the optimizer left, and is what it was.
RunInv == /\ code = GP!Emit(OP!out) /\ target = Built
          /\ GP!StrayInv /\ Mirrors

\* The machine of the program's theorems is that of the source.
LEMMA ReaderIsMachine ==
  target = Built /\ mode \in Modes
    => GP!Reader = Machine /\ GP!Mode = mode /\ mode \in {"wrap", "heap"}
<1> SUFFICES ASSUME target = Built, mode \in Modes
             PROVE  GP!Reader = Machine /\ GP!Mode = mode /\ mode \in {"wrap", "heap"}
  OBVIOUS
<1>1. mode \in {"wrap", "heap"}
  BY ModesAssumption
<1>2. target.heap = (mode = "heap") /\ target.wrap = TRUE /\ target.turbo = FALSE
  BY DEF Built
<1>3. GP!Mode = mode
  BY <1>1, <1>2 DEF GP!Mode
<1> QED
  BY <1>1, <1>3 DEF GP!Reader, Machine

\* The program begins with its invariants.
LEMMA Launches == Launched => GP!StrayInv /\ Mirrors
<1> SUFFICES ASSUME Launched PROVE GP!StrayInv /\ Mirrors
  OBVIOUS
<1>1. GP!StrayInv
  BY RunAssumed, GP!InitStrayInv DEF Launched
<1>2. GP!Reader = Machine /\ stdin = given /\ GP!Init
  BY ReaderIsMachine DEF Launched
<1>3. ASSUME NEW f, GP!Ends(Machine, GP!Begin(GP!Spelled(code), GP!Blank(given)), f)
      PROVE  GP!Carried(f)
  <2>1. GP!Ends(GP!Reader, GP!Begin(GP!Spelled(code), GP!Blank(stdin)), f)
    BY <1>2, <1>3
  <2> QED
    BY <2>1, <1>2, RunAssumed, GP!InitCarried
<1> QED
  BY <1>1, <1>3 DEF Mirrors
LEMMA LaunchesNext == Launched' => GP!StrayInv' /\ Mirrors'
  BY Launches, PTL

\* What the optimizer leaves for a program of the core language is printed as
\* statements without pointers.
LEMMA NoPointersPrinted ==
  ASSUME OptInv
  PROVE  /\ OP!out \in Seq(Token) /\ GP!Emit(OP!out) \in Seq(Token)
         /\ \A k \in DOMAIN GP!Emit(OP!out) : GP!Emit(OP!out)[k].op \notin {";", "&", "="}
<1> DEFINE ts == OP!out
           es == GP!Emit(ts)
<1>1. OP!BInv /\ OP!Core(input)
  BY DEF OptInv
<1>2. OP!IInv /\ OP!Coded(slots, osize)
  BY <1>1 DEF OP!BInv
<1>3. ts \in Seq(Token) /\ Len(ts) = osize /\ \A k \in 1 .. osize : ts[k] = slots[k]
  <2>1. slots \in Seq(Token) /\ osize \in 0 .. Len(slots)
    BY <1>2, TokensSame DEF OP!IInv, OP!TypeOK
  <2> QED
    BY <2>1 DEF OP!out
<1> HIDE DEF ts
<1>4. GP!EmittedFrom(ts)
  BY <1>3, TokensSame, RunAssumed, GP!EmitFrom
<1>5. /\ es \in Seq(Token)
      /\ \A k \in 1 .. Len(es) : \E j \in 1 .. Len(ts) : es[k].op = ts[j].op
  BY <1>4, TokensSame DEF GP!EmittedFrom
<1>6. \A j \in 1 .. osize : ts[j].op \notin {";", "&", "="}
  BY <1>2, <1>3 DEF OP!Coded, OP!Written, OP!CoreOps, OP!RewriteOps, OP!NoOp
<1>7. DOMAIN es = 1 .. Len(es)
  BY <1>5
<1> HIDE DEF es
<1>8. \A k \in DOMAIN es : es[k].op \notin {";", "&", "="}
  BY <1>3, <1>5, <1>6, <1>7
<1> QED
  BY <1>3, <1>5, <1>8 DEF es, ts

\* So what is printed is a program of the kind the theorems are about.
LEMMA RunStarts ==
  ASSUME LexInv, OptInv, mode \in Modes, given \in Inputs,
         base = 0, stdin = given, stdout = <<>>, StartProgram
  PROVE  RunInv'
<1>1. /\ code' = G!Emit(O!out) /\ target' = Built /\ asked' = stsize /\ size' = stsize
      /\ tape' = [a \in 0 .. stsize - 1 |-> 0] /\ ptr' = 0 /\ ip' = 1 /\ owned' = {}
      /\ status' = "cc" /\ base' = 0 /\ stdin' = given /\ stdout' = <<>>
      /\ mode' = mode /\ given' = given /\ slots' = slots /\ osize' = osize
  BY DEF StartProgram, optVars, Built
<1>2. code' = GP!Emit(OP!out) /\ (OP!out)' = OP!out
  BY <1>1, RunEmit, OptOut DEF OP!out
<1>3. GP!Emit(OP!out) \in Seq(Token)
      /\ \A k \in DOMAIN GP!Emit(OP!out) : GP!Emit(OP!out)[k].op \notin {";", "&", "="}
  BY NoPointersPrinted
<1>4. stsize \in Nat \ {0}
  BY StackSizeAssumption DEF LexInv
<1>5. Built \in [heap : BOOLEAN, wrap : BOOLEAN, turbo : BOOLEAN, x : BOOLEAN] /\ Built' = Built
      /\ Built.x = FALSE
  BY <1>1 DEF Built
<1>6. GP!NoPointers'
  BY <1>2, <1>3 DEF GP!NoPointers
<1>7. (GP!Init)'
  BY <1>1, <1>2, <1>3, <1>4, <1>5, <1>6 DEF GP!Init
<1>8. Launched'
  BY <1>1, <1>5, <1>7 DEF Launched
<1>9. GP!StrayInv' /\ Mirrors'
  BY <1>8, LaunchesNext
<1>10. code' = (GP!Emit(OP!out))'
  BY <1>2
<1> QED
  BY <1>1, <1>5, <1>9, <1>10 DEF RunInv

\* The program is what was printed, and keeps its invariants, as it runs.
LEMMA RunKeeps ==
  ASSUME RunInv, GP!Next \/ UNCHANGED runVars, mode' = mode, given' = given,
         UNCHANGED optVars
  PROVE  RunInv'
<1>1. GP!Next \/ UNCHANGED GP!vars
  BY DEF runVars, GP!vars
<1>2. GP!StrayInv'
  BY <1>1, RunAssumed, GP!StepNeverStray DEF RunInv
<1>3. UNCHANGED GP!fixed
  BY <1>1, RunAssumed, GP!FixedStays
<1>4. code' = code /\ target' = target /\ asked' = asked
  BY <1>3 DEF GP!fixed
<1>5. Machine' = Machine /\ Built' = Built
  BY <1>4 DEF Machine, Built
<1>6. (OP!out)' = OP!out
  BY DEF OP!out, optVars
<1>7. Mirrors'
  <2> SUFFICES ASSUME NEW f, GP!Ends(Machine', GP!Begin(GP!Spelled(code'), GP!Blank(given')), f)
               PROVE  GP!Carried(f)'
    BY DEF Mirrors
  <2>1. GP!Ends(Machine, GP!Begin(GP!Spelled(code), GP!Blank(given)), f)
    BY <1>4, <1>5
  <2>2. GP!Carried(f)
    BY <2>1 DEF RunInv, Mirrors
  <2> QED
    BY <2>2, <1>1, RunAssumed, GP!StepCarried
<1> QED
  BY <1>2, <1>4, <1>5, <1>6, <1>7 DEF RunInv

-----------------------------------------------------------------------------
(* The whole.                                                              *)

\* Each stage has its invariants from the moment it is begun, and keeps them
\* while the later ones run.
PInv == /\ mode \in Modes /\ optl \in OptLevels /\ given \in Inputs
        /\ stage \in {"lex", "optimize", "run"}
        /\ LexInv
        /\ stage # "lex" => OptInv
        /\ stage # "run" => base = 0 /\ stdin = given /\ stdout = <<>>
        /\ stage = "run" => RunInv

LEMMA InitPInv == Init => PInv
<1> SUFFICES ASSUME Init PROVE PInv
  OBVIOUS
<1>1. LexInv
  BY LexStarts DEF Init
<1> QED
  BY <1>1 DEF Init, PInv

LEMMA StepPInv == PInv /\ [Next]_vars => PInv'
<1> SUFFICES ASSUME PInv, [Next]_vars PROVE PInv'
  OBVIOUS
<1> USE DEF PInv
<1>1. CASE Lex
  <2>1. LexInv' /\ stage' = "lex"
    BY <1>1, LexNext, LexKeeps DEF Lex, main
  <2> QED
    BY <1>1, <2>1 DEF Lex, main, runVars
<1>2. CASE StartOptimizer
  <2>1. UNCHANGED lexVars /\ UNCHANGED runVars /\ stage' = "optimize"
        /\ mode' = mode /\ optl' = optl /\ given' = given
    BY <1>2 DEF StartOptimizer
  <2>2. LexInv' /\ OptInv'
    BY <1>2, <2>1, LexKeeps, OptStarts
  <2>3. stage = "lex"
    BY <1>2 DEF StartOptimizer
  <2> QED
    BY <2>1, <2>2, <2>3 DEF runVars
<1>3. CASE Optimize
  <2>1. UNCHANGED lexVars /\ UNCHANGED runVars /\ UNCHANGED main /\ O!Next /\ stage = "optimize"
    BY <1>3 DEF Optimize
  <2>2. src' = src
    BY <2>1 DEF lexVars
  <2>3. LexInv' /\ OptInv'
    BY <2>1, <2>2, LexKeeps, OptKeeps, OptNext
  <2> QED
    BY <2>1, <2>3 DEF main, runVars
<1>4. CASE StartProgram
  <2>1. UNCHANGED lexVars /\ UNCHANGED optVars /\ stage' = "run" /\ stage = "optimize"
        /\ mode' = mode /\ optl' = optl /\ given' = given
    BY <1>4 DEF StartProgram
  <2>2. src' = src
    BY <2>1 DEF lexVars
  <2>3. LexInv' /\ OptInv' /\ RunInv'
    BY <1>4, <2>1, <2>2, LexKeeps, OptKeeps, RunStarts
  <2> QED
    BY <2>1, <2>3
<1>5. CASE Run \/ UNCHANGED vars
  <2>1. UNCHANGED lexVars /\ UNCHANGED optVars /\ UNCHANGED main /\ (G!Next \/ UNCHANGED runVars)
        /\ (stage # "run" => UNCHANGED runVars)
    BY <1>5 DEF Run, vars
  <2>2. src' = src /\ mode' = mode /\ given' = given /\ stage' = stage /\ optl' = optl
    BY <2>1 DEF lexVars, main
  <2>3. LexInv' /\ (stage # "lex" => OptInv')
    BY <2>1, <2>2, LexKeeps, OptKeeps
  <2>4. stage = "run" => RunInv'
    BY <2>1, <2>2, RunKeeps, RunNext
  <2> QED
    BY <2>1, <2>2, <2>3, <2>4 DEF runVars
<1> QED
  BY <1>1, <1>2, <1>3, <1>4, <1>5 DEF Next, Stop

\* What the optimizer has written is of the eight, or one of its own.
LEMMA OutFacts ==
  ASSUME OptInv
  PROVE  /\ OP!out \in Seq(GP!Token) /\ OP!out \in Seq(Token) /\ Len(OP!out) = osize
         /\ \A k \in 1 .. osize : OP!out[k] = slots[k]
         /\ \A k \in 1 .. osize : slots[k].op \in OP!CoreOps \union OP!RewriteOps
<1>1. OP!BInv /\ OP!Core(input)
  BY DEF OptInv
<1>2. OP!IInv /\ OP!Coded(slots, osize) /\ \A k \in 1 .. osize : slots[k].op # OP!NoOp
  BY <1>1 DEF OP!BInv
<1>3. slots \in Seq(Token) /\ osize \in 0 .. Len(slots)
  BY <1>2, TokensSame DEF OP!IInv, OP!TypeOK
<1>4. OP!out \in Seq(Token) /\ Len(OP!out) = osize /\ \A k \in 1 .. osize : OP!out[k] = slots[k]
  BY <1>3 DEF OP!out
<1>5. OP!out \in Seq(GP!Token)
  BY <1>4, TokensSame
<1>6. \A k \in 1 .. osize : slots[k].op \in OP!CoreOps \union OP!RewriteOps
  BY <1>2 DEF OP!Coded, OP!Written
<1> QED
  BY <1>4, <1>5, <1>6

\* The tokens have a meaning in the source language if the statements that no
\* other token is printed as, copies and moves, do.
LEMMA SaysAll ==
  ASSUME OptInv, code = GP!Emit(OP!out),
         \A k \in DOMAIN code : code[k].op # "C" /\ (code[k].op = "M" => code[k].len = 1)
  PROVE  /\ \A k \in 1 .. osize : /\ GP!Sayable(OP!out[k])
                                  /\ slots[k].op # "C" /\ (slots[k].op = "M" => slots[k].len = 1)
                                  /\ slots[k].op = "M" => \E j \in DOMAIN code : code[j].op = "M"
         /\ code \in Seq(GP!Token) /\ GP!Spelled(code) = GP!Spelled(OP!out)
         /\ \A k \in DOMAIN code : GP!Statement(code[k])
<1>1. /\ OP!out \in Seq(GP!Token) /\ Len(OP!out) = osize
      /\ \A k \in 1 .. osize : OP!out[k] = slots[k]
      /\ \A k \in 1 .. osize : slots[k].op \in OP!CoreOps \union OP!RewriteOps
  BY OutFacts
<1>2. GP!EmittedFrom(OP!out)
  BY <1>1, RunAssumed, GP!EmitFrom
<1>3. code \in Seq(GP!Token)
      /\ \A j \in 1 .. osize : slots[j].op \in {"M", "C"} =>
           \E k \in 1 .. Len(code) : code[k] = slots[j]
  BY <1>1, <1>2 DEF GP!EmittedFrom
<1>4. DOMAIN code = 1 .. Len(code)
  BY <1>3
<1>5. ASSUME NEW k \in 1 .. osize
      PROVE  /\ slots[k].op # "C" /\ (slots[k].op = "M" => slots[k].len = 1)
             /\ slots[k].op = "M" => \E j \in DOMAIN code : code[j].op = "M"
  BY <1>3, <1>4
<1>6. \A k \in 1 .. osize : GP!Sayable(OP!out[k])
  <2> SUFFICES ASSUME NEW k \in 1 .. osize PROVE GP!Sayable(OP!out[k])
    OBVIOUS
  <2>1. /\ OP!out[k] = slots[k] /\ slots[k].op \in OP!CoreOps \union OP!RewriteOps
        /\ slots[k].op # "C" /\ (slots[k].op = "M" => slots[k].len = 1)
    BY <1>1, <1>5
  <2>2. GP!CoreOps = OP!CoreOps /\ OP!RewriteOps = {"Z", "A", "S", "M", "C"}
    BY DEF OP!CoreOps, GP!CoreOps, OP!RewriteOps
  <2> QED
    BY ONLY <2>1, <2>2 DEF GP!Sayable
<1>7. /\ GP!Spelled(GP!Emit(OP!out)) = GP!Spelled(OP!out)
      /\ \A k \in 1 .. Len(GP!Emit(OP!out)) : GP!Statement(GP!Emit(OP!out)[k])
  BY <1>1, <1>6, RunAssumed, GP!PrintingKeepsText
<1> QED
  BY <1>3, <1>4, <1>5, <1>6, <1>7

LEMMA MachineType ==
  ASSUME given \in Inputs, asked \in Nat \ {0}, mode \in Modes
  PROVE  Machine \in OP!Machines /\ given \in Seq(OP!CellValues(Machine))
<1>1. Machine \in OP!Machines /\ Machine.values = CellMod
  BY CellModAssumption DEF Machine, OP!Machines
<1>2. given \in Seq(OP!CellValues(Machine))
  BY <1>1, InputsAssumption DEF OP!CellValues
<1> QED
  BY <1>1, <1>2

\* The interpreter of the source text, stopped where it has halted.
LEMMA ReferenceEnds ==
  ASSUME OptInv, given \in Inputs, asked \in Nat \ {0}, mode \in Modes, Halted(Reference)
  PROVE  OP!Ends(Machine, OP!Begin(src, OP!Blank(given)), Reference.data)
<1>1. Machine \in OP!Machines
  BY MachineType
<1>2. given \in Seq(OP!CellValues(Machine))
  BY MachineType
<1>3. src \in OP!Streams
  BY DEF OptInv, OP!Yields
<1> DEFINE x == OP!Begin(src, OP!Blank(given))
<1>4. x \in OP!Confs(Machine)
  <2>1. OP!Blank(given) \in OP!Datas(Machine)
    BY <1>1, <1>2, OptAssumed, OP!BlankType
  <2>2. <<>> \in Seq(OP!Streams) /\ 0 \in Nat
    OBVIOUS
  <2> QED
    BY <1>3, <2>1, <2>2 DEF OP!Begin, OP!Conf, OP!Confs
<1>5. Reference = OP!Interpret(Machine, x, Fuel)
  <2>1. Begin(src, Blank(given)) = x
    BY BeginSame
  <2> HIDE DEF x
  <2> QED
    BY <2>1, InterpretSame DEF Reference
<1>6. OP!Halted(Reference)
  BY HaltedSame
<1> HIDE DEF x
<1>7. OP!Ends(Machine, x, Reference.data)
  BY <1>1, <1>4, <1>5, <1>6, FuelAssumption, OptAssumed, OP!InterpretEnds
<1> QED
  BY <1>7 DEF x

\* A program whose tokens do as its source and have a meaning shows, when it
\* has ended, what its source ends with.
LEMMA ShowsEnds ==
  ASSUME PInv, stage = "run", G!RunsFit, status = "done",
         \A k \in DOMAIN code : code[k].op # "C" /\ (code[k].op = "M" => code[k].len = 1),
         OP!DoesAs(OP!Spelled(input), OP!Spelled(OP!out)),
         NEW f, OP!Ends(Machine, OP!Begin(src, OP!Blank(given)), f)
  PROVE  GP!Shown(f)
<1>1. OptInv /\ RunInv /\ given \in Inputs /\ mode \in Modes
  BY DEF PInv
<1>2. GP!StrayInv /\ target = Built /\ code = GP!Emit(OP!out) /\ Mirrors
  BY <1>1 DEF RunInv
<1>3. asked \in Nat \ {0}
  BY <1>2 DEF GP!StrayInv, GP!Bounded, GP!TypeOK
<1>4. Machine \in OP!Machines /\ given \in Seq(OP!CellValues(Machine))
  BY <1>1, <1>3, MachineType
<1>5. OP!DoesAs(src, OP!Spelled(OP!out))
  <2>1. OP!DoesAs(src, OP!Spelled(input))
    BY <1>1, OptAssumed, OP!YieldsDoes DEF OptInv
  <2> QED
    BY <2>1, OptAssumed, OP!DoesTrans
<1>6. OP!Ends(Machine, OP!Begin(OP!Spelled(OP!out), OP!Blank(given)), f)
  BY <1>4, <1>5 DEF OP!DoesAs
<1>7. /\ code \in Seq(GP!Token) /\ GP!Spelled(code) = GP!Spelled(OP!out)
      /\ \A k \in DOMAIN code : GP!Statement(code[k])
  BY <1>1, <1>2, SaysAll
<1>8. GP!Ends(Machine, GP!Begin(GP!Spelled(code), GP!Blank(given)), f)
  <2>1. OP!Spelled(OP!out) = GP!Spelled(code)
    BY <1>7, SpelledSame
  <2>2. OP!Begin(OP!Spelled(OP!out), OP!Blank(given)) = GP!Begin(GP!Spelled(code), GP!Blank(given))
    BY <2>1, BeginSame
  <2> QED
    BY <1>6, <2>2, EndsSame
<1>9. GP!Carried(f)
  BY <1>2, <1>8 DEF Mirrors
<1>10. GP!Faithful
  <2>1. GP!Mode = mode /\ mode \in {"wrap", "heap"}
    BY <1>1, <1>2, ReaderIsMachine
  <2>2. GP!RunsFit
    BY RunFits
  <2>3. GP!Spoken
    BY <1>7 DEF GP!Spoken, GP!Statement
  <2> QED
    BY <2>1, <2>2, <2>3 DEF GP!Faithful
<1> QED
  BY <1>9, <1>10, RunAssumed, GP!CarriedShows

\* So it agrees with its source where that has halted.
LEMMA ShowsReference ==
  ASSUME PInv, stage = "run", G!RunsFit, status = "done",
         \A k \in DOMAIN code : code[k].op # "C" /\ (code[k].op = "M" => code[k].len = 1),
         OP!DoesAs(OP!Spelled(input), OP!Spelled(OP!out)), Halted(Reference)
  PROVE  Agrees(Reference)
<1> DEFINE f == Reference.data
<1>1. OptInv /\ RunInv /\ given \in Inputs /\ mode \in Modes
  BY DEF PInv
<1>2. asked \in Nat \ {0}
  BY <1>1 DEF RunInv, GP!StrayInv, GP!Bounded, GP!TypeOK
<1>3. OP!Ends(Machine, OP!Begin(src, OP!Blank(given)), f)
  BY <1>1, <1>2, ReferenceEnds
<1> HIDE DEF f
<1>4. GP!Shown(f)
  BY <1>3, ShowsEnds
<1>5. stdout = f.out /\ \A a \in 0 .. size - 1 : tape[a] = CellOf(f.tape, a)
  BY <1>4, CellSame DEF GP!Shown, GP!Tape
<1> QED
  BY <1>5 DEF Agrees, f

\* A program without moves or copies of cells does not go astray, and its
\* tokens do as its source.
LEMMA ExactDoes ==
  ASSUME PInv, stage = "run", Exact
  PROVE  status # "stray" /\ OP!DoesAs(OP!Spelled(input), OP!Spelled(OP!out))
<1>1. OptInv /\ RunInv /\ mode \in Modes
  BY DEF PInv
<1>2. GP!StrayInv /\ target = Built /\ code = GP!Emit(OP!out)
  BY <1>1 DEF RunInv
<1>3. \A k \in DOMAIN code : code[k].op \notin {"M", "C"}
  BY DEF Exact
<1>4. /\ \A k \in 1 .. osize : slots[k].op \notin {"M", "C"}
      /\ \A k \in DOMAIN code : GP!Statement(code[k])
  BY <1>1, <1>2, <1>3, SaysAll
<1>5. status # "stray"
  <2>1. GP!Mode = mode /\ mode \in {"wrap", "heap"}
    BY <1>1, <1>2, ReaderIsMachine
  <2>2. GP!RunsFit
    BY RunFits DEF Exact
  <2>3. GP!OnlyCore
    BY <1>3, <1>4 DEF GP!OnlyCore, GP!Statement
  <2> QED
    BY <1>2, <2>1, <2>2, <2>3 DEF GP!StrayInv, GP!NeverStray
<1>6. OP!Pure(slots, osize)
  BY <1>4 DEF OP!Pure
<1>7. OP!DoesAs(OP!Spelled(input), OP!Spelled(OP!out))
  BY <1>1, <1>6 DEF OptInv, OP!BInv
<1> QED
  BY <1>5, <1>7

\* Moves by one cell do as their loops if the lexer left nothing cancelled.
LEMMA HandedDoes ==
  ASSUME PInv, stage = "run",
         \A k \in DOMAIN code : code[k].op # "C" /\ (code[k].op = "M" => code[k].len = 1),
         \A k \in DOMAIN input : ~O!Dead(input[k]), O!SingleDecrements
  PROVE  OP!DoesAs(OP!Spelled(input), OP!Spelled(OP!out))
<1>1. OptInv /\ RunInv
  BY DEF PInv
<1>2. code = GP!Emit(OP!out)
  BY <1>1 DEF RunInv
<1>3. \A k \in 1 .. osize : slots[k].op # "C" /\ (slots[k].op = "M" => slots[k].len = 1)
  BY <1>1, <1>2, SaysAll
<1>4. OP!Plain(slots, osize)
  BY <1>3 DEF OP!Plain
<1>5. OP!Handed(input)
  <2>1. OP!IInv
    BY <1>1 DEF OptInv, OP!RInv
  <2>2. DOMAIN input = 1 .. Len(input)
    BY <2>1 DEF OP!IInv, OP!TypeOK
  <2> QED
    BY <2>2, OptHanded DEF OP!Handed, OP!Alive
<1>6. OP!Yields(OP!Spelled(input), OP!Spelled(OP!out))
  BY <1>1, <1>4, <1>5 DEF OptInv, OP!RInv
<1> QED
  BY <1>6, OptAssumed, OP!YieldsDoes

LEMMA PInvSame == PInv => SameBehaviour
<1> SUFFICES ASSUME PInv PROVE SameBehaviour
  OBVIOUS
<1>1. ASSUME stage = "run", Exact, status \in {"done", "stray"}, Halted(Reference)
      PROVE  status = "done" /\ Agrees(Reference)
  <2>1. status = "done" /\ OP!DoesAs(OP!Spelled(input), OP!Spelled(OP!out))
    BY <1>1, ExactDoes
  <2>2. G!RunsFit
        /\ \A k \in DOMAIN code : code[k].op # "C" /\ (code[k].op = "M" => code[k].len = 1)
    BY <1>1 DEF Exact
  <2> QED
    BY <1>1, <2>1, <2>2, ShowsReference
<1>2. ASSUME stage = "run", G!RunsFit, status = "done",
             \A k \in DOMAIN code : code[k].op # "C" /\ (code[k].op = "M" => code[k].len = 1),
             \A k \in DOMAIN input : ~O!Dead(input[k]), O!SingleDecrements, Halted(Reference)
      PROVE  Agrees(Reference)
  BY <1>2, HandedDoes, ShowsReference
<1> QED
  BY <1>1, <1>2 DEF SameBehaviour

\* For every source text, input, tape size, cell width and growth of the
\* vector, and any number of optimizer passes: where no cell is copied or
\* moved, a compiled program never goes astray, and if it ends and its source
\* does, it has printed the same bytes and left the same cells; with moves by
\* one cell too where lex left no cancelled move and loops count down by one
\* (lexer.c:15-187, optm.c:10-139 and emmiters.c:14-370 together).
THEOREM CompilerKeepsBehaviour == Spec => []SameBehaviour
  BY InitPInv, StepPInv, PInvSame, PTL DEF Spec

\* However many steps the source takes.
EndsAlike ==
  stage = "run" /\ Exact /\ status = "done" =>
    \A f : OP!Ends(Machine, OP!Begin(src, OP!Blank(given)), f) => GP!Shown(f)

LEMMA PInvAlike == PInv => EndsAlike
<1> SUFFICES ASSUME PInv, stage = "run", Exact, status = "done",
                    NEW f, OP!Ends(Machine, OP!Begin(src, OP!Blank(given)), f)
             PROVE  GP!Shown(f)
  BY DEF EndsAlike
<1>1. OP!DoesAs(OP!Spelled(input), OP!Spelled(OP!out))
  BY ExactDoes
<1>2. G!RunsFit
      /\ \A k \in DOMAIN code : code[k].op # "C" /\ (code[k].op = "M" => code[k].len = 1)
  BY DEF Exact
<1> QED
  BY <1>1, <1>2, ShowsEnds

\* Without a bound on the interpreter: whatever execution of the source text
\* ends, however long it is, a compiled program without moves and copies that
\* ends has left its pointer and the rest of its input as well (lexer.c:15-187,
\* optm.c:10-139 and emmiters.c:14-370 together).
THEOREM CompilerKeepsEnds == Spec => []EndsAlike
  BY InitPInv, StepPInv, PInvAlike, PTL DEF Spec
=============================================================================
