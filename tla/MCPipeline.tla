----------------------------- MODULE MCPipeline -----------------------------
(***************************************************************************)
(* Source texts for model checking Pipeline.                               *)
(***************************************************************************)
EXTENDS Pipeline

CONSTANTS MaxText, MaxFragments

Texts == {s \in BoundedSeq({"+", "-", ">", "<", "[", "]"}, MaxText) : Balanced(s)}
IOTexts == {s \in BoundedSeq(CoreOps, MaxText - 1) : Balanced(s)}

Assembled(fs) == {s \in {FlattenSeq(f) : f \in BoundedSeq(fs, MaxFragments)} : Balanced(s)}
MoveLoopText == <<"[", "-", ">", "+", "<", "]">>
StepTwoLoopText == <<"[", "-", "-", ">", "+", "<", "]">>
CopyLoopText == <<"[", "-", ">", "+", ">", "+", "<", "<", "]">>
ZeroThenText == <<"[", "[", "-", "]", "-", ">", "]">>
MoveTexts == Assembled({<<"+">>, <<">", "+", "+", "<">>, <<"<">>, <<"[", "-", "]">>, MoveLoopText,
                        StepTwoLoopText, ZeroThenText, <<"[">>, <<"]">>})
AllTexts == Texts \union IOTexts \union MoveTexts
CopyTexts == Assembled({<<"+">>, <<">", "+">>, <<"<">>, CopyLoopText})

Words == {<<>>, <<1>>}
NoInput == {<<>>}
=============================================================================
