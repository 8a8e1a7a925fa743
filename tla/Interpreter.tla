---------------------------- MODULE Interpreter -----------------------------
(***************************************************************************)
(* The reference the compiled program is compared with: Brainfuck read one *)
(* character at a time. A character that is none of the eight is a         *)
(* comment. A machine is a record: with wrap the tape is a ring of size    *)
(* cells; without, it has no right end, and nothing is left of its start.  *)
(* Cells hold 0 .. values - 1.                                             *)
(***************************************************************************)
EXTENDS Tokens

\* The cells that are not zero, as a function from their addresses.
CellOf(t, a) == IF a \in DOMAIN t THEN t[a] ELSE 0
SetCell(t, a, v) ==
  [b \in {c \in DOMAIN t \union {a} : (IF c = a THEN v ELSE t[c]) # 0} |->
     IF b = a THEN v ELSE t[b]]

Blank(in) == [head |-> 0, tape |-> <<>>, in |-> in, out |-> <<>>]
Here(d) == CellOf(d.tape, d.head)
WithCell(e, d, v) == [d EXCEPT !.tape = SetCell(@, d.head, v % e.values)]
Shifted(e, d, n) == [d EXCEPT !.head = IF e.wrap THEN (@ + n) % e.size ELSE @ + n]

\* The data after one character outside a loop's test.
Obeyed(e, c, d) ==
  CASE c = ">" -> Shifted(e, d, 1)
    [] c = "<" -> Shifted(e, d, -1)
    [] c = "+" -> WithCell(e, d, Here(d) + 1)
    [] c = "-" -> WithCell(e, d, Here(d) - 1)
    [] c = "." -> [d EXCEPT !.out = Append(@, Here(d))]
    [] c = "," -> IF d.in = <<>> THEN WithCell(e, d, -1)
                  ELSE [WithCell(e, d, Head(d.in)) EXCEPT !.in = Tail(@)]
    [] OTHER -> d

\* What is left to read, the loops being executed (each as the text from its
\* opening bracket on), and the brackets still open in the text passed over.
Conf(s, loops, skip, d) == [rest |-> s, loops |-> loops, skip |-> skip, data |-> d]
Begin(s, d) == Conf(s, <<>>, 0, d)

Opened(c, k) == CASE c = "[" -> k + 1 [] c = "]" -> k - 1 [] OTHER -> k

Step(e, x) ==
  LET c == Head(x.rest)
      s == Tail(x.rest)
      n == Len(x.loops)
  IN  IF x.skip > 0 THEN Conf(s, x.loops, Opened(c, x.skip), x.data)
      ELSE IF c = "[" /\ Here(x.data) = 0 THEN Conf(s, x.loops, 1, x.data)
      ELSE IF c = "[" THEN Conf(s, Append(x.loops, x.rest), 0, x.data)
      ELSE IF c = "]" THEN Conf(x.loops[n], SubSeq(x.loops, 1, n - 1), 0, x.data)
      ELSE Conf(s, x.loops, 0, Obeyed(e, c, x.data))

\* A bracket that closes nothing, a move left of the first cell of the heap.
Stuck(e, x) ==
  /\ x.skip = 0
  /\ \/ Head(x.rest) = "]" /\ x.loops = <<>>
     \/ Head(x.rest) = "<" /\ ~e.wrap /\ x.data.head = 0
Halted(x) == x.rest = <<>>

\* Where x is after at most n steps.
Interpret(e, x, n) ==
  LET run[k \in 0 .. n] == IF k = 0 THEN x
                           ELSE LET y == run[k - 1]
                                IN  IF Halted(y) \/ Stuck(e, y) THEN y ELSE Step(e, y)
  IN  run[n]
=============================================================================
