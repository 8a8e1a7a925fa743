------------------------------ MODULE MCDriver ------------------------------
(***************************************************************************)
(* Command lines for model checking Driver.                                *)
(***************************************************************************)
EXTENDS Driver

CONSTANTS p1, p2

Flag(k) == [kind |-> k]
Value(k, n) == [kind |-> k, n |-> n]
Lines == {
  <<>>,
  <<Flag("heap")>>,
  <<Flag("no-strict"), Flag("no-wrap"), Flag("allow-canary"), Flag("allow-intrinsics"),
    Flag("turbo"), Flag("x"), Flag("help")>>,
  <<Value("name", 1), Flag("unknown")>>,
  <<Value("name", 1), Value("stacksize", 0)>>,
  <<Value("name", 1), Flag("dmp-tok"), Value("opt-level", 2)>>,
  <<Value("name", 1), Value("name", 2), Value("stacksize", 9)>>,
  <<Value("name", 1), Value("name", 3)>>}
Pair == {<<Value("name", 1)>>, <<Value("name", 1), Value("name", 2)>>}
=============================================================================
