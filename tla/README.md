# A verification project for lvbfc

`lvbfc` compiles Brainfuck, with extensions, to a native program: it reads a
source file, folds it into run-length tokens, rewrites some loops, prints a C
program to `/tmp/bf.c` and has `cc` or `clang` build it. This directory holds
TLA+ modules that model the compiler, the C programs it prints and the library
it is built on, llv (its vector, allocator, strings, memory primitives and line
reader), the TLC configurations that check them, and TLAPS proofs about them. Line numbers
are those of the sources in this repository.

## 1. The system

| part | source | state it keeps | operations | talks to |
| --- | --- | --- | --- | --- |
| driver | `src/lvbfc.c` | flags, file and output name | parse arguments, run the stages, call `cc` then `clang` | every stage, the shell |
| source reader | `src/lexer.c: read_file` | a buffer of `fsize + 1` bytes | keep the characters the flags enable | file system |
| lexer | `src/lexer.c: lex` | vector `out`, raw pointer `prev`, tape estimate, bracket level, warning counter | fold and cancel, then check brackets and loops | llv vector |
| optimizer | `src/optm.c` | the token vector, rewritten in place | rewrite loops to `Z`, `M`, `C`, fold `Z` with `+`/`-`, compact | llv vector |
| emitters | `src/emmiters.c` | the text | print one C statement group per token, for a fixed or a heap tape | `/tmp/bf.c` |
| emitted program | printed by `emmiters.c` | tape, pointer, `execbuf`, stdin, stdout | one action per statement group | libc |
| llv vector | `llv/src/vec` | size, alloc_size, element size, block | push, insert, pop, fit, reserve, clear, reverse, free | llv allocator |
| llv allocator | `llv/src/alloc` | a header before each block; a chain of pools | allocate, extend, reallocate, free; serve from the arena, release it at exit | malloc, atexit |
| llv memory primitives | `llv/src/mem`, `lv_strlen`, `lv_strncmp` | none | copy, move, fill, swap, take, repeat, clone, compare, search | vector, strings, driver (`lv_strncmp`) |
| llv strings | `llv/src/tstr` | data, len, alloc_size | construct, push, repeat, reserve, pop, clear, fit, trim, clone, free | llv allocator |
| llv line reading | `llv/src/io/{lv_fgetc,get_next_line}.c` | two static strings and an offset | next character, next line | llv strings, read |
| llv lists, conversion, printing | `llv/src/{lst,cstr,conv,ctype,math,io}` | none the compiler keeps | helpers | |

Everything in one compiler is sequential. What makes it hard:

* **raw pointers and in-place rewriting.** `lex` keeps a pointer into a vector
  that reallocates and pops; `compact_vector` moves tokens under the index of
  the loop that calls it; the optimizer looks one slot past the end.
* **partial failure.** A push that cannot grow loses a token silently; every
  error exit must release what was taken; nothing checks `fprintf` or `fclose`.
* **numeric edges.** Runs are folded, so one statement moves by `n` cells:
  wrapping, bounds checks and growth must be right for every `n`.
* **shared file.** All compilers on a machine write the same `/tmp/bf.c`.
* **words for bytes.** The memory primitives work in 16, 8, 4 and 1 bytes and
  narrow their results: what is right for bytes must stay right at every length.
* **statics.** The arena and the line reader keep static state between calls.

What makes each part correct: tokens mean what the text means; brackets are
judged as written; rewrites are equivalent to the loops they replace; the
printed program behaves as the text on a circular or growing tape and touches
nothing else; the compiler builds its own program or reports failure; the vector
is a sequence and never uses freed memory; a string is the text put into it; what
the arena grants never overlaps; lines are those of the file; a memory primitive
does to memory what its one-line description says, and no more.

## 2. The modules

| module | models | correspondence |
| --- | --- | --- |
| `Tokens` | `t_tokenseq`, the operators, what a token stands for | `Spelled` is the text of tokens, rewritten ones too; `Reduce` is the normal form of a text under cancelling of neighbours |
| `Lexer` | `read_file`, `lex` | `Scan` is one turn of the folding loop, `Inspect`/`RejectClose`/`RejectLoop` one turn of the checking loop; the vector is kept down to its slots, blocks are numbered by reallocation, and `prev` is a block and a slot; `fsize` is what `ftell` told, less than the file holds if it failed or the file grows; `Overrun` and `PushUnsized` end a model that has reached undefined behaviour |
| `Optimizer` | `optimize`, `opt_openl`, `optz`, `remove_t`, `compact_vector` | one action per visit of the loop, by the operator visited; `Slack` slots past the end hold leftover memory |
| `Generated` | the C that `emit` and `emit_heap` print | one action per printed statement group, in the modes `wrap`, `nowrap`, `turbo`, `heap`; `status` tells how the program stands, `stray` when it touches a byte outside its tape |
| `StoredAddresses` | nothing new: `Generated` with a history | `notes` are the addresses `&` has stored and no statement has overwritten since, with the cell and the tape they were taken of |
| `CircularTape` | nothing in the code: what a default program promises | refined by `Generated` |
| `Interpreter` | nothing in the code: what a source text means | one character a step, on a ring or on a tape without a right end |
| `Pipeline` | the stages one after the other | composes `Lexer`, `Optimizer` and `Generated`, and compares with `Interpreter` |
| `Driver` | `main`, `compile_c`, opening and writing `/tmp/bf.c` | processes at a program counter; the text is a sequence of flushed buffers, each named by the program it belongs to |
| `Vector` | `llv/src/vec` over `lv_alloc`, `lv_extend_zero`, `lv_realloc`, `lv_free` | one action per call; a call that touches freed memory makes `status` undefined |
| `AbstractVector` | nothing in the code: a sequence | refined by `Vector` |
| `Memory` | `llv/src/mem` with its helpers, `lv_strlen`, `lv_strncmp` | a call is a list of jobs (a swap is three copies); `CopyWord`, `BackWord`, `FillWord`, `CompareEqual` are one turn of a word loop, `Narrow` the way to the next width; memory is a function from addresses to bytes |
| `Arena` | `lv_arena.c` over `lv_alloc_align` | one action per outcome of `lv_arena`, `FreeArena` and `Exit` for the two ways `lv_free_arena(NULL)` is reached |
| `TString` | `llv/src/tstr` over `lv_calloc`, `lv_extend_zero`, `lv_realloc`, `lv_free` | one operator per function, giving its outcomes, and one action per call; a block is its bytes and the spare ones that alignment leaves |
| `Lines` | `lv_fgetc.c`, `get_next_line.c` | composes two strings of `TString`: `Fgetc` gives the outcomes of a character, `TakeChar`, `TakeLine`, `TakeEnd` are the turns of the loop and its two ends |
| `TokensProofs` | | facts about sequences, iterations, bracket depth, cancelling, the executions of `Interpreter` and the texts of tokens that the other proofs share |
| `LexerProofs`, `OptimizerProofs`, `GeneratedProofs`, `DriverProofs`, `MemoryProofs` | | theorems about the module of that name; `GeneratedProofs` also about `StoredAddresses` |
| `LibraryProofs` | | theorems about `Vector`, `Arena`, `TString`, `Lines` and about `MCLibrary`, which puts them side by side |
| `PipelineProofs` | | theorems about `Pipeline`, from those about its three stages |
| `MCLexer`, `MCOptimizer`, `MCGenerated`, `MCPipeline`, `MCDriver`, `MCMemory` | | inputs for TLC |
| `MCLibrary` | | `Vector`, `Arena`, `TString` and `Lines` side by side: a behaviour is that of one of them |

Comments that start with `Mutant` introduce a changed form of the definition
that follows, one plausible mistake each; the properties below are each broken
by one of them.

Abstractions shared by the models: characters are one-letter strings; a run is
a token whatever its length; `CellMod` stands for 256 and `WordSize` for 8;
memory is a function of slots or cells; printing is left out, except the
warnings whose order is checked. `DiskFills` in `Driver` is never undone, and
`cc` is free to refuse or accept a file that holds parts of several texts.

## 3. What TLC checks

| run | instance | shows |
| --- | --- | --- |
| `lexer` | all texts of up to 6 characters over `+ - > <` and over `+ - [ ]`, of up to 3 over nine characters with extensions, of up to 4 loop fragments; 4 sets of options; 1 initial slot, 2 warnings; opening, `ftell`, every allocation and growing may fail | tokens stand for the text consumed (`FoldSound`); `prev` is valid whenever it is dereferenced without a refresh (`PrevLive`); verdicts on brackets are those of the text as written, strict ones those of its folded tokens; warnings come in order and stop; balanced tokens even after lost pushes or without a vector; every exit releases; the read buffer is exceeded only if `ftell` told too little; `lex` ends |
| `optimizer` | all balanced vectors of up to 5 tokens, all shapes of the rewritten loops in context, both levels | the pass stays in its memory, keeps brackets matched at every moment, each rewrite reads back as its loop and does not depend on the slot past the end, it ends |
| `tape` | up to 4 statements: core ones with bracket runs and assignments; `$`; `;`, `?`, `M`, `C`; `&`, moves, growth and `=`; tapes of 2, 3 and 9 cells, all modes, two bases | pointer in bounds, bounded drift without wrapping, a default program implements `CircularTape`; intrinsics bounded except `$$$`; what is released at the end, and which error exits keep something; a stored address leads to the byte it was taken of |
| `pipeline` | balanced sources of up to 5 characters (4 with I/O) and of up to 3 fragments with move loops and nested zeroing, 2 cells, both levels, wrapped and on the heap | printed bytes and final cells are those of the interpreter, and a source that ends becomes a program that ends |
| `driver` | 2 compilers, 8 command lines, 2 buffers of text, every set of installed compilers and of accepted programs, kills, a full disk | an undisturbed compiler builds its own program or says that it did not (section 4) |
| `memory` | the word sizes of the code; 14 lengths from 0 to 37 (for comparisons to 64), regions before, after, touching and across each other, one region null, every place of a difference, bytes at the limits of the word test | what a call does, where it may write, what a comparison or a search answers |
| `library` | vector: batches of 1 or 2, up to 6 slots; arena: 4 grants of 4 sizes, 3 places of a block, pools of 24 bytes; string: texts of up to 4 characters, 2 spare bytes; lines: every file of up to 5 bytes, a buffer of 2, 4 calls, a read that fails; malloc may refuse anywhere | each of the four keeps its promise (section 4), and nothing is lost but in the known places |
| `tape_wrap_stray`, `pipeline_copy`, `driver_overlap`, `flag_prefix`, `overflow_leaks` | | violated on purpose: section 6 |

**Bounds.** One initial slot makes the lexer's vector grow three times within six
characters, so `prev` crosses reallocations and pops down to empty and back.
Runs of moves of length 1 and 2 on tapes of 2 and 3 cells (and of 9, larger than
`MaxSize`) reach each side of every comparison, exactly at the end, one before and
one past it. `CellMod = 4` makes cells wrap within four statements; two cells hold any
address of the model. `MaxSize` stops a heap tape from growing for ever,
`MaxOutput` stops a printing loop (`CutOff`), `Fuel` stops the interpreter.
Two compilers and two buffers give every interleaving of open, flush, close and
compile, including holes. Six slots let a vector double twice and be reserved,
fitted and inserted into at either end.

The lengths of `memory` lie on, one before and one after each word width, its
double (where the loops are unrolled) and sums of widths, so each loop is entered
no time, once and twice and each hand-over to the next width happens. `Spare` and
`Addresses` leave room beyond every region, so that a byte written too far shows.
In `library`, `Align = 8` and `Header = 2` stand for the alignment of 128
(alloc.h:13) and the header of 8 bytes in the code: a header that divides the
alignment and is smaller, padding from 0 to `Align - 1`;
`DefaultPool = 24` takes two or three requests, and a request of 13 is served by a
pool of its own size; three values of `Tabs` put a block on, before and after an
aligned place. `BUFSIZE = 2` makes a line of three cross two reads and a push grow
the line; five bytes hold two lines and a piece. `Slack = 2` is the least that
`lv_alloc_align` leaves: it asks for `align - 1` bytes more, and malloc returns
addresses on 8 or 16.

**Fairness.** `Lexer`, `Optimizer`, `Generated` and `Pipeline` are sequential
programs: `WF_vars(Next)` says that the machine goes on executing them.
`Driver` has `WF_vars(Step(p))` for each process: the operating system runs every
process that can run, and nothing a compiler does can be disabled by another, so
weak fairness is enough. No fairness is assumed of kills and of the disk filling.
`Lines` has `WF(Take)`: once called, `get_next_line` goes on; `read` gives at least
one byte until the end of the file. Nothing forces a client to call the library,
so `Vector`, `Arena` and `TString` have no fairness, and `library` does not check
deadlock; neither does `memory`, whose behaviours end with the call. Everywhere
else `Stop` is the only action of an ended program and deadlock is checked.

## 4. What the properties say

* *Lexer.* `EarlierTokensStable` (proved) and `PrevLive` together justify the raw
  pointer: a scan step writes the last token at most, and with an empty vector
  `prev` is the zeroed slot just popped. `VerdictMatchesSource` says that cancelling
  brackets never hides or creates a mismatch, and that strict mode refuses those
  loops, of the text that the folded tokens stand for, that have no `-` before the
  next `]`: a `-` that was cancelled while folding does not count. `Settled` covers
  every way out, `LexedForm` a vector that `lv_vec` could not allocate too: if no
  push is granted memory, the program is empty; if one is, its token is counted but not
  stored, and what follows is undefined (`PushUnsized`, pc "astray"). `BufferFits`
  says what may exceed the read buffer: an `ftell` that failed or told less than
  the file came to hold (`fsize < Len(file)`, pc "overrun"), and nothing else; that
  a character passes four independent tests does not.
* *Optimizer.* `RewritesExact` expands tokens back to the loops they stand for
  and compares with the input at every state. It excludes what the code does not
  do: `C`, an `M` over more than one cell, a decrement by more than one in the
  loop of a move or a copy (which do not look at its length; `[-]` is rewritten for
  a decrement by one only, optm.c:19, 27), and, for the compaction, empty tokens.
* *Emitted program.* `InBounds` (and `NeverStray`, proved) need `RunsFit`, that no run of
  moves is longer than the tape asked for, which is what one subtraction can
  undo. `NoWrapDrift` states how far the late check before a right move lets the
  pointer go. `IntrinsicsBounded` names the one intrinsic that is not.
  `ExitsRelease`: a program that ends by itself owns nothing; of its error exits
  those of the moves and of `&` release what there is in every mode, and those
  that do not are named: the checks of `$$`, `$$$` and `$$$$$`, a heap that cannot grow
  (which keeps the tape and `execbuf`) and, for the heap tape, a missing `execbuf`.
  `JumpLands` is about addresses that stay in the tape for a while: between `&` and
  `=` the pointer moves, other cells are written, and the heap grows, which copies
  the cells that hold an address and may move the tape it points into. As long as no
  statement overwrites it, `=` goes to the byte it was taken of; that is the same
  cell just when the tape has not moved.
* *Pipeline.* `SameBehaviour` compares with an interpreter whose tape is a ring
  (wrapping) or unbounded to the right (heap).
* *Driver.* `OwnProgram` is stated of a compiler during whose use of `/tmp/bf.c`
  no other one had it open: a ghost variable, `crossed`, records that. Whatever
  earlier, failed or killed compilers left there, it builds its own program under
  the name asked for, or the name's first characters if it is longer than the
  command has room for. `ExitTellsTruth` relates the exit to what was built:
  success means that a compiler accepted the file, failure of `cc` alone is not
  reported; `Released` relates it to the vector; `Ends` says no compiler waits for
  another.
* *Vector.* `SequenceSpec` is the refinement. `torn` and `lost` record the two
  calls after which nothing is promised. `NoStaleSlots` is about the vector's own
  calls: `compact_vector` lowers the size by itself (optm.c:125-139) and leaves old
  tokens behind it, and the first block is not initialised. What the optimizer
  makes of such a slot is in `Optimizer`, whose memory past the end is arbitrary.
* *Memory.* `CallExact` compares a finished call with its meaning as one step;
  `Promised` leaves out what the code does not do: an upward move onto itself, a
  repeat that is not a whole number of chunks, or whose chunk lies across what it
  fills. `Contained` bounds even those: an
  upward move reaches up to a word past its region. `AnswersTrue` says that a
  comparison never makes a difference up and overlooks none in regions shorter
  than three wide words, and that a search finds the first byte although the word
  test flags false ones.
* *Arena.* `GrantsApart`, `GrantsFit` and `ArenaAccounts`. The test for room leaves out the
  header's bytes the base starts with, so the last grant may end a header past the
  pool's `size`; `GrantsFit` shows that it still lies in what malloc gave, unless
  malloc returns a multiple of the alignment.
* *Strings.* `said` is what the calls have asked for, `sure` that none of the calls
  that lose it silently has met a refusal. `TextKept`: then the string is exactly
  that, terminated, in one block. `Lines` uses strings in the ways that are safe.
* *Lines.* `LinesExact`: however `read` cuts up the file, the lines are those of
  the bytes consumed. `EndReleases` and `CallsReturn` are about the end of the file.

## 5. What is proved

Proved by TLAPS for every value of the constants, under the named assumptions of
the modules, each of which TLC evaluates. The assumptions say what inputs are
(texts are sequences of the characters, what `lex` returns is in `LexedForm`,
files are bytes, capacities and limits are positive); those of `Memory` say more,
below. Every safety property that a run checks and the code satisfies has a
theorem. Liveness stays with TLC (end of this section).

**Induction over data.** The provers cannot instantiate the library's induction
theorems, which take an operator. The proofs here induct over a *set*: for
`T == {n \in Nat : P(n)}`, zero in it and closed under successor, `SetInduction`
gives `T = Nat`. On it rest `Iteration` and `IterationUnique` (a function that
satisfies a recursion over `0 .. n` exists, and is the only one), by which the
recursive functions of the models, `TokDepth`, `Reduce`, `LinesOf`, and the folds
of the community modules are unfolded one step at a time.

* `TokensProofs`: `RunsCancel`, `BalancedReduce`, `BalancedUnfold`, over lemmas on
  prefixes, concatenation and flattening. The heart is that cancelling is
  confluent: what `Reduce` leaves never depends on the pairs deleted before, so that
  a run pushed after its opposite leaves what the longer has more, and that deleting
  a pair, `[]` too, changes no verdict on brackets.
  Its second half is about `Interpreter`. `Yields(s, t)` says that in any text, on
  any machine and data, `s` may be replaced by `t`: an execution that ended ends,
  with the same output and cells. Loops make this more than equality of what `s` and
  `t` do once: the interpreter jumps back to the text after a bracket, in which `s`
  occurs again. `LocalFollows` is the one simulation behind all of it: two texts
  alike but for occurrences of `s` and `t` are read in step (`AlikeStep`), and a
  *local* pair is one where `s` leads to what `t` leads to, executed or passed over.
  `InterpretEnds` ties these executions to the recursive function `Interpret` that
  the runs evaluate: where it halts, the text ends, with the same data.
  Deleting a cancelling pair is local, and so is `[[-]]` for `[-]` (`YieldsPair`,
  `YieldsRuns`, `YieldsNests`). The converse does not hold, as it
  should not: `<>` at the start of the heap is stuck where nothing is.
* `LexerProofs`: `TypeCorrect`, `PrevAlwaysLive`, `AllSettled`,
  `EarlierTokensKept`, `BufferNeverOverruns`, `FoldingSound`, `LexedWell`,
  `VerdictSound`, `WarningsComplete`, `FoldingKeepsBehaviour`, `LexerHandsOn`. The inductive invariant `IInv` adds to the first
  properties that the block of an allocated vector is never empty, that `prev` is
  null and the vector empty while reading, and
  that the checking index is zero until the check: that the slot `prev` names exists
  depends on blocks never shrinking. `BufferFits` needs that the text is no longer
  than what was read, whatever `ftell` told, and `CopiesOnce`: the four tests of
  `read_file` exclude each other. For `FoldSound` each branch of the folding loop (push, merge, cancel by
  more, less or all, close a bracket) is one application of `RunsCancel`, and for
  `FoldingKeepsBehaviour` one of `YieldsRuns`.
  `LexerHandsOn` is what the next stage may rely on when no extension is asked for:
  tokens of the eight, whose repetitions spelled out (`Spelled`, the text of what `emit` prints)
  are then the very text folding stands for (`CoreSpelled`), so that the source
  may be replaced by it (`Yields`).
  `VerdictSound` relates the depth the checking loop counts on folded tokens, one
  run at a time, to the brackets as written; `WarningsComplete` counts the loops
  without a decrement behind the checking index.
* `OptimizerProofs`: `TypeCorrect`, `BracketsStayMatched`, `NothingReadPastTheEnd`,
  `RewritesReadBack`, `RewritesKeepBehaviour`, `RewritesRun`, for every program `lex` may return (`ProgramsAssumption` is
  its `LexedForm`) and every number of passes. `IInv` ties the memory of the vector
  to its size and says that everything behind the index is what the passes made of
  it. Each rewrite replaces a part of the tokens that reads as its loop and is
  balanced by itself; since reading back and depth distribute over concatenation,
  the rest does not matter. `RInv` says the same of a bracket run while it is
  peeled. Compaction drops dead tokens, which read as nothing. `Same`, what a rewrite
  leaves, is about behaviour too: the loops a rewrite leaves around `[-]` are
  tested and left like `[-]` itself (`LoopsYield`).
  `RewritesRun` asks no more of the program than that it be of the core language:
  moves that `lex` left cancelled, and loops that count down by more than one, are
  allowed, as long as no copy and no move of cells is written. It holds from a
  blank tape only (`DoesAs`): to the copy pattern, `[-` and a cancelled `<` before `]`
  are a copy to no cells, which is dropped with its loop (optm.c:76-107). That
  can only happen to the loop a program begins with, which zero cells never enter
  (`FirstLoopDropped`, `LeadingLoop`); in the middle of a text it would be wrong. The
  invariant, `BInv`, says why: until something has been compacted, only dead tokens
  have been passed over; afterwards no token is dead (`Alive`), so that the pattern has
  a cell to copy to, and `RInv`'s argument applies.
* `GeneratedProofs`: `TypeCorrect`; `PointerInBounds`, from `Bounded`, which adds
  that the tape never gets smaller than asked for; `CoreNeverStrays`, from
  `StrayInv`; `DriftIsBounded`, from `DriftInv`; `ImplementsCircularTape`, where
  every action of the wrapping program is mapped to a step of `CircularTape` or a
  stutter, the heart of it being that one conditional subtraction is addition
  modulo the size when the run fits. What a default program is does not change, so
  its steps are the whole of it: `DefaultIsCircular` gives the refinement in the
  usual form. `EndsReleased`, from `Owns`: only a heap program owns its tape, which
  is why the exits of `--no-wrap` may release `execbuf` alone; the exits that keep
  something are those `ExitsRelease` names, and no others.
  `IntrinsicsStayInside`, from `Bounded`: with the pointer on the tape,
  `OnlyFillEscapes` names the one statement that reaches past it.
  `StoredAddressesLand`, from `NotesHold`, that a noted address is still in its cells:
  every statement leaves the cells alone that it is not there to write
  (`OthersKept`, where growth must copy the old cells), and the word `&` writes reads
  back (`WrittenReads`); of a jump, only one address is what the cells hold.
  `ProgramDoesItsText`, `PrintingKeepsText`, `EmittedDoesItsText`: the program against
  the interpreter of the text its statements stand for. The invariant, `Mirror`, says
  that there are data `d` which the program shows (`Shows`: the same head, cells, input
  and output) and from which what is left of the text at `ip` leads to the end `f`
  (`Awaits`: the interpreter stands before the statement at `ip`, with the brackets
  around that statement open). Each action moves `d` over the text of one
  statement: a run of moves that fits is as many single moves (`MovesMirror`, which is
  where the conditional subtraction and the growth of the heap tape come in), `A` and `S`
  are the loop `[-]` and a run, an `M` over one cell is its loop, and `[` and `]` go
  where the interpreter goes because brackets match the same way in the tokens and in
  their text (`MatchingDepths`). The converse, that the program ends, is a liveness
  property and stays with TLC. `EmitFrom` reads the other way: a statement has the
  operator of a token, and copies and moves of cells are printed as they are, so
  that what is said of the statements is known of the tokens.
* `PipelineProofs`: `CompilerKeepsBehaviour` is `SameBehaviour`, and
  `CompilerKeepsEnds` the same without a bound on the interpreter: for every source
  text, input, tape size, cell width, optimizer level and growth of the vector, what
  a source that ends leaves, a compiled program that ends leaves.
  The theorems of the stages are used through instances of their proof modules
  (`LP`, `OP`, `GP`). `Pipeline` never uses the `Init` of a stage, so its own
  instances name empty sets of inputs; those of the proofs name all inputs
  that a stage can be handed (`Handable`, every token sequence, every tape size), and
  the first lemmas (`LexNext`, `OptNext`, `RunNext`, ...) show that the two take the
  same steps. `PInv` gives each stage its invariants from the moment it begins and
  keeps them while the later ones run: `LexInv` (`LexerHandsOn`'s), `OptInv`, which
  adds that the source yields what the optimizer was handed, and `RunInv`: the
  code is what `emit` prints for what the optimizer left, and `Mirrors`, that
  whatever its own text ends with when interpreted, the program carries
  (`Carried`). That each stage's `Init` holds when it begins is where the hypotheses
  of the theorems are discharged (`OptStarts`: matched brackets, no empty token
  but a move; `RunStarts`: no statement with pointers, a tape that is not empty).
  At the end the chain is: the source ends (`ReferenceEnds`, from `InterpretEnds`),
  so do the folded tokens, so do the rewritten ones (`ExactDoes` from `RewritesRun`'s
  invariant, `HandedDoes` from `RewritesKeepBehaviour`'s), so does the text of the
  printed statements (`SaysAll`), and the program shows it (`ShowsEnds`). Assumed of
  the constants: the modes are `wrap` and `heap`, the stack size is positive
  (lvbfc.c:106-111), inputs are cell values.
* `LibraryProofs`, the vector: `TypeCorrect`, `NothingLeaks`, `UsesAreSound`, `SlotsAreClean`,
  from `Inv`, which adds `Consistent`: a vector without a block has no slots, an
  unallocated one no element size, and only a lost one or one without element
  size dangles. Growth is factored into lemmas (`ExtendFailsKeeps`, `RoomMade`)
  that push, insert and reserve share. `ImplementsSequence`: every call is a step of
  `AbstractVector` or none. A push and an insert that tears nothing come down to one
  lemma, `StoreMaps`: room keeps the items (`RoomItems`), and a block that agrees
  with the old one around the batch is the old sequence with the batch in it
  (`InsertedIs`). Once `torn`, nothing is promised and any step maps.
* `MemoryProofs`: `TypeCorrect`, `CopiesAreExact`, `WritesAreContained`,
  `CallsAreExact`, `AnswersAreTrue`. `Inv` ties pointers, offset and rest to the job
  (`InPlace`), and says that what the jobs left read is there (`AllRead`) and that a
  prefix of a copy is done exactly: a word of the source is read before anything
  has written there, which is where the exclusion of upward overlaps is needed.
  `CInv` keeps every changed byte within the reach of the call. `DInv` goes job by
  job: memory is what the finished jobs and the prefix of the current one make of
  the first memory, and the jobs of a call together are its meaning (a swap goes
  through its spare; a repeat is one copy, then copies of what is there already).
  For answers, what has been compared is equal, and a search has seen no match;
  the word test flags bytes behind a match by borrowing, but the lowest flag is
  one. Assumed: widths descend to single bytes and each but the widest fits a
  `ssize_t` (`WidthAssumption`), the memory lies below the spare block that a swap
  takes (`SpareAssumption`, `SpaceAssumption`), and what is searched as a string has
  an end (`CaseAssumption`).
* `LibraryProofs`, the arena: `GrantsNeverOverlap`, `GrantsStayInside`,
  `ArenasAccounted`, from `ArenaInv`, which adds to them that every grant ends before
  the offset of its pool (`Behind`), what makes the next one lie after it.
* `LibraryProofs`, strings: `StringTypes` and `TextIsKept`, from `StrInv`. `Str` is what
  any string is, lost or not: a block holds what is reserved, and blocks are lost
  for refusals only; `Holds(s, text)` is a string that has kept its text. One lemma
  per operation of `TString` says both (`Kept`): what it leaves is sound whatever it
  met, and if the string held its text and memory was not refused where it must not
  be, it holds the new one.
* `LibraryProofs`, lines: `LinesTypes`, `LinesAreExact`, `EndIsReleased`, from `LInv`.
  `Fed` ties the store and what `read` has left to the file: the bytes unread are
  its last ones, in order, wherever `read` cut it; `Answer` is what `lv_fgetc`
  promises: the first of them, and one fewer unread, or the end. With that a turn of
  `get_next_line` extends what `LinesOf` makes of the bytes consumed by one
  character (`LinesAppend`). `LibraryTypes` and `LibraryIsSafe` put the four clients
  together: the invariants of those at rest are kept by stuttering.
* `DriverProofs`: `TypeCorrect`, `AllReleased`, `BuildsItsOwn`, `ExitIsTrue`, for any
  number of compilers, from `Inv`, which adds four facts to them: what is written
  agrees with the stage (`Staged`); two compilers that hold the file at once are
  both marked as crossed (`Crossing`); the file of one that is not is exactly what
  it has written (`Alone`); and `clang` is tried for a reason (`NoCc`). `Alone` is the
  heart: opening truncates, and nobody else can write unmarked. Names of programs are
  assumed to differ from the marks the model uses for holes and mixtures.

Only model-checked: liveness (`Ends`, `Terminates`, `CallsReturn`,
`SourceEndsProgramEnds`), which needs fairness and ENABLED. `SameBehaviour` says
nothing of programs with a copy, or with a move over several cells, of which it
would be false (section 6); nor of a text with the operators of the extensions.

## 6. Divergences between the code and what is said of it

Shown by runs:

* `tape_wrap_stray`: INFO.md:396 says that segfaults are "rare/impossible" with
  core Brainfuck since the tape wraps. A folded run longer than the tape is
  wrapped once and leaves it (emmiters.c:44-47, 62-66).
* `pipeline_copy`: INFO.md:27-29 calls `C` equivalent to its loop. It is printed
  as a `memset` of the neighbours (emmiters.c:114-118), the loop adds to them.
* `driver_overlap`: lvbfc.c:32 says `./lvbfc hello.b hello` compiles to
  `./hello`. Another compiler may empty `/tmp/bf.c` and write its own text there
  after the first has closed it and before its `cc` reads it: then the first builds
  the whole program of the other, and reports success.
* `flag_prefix`: README.md:55 and lvbfc.c:24 give the flag `--stacksize=N`. An
  argument that begins with `--st` and differs from it in its fifth to eighth
  character, `--strict` for one, is taken for it (lvbfc.c:106): lv_strncmp.c:5
  returns a 64-bit difference as an int.
* `overflow_leaks`: INFO.md:398 says there are no leaks on overflow without wrapping.
  `$$`, `$$$` and `$$$$$` exit without releasing `execbuf` (emmiters.c:198, 203, 208). The
  heap's checks of the three (emmiters.c:416, 421, 426) keep the tape as well, and so
  do a realloc that fails (258) and a missing `execbuf` (339), of which nothing is
  promised.

Met while modelling, without a run of their own:

* INFO.md:44 says the maximum offset caused by `>` is tracked. The estimate counts a
  run of `>` only when it becomes a token (lexer.c:104-110): `<>>>` is estimated at
  zero, and moves two cells to the right.
* The table at INFO.md:67 says that `=` does bounds checking; it checks nothing
  (emmiters.c:166-170, 384-388; INFO.md:122 says so too). After a realloc that moves
  the heap tape, an address stored before leads out of it (`JumpLands` says where).
* `M` over `k > 1` cells is printed as one addition to each of `k` neighbours
  (optm.c:55-72, emmiters.c:108-113), while `[->>++<<]` adds twice to the second.
* The move and copy patterns do not look at how much the loop subtracts (optm.c:55-72):
  `++[-->+<]` becomes `++` and one `M`, which adds two where the loop adds one.
* The result of `ftell` is not checked (lexer.c:14-17). On a pipe it is -1, the block
  has no bytes, and the terminator alone is past it; so is a text that has grown
  since (pc "overrun" in `Lexer`).
* Nor is `lv_vec`'s (lexer.c:55): `lex` goes on with a vector of no element size
  (pc "astray").
* `[][]` inside brackets can survive as an empty loop (lexer.c:67-79, 110;
  README.md:17 says empty loops are removed): `[[][]]`.
* A `Z` the pass has just written is passed over before its `+` is looked at
  (optm.c:155; INFO.md:33), and a dead first token makes the pass skip a `[`
  (optm.c:147-158): `><+[-]` keeps its loop (INFO.md:25).
* Without wrapping the right check lets the pointer past the end before exiting
  (emmiters.c:50-54; README.md:48 says it exits on overflow).
* On the heap a folded left move across the start ends at `size - n` from any
  offset (emmiters.c:284-288), unlike `n` single moves.
* Two `&` (or two `=`) in one C block declare a variable twice and `cc` refuses the
  text (emmiters.c:164, 167).
* `lv_vec_reserve(v, n)` makes room for `n` more elements than there were, and
  `lv_vec_insert` inside a vector shifts a tail one element too far
  (lv_memmove.c:14, lv_memw_bw.c). The compiler calls neither.
* `lv_memcmp` can miss a difference in regions of 48 bytes or more (lv_memcm_r.c:99):
  one in the upper half of a 16-byte word reads as none, and the narrower
  comparison starts over with fewer bytes to go.
* A push on a string that cannot grow loses the text and its block and doubles
  `alloc_size`, so that the next push writes through a null pointer
  (lv_tstr_push.c:13-16); a refused fit leaves freed data (lv_tstr_fit.c:9); a slice
  of nothing has no data and an `alloc_size` of 1 (lv_tstr_from_slice.c:18), and any
  slice is terminated one byte past the size asked for; a zeroed string is given no
  room by a push.
* `lv_arena` after `lv_free_arena(NULL)` uses the freed chain (lv_arena.c:57); a pool
  that cannot be had loses its `t_arena` (lv_arena.c:13).
* `get_next_line` drops a last line without a line feed, and ends a line at the
  byte 255 (get_next_line.c:18, 25).
* `lv_tstr_instr` finds the first character of the needle only (lv_tstr_instr.c:10).
* `lv_lstdelone` and `lv_lstclear` call `free` on what `lv_alloc` returned, which is
  not what malloc did; `lv_split`, when it fails, frees its array twice.

## 7. Not modelled

The machine code a `;` run executes; the text of messages and of the C beyond the
effect of each statement; a source file that shrinks or is rewritten while it is read (one
that grows, and one that has no size, are modelled); what a compiler does after
undefined behaviour, where the models end; the
environment of `system()`, and a C compiler that outlives its killed parent; the
lists of llv, since no program that releases a node is defined; its conversions,
character classes, arithmetic and printing, which keep no state and which the
compiler uses on its arguments at most or not at all; `lv_memformat` and the
searches of `lv_memlk_r.c`, which nothing calls; `lv_extend`, `lv_recalloc` and the
deferred frees, which are other calls with other initial bytes; sizes near
`SIZE_MAX`; elements other than 16 bytes; Windows and big-endian machines. The calls
of `Memory` are on memory that exists; two regions passed as `restrict` overlap only
in `lv_memmove` and `lv_memcpy`, and are compiled as written.

## 8. What could come next

1. `Driver` composed with the stages: which flags reach which mode, the tape size
   handed from the estimate, the failing exits.
2. `Vector`, `TString` and `Arena` on the byte memory of `Memory`.
