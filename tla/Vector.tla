------------------------------- MODULE Vector -------------------------------
(***************************************************************************)
(* llv/src/vec over llv/src/alloc: the growable array the compiler keeps   *)
(* its tokens in, at the level of the slots of its block, under every      *)
(* sequence of calls and with memory refused at any of them. Elements are  *)
(* 16 bytes, as t_tokenseq is. A vector that lv_vec could not allocate, or *)
(* that was freed, has no element size (width 0): it counts without room.  *)
(***************************************************************************)
EXTENDS Integers, Sequences, SequencesExt

CONSTANTS
  Values,         \* contents of an element
  MaxBatch,       \* elements handed over in one call
  MaxSlots,       \* bound on the size and on what is reserved
  MayFail         \* whether malloc may refuse

ASSUME BatchAssumption == MaxBatch \in Nat \ {0} /\ MaxSlots \in Nat
ASSUME MayFailAssumption == MayFail \in BOOLEAN

VARIABLES
  size, alloc,    \* v->size and v->alloc_size
  width,          \* v->sizeof_type: 1 element, or 0
  data,           \* what v->data points to: "null", "live", "freed"
  mem,            \* the slots of the live block
  blocks,         \* blocks allocated and not freed
  torn,           \* an insert has moved a tail over itself
  lost,           \* lv_vec_fit has freed the block and kept the pointer
  status          \* "ok", or "undefined" after a use or a free of freed memory

fields == <<size, alloc, width, data, mem, blocks>>
vars == <<fields, torn, lost, status>>

Zero == "zero"                      \* a slot calloc or pop has cleared
Junk == "junk"                      \* a slot nothing was stored to
Zeros(n) == [k \in 1 .. n |-> Zero]
Batches == UNION {[1 .. n -> Values] : n \in 1 .. MaxBatch}
Larger(a, b) == IF a > b THEN a ELSE b

Init ==
  /\ size = 0 /\ alloc = 0 /\ width = 0 /\ data = "null" /\ mem = <<>> /\ blocks = 0
  /\ torn = FALSE /\ lost = FALSE /\ status = "ok"

Defined == status = "ok"
Undefined == status' = "undefined" /\ UNCHANGED <<fields, torn, lost>>
Sound == UNCHANGED <<torn, lost, status>>

\* lv_vec, into a variable that owns nothing.
Create(n) ==
  /\ Defined /\ data = "null"
  /\ \/ /\ size' = 0 /\ alloc' = n /\ width' = 1
        /\ data' = "live" /\ mem' = [k \in 1 .. n |-> Junk] /\ blocks' = blocks + 1
     \/ /\ MayFail
        /\ size' = 0 /\ alloc' = 0 /\ width' = 0
        /\ UNCHANGED <<data, mem, blocks>>
  /\ Sound

-----------------------------------------------------------------------------
(* Growing: lv_extend_zero(v->data, alloc, n). The old block is freed only *)
(* once the new one is there; asked for no bytes at all it is freed at     *)
(* once, and the vector still points to it.                                *)

Extends(n) == data = "null" \/ (data = "live" /\ n * width > 0)
Extended(n) == mem \o Zeros(n * width)

Taken == IF data = "live" THEN blocks + 1 - 1 ELSE blocks + 1

Released == data' = "freed" /\ mem' = <<>> /\ blocks' = blocks - 1 /\ UNCHANGED <<size, alloc, width>>

\* Mutant: the old block is freed before the new one is asked for.
RefusedReleasing == IF data = "live" THEN Released ELSE UNCHANGED fields
Refused == UNCHANGED fields

\* It returns NULL, or touches freed memory.
ExtendFails(n) ==
  \/ data = "freed" /\ Undefined
  \/ data = "live" /\ n * width = 0 /\ Released /\ Sound
  \/ Extends(n) /\ MayFail /\ Refused /\ Sound

\* Room for a batch of n: found, made, or not to be had.
HasRoom(n) == size + n <= alloc
Grown(n) == Larger(2 * alloc, size + n)
More(n) == Grown(n) - alloc
Dangling == data = "freed" /\ width > 0

Room(n) == IF HasRoom(n) THEN mem ELSE Extended(More(n))
MakeRoom(n) ==
  \/ HasRoom(n) /\ ~Dangling /\ UNCHANGED <<alloc, data, blocks>>
  \/ ~HasRoom(n) /\ Extends(More(n)) /\ alloc' = Grown(n) /\ data' = "live" /\ blocks' = Taken
NoRoom(n) ==
  \/ HasRoom(n) /\ Dangling /\ Undefined
  \/ ~HasRoom(n) /\ ExtendFails(More(n))

\* The batch xs stored in the block m after the first k slots.
Stored(m, k, xs) == [j \in DOMAIN m |-> IF j \in k + 1 .. k + Len(xs) THEN xs[j - k] ELSE m[j]]

Push(xs) ==
  /\ Defined /\ size + Len(xs) <= MaxSlots
  /\ \/ NoRoom(Len(xs))
     \/ /\ MakeRoom(Len(xs))
        /\ size' = size + Len(xs) /\ mem' = Stored(Room(Len(xs)), size, xs)
        /\ UNCHANGED width /\ Sound

\* lv_memmove copies a tail onto itself from the end, starting one word past
\* it: every element lands one slot too high, and the first one is lost.
Shift(k, n) == IF width > 0 /\ size - k >= n THEN 1 ELSE 0
Moved(m, k, n) ==
  [j \in DOMAIN m |-> IF j - Shift(k, n) \in k + n + 1 .. size + n THEN m[j - n] ELSE m[j]]

Insert(k, xs) ==
  LET n == Len(xs)
  IN  /\ Defined /\ k <= size /\ size + n <= MaxSlots
      /\ \/ NoRoom(n)
         \/ /\ MakeRoom(n)
            /\ size' = size + n /\ mem' = Stored(Moved(Room(n), k, n), k, xs)
            /\ torn' = (torn \/ Shift(k, n) = 1)
            /\ status' = IF size + n + Shift(k, n) > alloc' THEN "undefined" ELSE status
            /\ UNCHANGED <<width, lost>>

\* Room for n more, though what was asked for is room for n in all.
Reserve(n) ==
  /\ Defined /\ n > alloc /\ alloc + n <= MaxSlots
  /\ \/ ExtendFails(n)
     \/ /\ Extends(n)
        /\ alloc' = alloc + n /\ data' = "live" /\ mem' = Extended(n) /\ blocks' = Taken
        /\ UNCHANGED <<size, width>> /\ Sound

-----------------------------------------------------------------------------
(* Shrinking and the rest.                                                 *)

\* The slots from k to l cleared.
\* Mutant: nothing is cleared.
ClearedNot(k, l) == mem
Cleared(k, l) == [j \in DOMAIN mem |-> IF j \in k .. l THEN Zero ELSE mem[j]]

\* lv_vec_pop and lv_vec_popmv.
Pop ==
  /\ Defined /\ data # "null" /\ size > 0
  /\ IF Dangling THEN Undefined
     ELSE /\ size' = size - 1 /\ mem' = Cleared(size, size)
          /\ UNCHANGED <<alloc, width, data, blocks>> /\ Sound

Clear ==
  /\ Defined /\ data # "null"
  /\ IF Dangling /\ size > 0 THEN Undefined
     ELSE /\ size' = 0 /\ mem' = Cleared(1, size)
          /\ UNCHANGED <<alloc, width, data, blocks>> /\ Sound

\* Mutant: one slot more than is used is turned.
TurnedLong(m) ==
  LET n == IF size < Len(m) THEN size + 1 ELSE size
  IN  [k \in DOMAIN m |-> IF k <= n THEN m[n + 1 - k] ELSE m[k]]
Turned(m) == [k \in DOMAIN m |-> IF k <= size THEN m[size + 1 - k] ELSE m[k]]

Rev ==
  /\ Defined /\ size > 1
  /\ IF Dangling THEN Undefined
     ELSE mem' = Turned(mem) /\ UNCHANGED <<size, alloc, width, data, blocks>> /\ Sound

\* lv_realloc to the elements in use. A size of no bytes, and a refusal, free
\* the block, and lv_vec_fit returns with the vector pointing to it.
Fit ==
  /\ Defined /\ size > 0 /\ alloc > 0
  /\ IF data = "freed" THEN Undefined
     ELSE \/ /\ width > 0
             /\ mem' = SubSeq(mem, 1, size) /\ alloc' = size
             /\ UNCHANGED <<size, width, data, blocks>> /\ Sound
          \/ /\ width = 0 \/ MayFail
             /\ Released /\ lost' = TRUE /\ UNCHANGED <<torn, status>>

Free ==
  /\ Defined
  /\ IF data = "freed" THEN Undefined
     ELSE /\ size' = 0 /\ alloc' = 0 /\ width' = 0 /\ data' = "null" /\ mem' = <<>>
          /\ blocks' = IF data = "live" THEN blocks - 1 ELSE blocks
          /\ Sound

Next ==
  \/ \E n \in 1 .. MaxSlots : Create(n) \/ Reserve(n)
  \/ \E xs \in Batches : Push(xs) \/ \E k \in 0 .. size : Insert(k, xs)
  \/ Pop \/ Clear \/ Rev \/ Fit \/ Free

Spec == Init /\ [][Next]_vars

-----------------------------------------------------------------------------
(* Properties.                                                             *)

\* The type of every variable: the block has the slots alloc_size says.
TypeOK ==
  /\ size \in Nat /\ alloc \in Nat /\ size <= alloc
  /\ width \in {0, 1} /\ data \in {"null", "live", "freed"}
  /\ mem \in Seq(Values \union {Zero, Junk})
  /\ data = "live" /\ width = 1 => Len(mem) = alloc
  /\ blocks \in Nat
  /\ torn \in BOOLEAN /\ lost \in BOOLEAN /\ status \in {"ok", "undefined"}

\* Whatever is refused, in whatever order, the blocks that exist are the one
\* the vector points to: none leaks (lv_extend_zero.c:15, lv_realloc.c:13-18).
NoLeak == blocks = IF data = "live" THEN 1 ELSE 0

\* Memory that was freed is used or freed again only in a vector lv_vec could
\* not give an element size, after a refused lv_vec_fit, or by a torn insert.
SoundUse == status = "undefined" => torn \/ lost \/ width = 0

\* The vector's own calls leave no item in a slot past the size, whatever is
\* refused: the slot holds zeros or what malloc handed out (lv_vec_pop.c:11,
\* lv_vec_popmv.c:8, lv_vec_clear.c:7). Code that lowers the size by itself, as
\* compact_vector does (optm.c:138), leaves what was there; see Optimizer.
NoStaleSlots ==
  ~torn => \A k \in DOMAIN mem : k > size => mem[k] \in {Zero, Junk}

\* The vector is the sequence it promises to be; see AbstractVector.
Items == IF data = "live" /\ width = 1 THEN SubSeq(mem, 1, size) ELSE <<>>
Abstract == INSTANCE AbstractVector WITH items <- Items, trusted <- ~torn
SequenceSpec == Abstract!Spec
=============================================================================
