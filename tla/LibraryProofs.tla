--------------------------- MODULE LibraryProofs ---------------------------
(***************************************************************************)
(* Proofs about the vector, the allocator, the strings and the line reader *)
(* of llv, and about the library they make. The fields of a vector agree   *)
(* with its block; the blocks of an arena never overlap and stay in their  *)
(* pool; a string holds the text asked for; the lines given are those of   *)
(* the bytes read: for every alignment, alphabet, buffer, file and bound,  *)
(* and every behaviour of malloc and read.                                 *)
(***************************************************************************)
EXTENDS MCLibrary, TokensProofs

-----------------------------------------------------------------------------
(* lv_vec: the block and the fields of the vector agree whatever memory is  *)
(* refused.                                                                *)

\* What the fields say of each other. A vector without a block has no slots;
\* only a vector without element size, or one lv_vec_fit has lost, dangles.
Consistent ==
  /\ data # "live" \/ width = 0 => mem = <<>>
  /\ data = "null" => size = 0 /\ alloc = 0 /\ width = 0
  /\ data = "freed" => lost \/ width = 0

Inv == TypeOK /\ Consistent /\ NoLeak /\ SoundUse /\ NoStaleSlots

-----------------------------------------------------------------------------
(* The operators on blocks.                                                *)

Slot == Values \union {Zero, Junk}
Fresh == {Zero, Junk}

LEMMA BatchShape ==
  ASSUME NEW xs \in Batches
  PROVE  xs \in Seq(Values) /\ Len(xs) \in Nat \ {0}
<1>1. PICK m \in 1 .. MaxBatch : xs \in [1 .. m -> Values]
  BY DEF Batches
<1>2. m \in Nat \ {0}
  BY <1>1, BatchAssumption
<1> QED
  BY <1>1, <1>2

LEMMA StoredShape ==
  ASSUME NEW m \in Seq(Slot), NEW k \in Nat, NEW xs \in Seq(Values)
  PROVE  /\ Stored(m, k, xs) \in Seq(Slot)
         /\ Len(Stored(m, k, xs)) = Len(m)
         /\ \A j \in DOMAIN m : j > k + Len(xs) => Stored(m, k, xs)[j] = m[j]
<1> DEFINE s == Stored(m, k, xs)
<1>1. \A j \in 1 .. Len(m) : j \in k + 1 .. k + Len(xs) => j - k \in 1 .. Len(xs)
  OBVIOUS
<1>2. \A j \in 1 .. Len(m) : (IF j \in k + 1 .. k + Len(xs) THEN xs[j - k] ELSE m[j]) \in Slot
  BY <1>1 DEF Slot
<1>3. s \in [1 .. Len(m) -> Slot]
  BY <1>2 DEF Stored
<1>4. s \in Seq(Slot) /\ Len(s) = Len(m)
  BY <1>3
<1>5. \A j \in DOMAIN m : j > k + Len(xs) => s[j] = m[j]
  BY DEF Stored
<1> HIDE DEF s
<1> QED
  BY <1>4, <1>5 DEF s

LEMMA ClearedShape ==
  ASSUME mem \in Seq(Slot), NEW k \in Nat, NEW l \in Nat
  PROVE  /\ Cleared(k, l) \in Seq(Slot)
         /\ Len(Cleared(k, l)) = Len(mem)
         /\ \A j \in DOMAIN mem : Cleared(k, l)[j] = IF j \in k .. l THEN Zero ELSE mem[j]
<1> DEFINE s == Cleared(k, l)
<1>1. s \in [1 .. Len(mem) -> Slot]
  BY DEF Cleared, Slot
<1>2. s \in Seq(Slot) /\ Len(s) = Len(mem)
  BY <1>1
<1>3. \A j \in DOMAIN mem : s[j] = IF j \in k .. l THEN Zero ELSE mem[j]
  BY DEF Cleared
<1> HIDE DEF s
<1> QED
  BY <1>2, <1>3 DEF s

LEMMA TurnedShape ==
  ASSUME mem \in Seq(Slot), size \in Nat, size <= Len(mem)
  PROVE  /\ Turned(mem) \in Seq(Slot)
         /\ Len(Turned(mem)) = Len(mem)
         /\ \A j \in DOMAIN mem : j > size => Turned(mem)[j] = mem[j]
<1> DEFINE s == Turned(mem)
<1>1. \A j \in 1 .. Len(mem) : j <= size => size + 1 - j \in 1 .. Len(mem)
  OBVIOUS
<1>2. s \in [1 .. Len(mem) -> Slot]
  BY <1>1 DEF Turned
<1>3. s \in Seq(Slot) /\ Len(s) = Len(mem)
  BY <1>2
<1>4. \A j \in DOMAIN mem : j > size => s[j] = mem[j]
  BY DEF Turned
<1> HIDE DEF s
<1> QED
  BY <1>3, <1>4 DEF s

\* A tail that does not overlap its destination ends where the size will.
LEMMA MovedShape ==
  ASSUME NEW m \in Seq(Slot), NEW k \in Nat, NEW l \in Nat \ {0}, size \in Nat, k <= size
  PROVE  /\ Moved(m, k, l) \in Seq(Slot)
         /\ Len(Moved(m, k, l)) = Len(m)
         /\ Shift(k, l) = 0 => \A j \in DOMAIN m : j > size + l => Moved(m, k, l)[j] = m[j]
<1> DEFINE s == Moved(m, k, l)
<1>1. Shift(k, l) \in {0, 1}
  BY DEF Shift
<1>2. \A j \in 1 .. Len(m) :
        j - Shift(k, l) \in k + l + 1 .. size + l => j - l \in 1 .. Len(m)
  BY <1>1
<1>3. s \in [1 .. Len(m) -> Slot]
  BY <1>2 DEF Moved
<1>4. s \in Seq(Slot) /\ Len(s) = Len(m)
  BY <1>3
<1>5. Shift(k, l) = 0 => \A j \in DOMAIN m : j > size + l => s[j] = m[j]
  BY DEF Moved
<1> HIDE DEF s
<1> QED
  BY <1>4, <1>5 DEF s

LEMMA ExtendedShape ==
  ASSUME mem \in Seq(Slot), NEW l \in Nat, width \in {0, 1}
  PROVE  /\ Extended(l) \in Seq(Slot)
         /\ Len(Extended(l)) = Len(mem) + l * width
         /\ \A j \in DOMAIN mem : Extended(l)[j] = mem[j]
         /\ \A j \in DOMAIN Extended(l) : j > Len(mem) => Extended(l)[j] = Zero
<1>1. l * width \in Nat
  <2>1. CASE width = 0
    BY <2>1
  <2>2. CASE width = 1
    BY <2>2
  <2> QED
    BY <2>1, <2>2
<1> DEFINE z == Zeros(l * width)
<1>2. z \in Seq(Slot) /\ Len(z) = l * width /\ \A j \in 1 .. Len(z) : z[j] = Zero
  BY <1>1 DEF Zeros, Slot
<1> HIDE DEF z
<1> QED
  BY <1>2 DEF Extended, z

-----------------------------------------------------------------------------
(* Growing keeps the invariant, whether it succeeds or not.                *)

LEMMA UndefinedKeeps ==
  ASSUME Inv, data = "freed", Undefined
  PROVE  Inv'
  BY DEF Inv, TypeOK, Consistent, NoLeak, SoundUse, NoStaleSlots, Undefined, fields

LEMMA ReleasedKeeps ==
  ASSUME Inv, data = "live", Released, width = 0 \/ lost', lost' \in BOOLEAN, lost => lost',
         UNCHANGED <<torn, status>>
  PROVE  Inv'
<1>1. blocks = 1 /\ blocks' = 0
  BY DEF Inv, NoLeak, Released
<1> QED
  BY <1>1 DEF Inv, TypeOK, Consistent, NoLeak, SoundUse, NoStaleSlots, Released

LEMMA ExtendFailsKeeps ==
  ASSUME Inv, NEW l \in Nat \ {0}, ExtendFails(l)
  PROVE  Inv'
<1>1. CASE data = "freed" /\ Undefined
  BY <1>1, UndefinedKeeps
<1>2. CASE data = "live" /\ l * width = 0 /\ Released /\ Sound
  <2>1. width = 0
    <3>1. width # 1
      BY <1>2
    <3> QED
      BY <3>1 DEF Inv, TypeOK
  <2> QED
    BY <1>2, <2>1, ReleasedKeeps DEF Sound, Inv, TypeOK
<1>3. CASE Refused /\ Sound
  BY <1>3 DEF Refused, Sound, fields, Inv, TypeOK, Consistent, NoLeak, SoundUse, NoStaleSlots
<1> QED
  BY <1>1, <1>2, <1>3 DEF ExtendFails

LEMMA ExtendedKeeps ==
  ASSUME Inv, NEW l \in Nat, Extends(l)
  PROVE  /\ Extended(l) \in Seq(Slot)
         /\ width = 0 => Extended(l) = <<>>
         /\ width = 1 => Len(Extended(l)) = alloc + l
         /\ Taken = 1
         /\ ~torn => \A j \in DOMAIN Extended(l) : j > size => Extended(l)[j] \in Fresh
<1> DEFINE e == Extended(l)
<1>1. /\ mem \in Seq(Slot) /\ width \in {0, 1} /\ size \in Nat /\ alloc \in Nat
      /\ data \in {"null", "live"}
  BY DEF Inv, TypeOK, Extends, Slot
<1>2. /\ e \in Seq(Slot) /\ Len(e) = Len(mem) + l * width
      /\ \A j \in DOMAIN mem : e[j] = mem[j]
      /\ \A j \in DOMAIN e : j > Len(mem) => e[j] = Zero
  BY <1>1, ExtendedShape
<1> HIDE DEF e
<1>3. ASSUME width = 0 PROVE e = <<>>
  BY <1>1, <1>2, <1>3 DEF Inv, Consistent
<1>4. ASSUME width = 1 PROVE Len(e) = alloc + l
  BY <1>1, <1>2, <1>4 DEF Inv, TypeOK, Consistent
<1>5. Taken = 1
  BY <1>1 DEF Taken, Inv, NoLeak
<1>6. ASSUME ~torn, NEW j \in DOMAIN e, j > size PROVE e[j] \in Fresh
  <2>1. j \in Nat /\ Len(mem) \in Nat
    BY <1>1, <1>2
  <2>2. CASE j > Len(mem)
    BY <1>2, <2>2 DEF Fresh
  <2>3. CASE ~(j > Len(mem))
    <3>1. j \in DOMAIN mem
      BY <1>1, <1>2, <1>6, <2>1, <2>3
    <3>2. mem[j] \in Fresh
      BY <3>1, <1>6 DEF Inv, NoStaleSlots, Fresh
    <3> QED
      BY <1>2, <3>1, <3>2
  <2> QED
    BY <2>2, <2>3
<1> QED
  BY <1>2, <1>3, <1>4, <1>5, <1>6 DEF e

\* What a call finds once there is room for l elements.
LEMMA RoomMade ==
  ASSUME Inv, NEW l \in Nat \ {0}, MakeRoom(l)
  PROVE  /\ Room(l) \in Seq(Slot)
         /\ alloc' \in Nat /\ size + l <= alloc'
         /\ data' \in {"live", "freed"} /\ (data' = "freed" => data = "freed" /\ width = 0)
         /\ width = 0 => Room(l) = <<>>
         /\ width = 1 => Len(Room(l)) = alloc'
         /\ blocks' = IF data' = "live" THEN 1 ELSE 0
         /\ ~torn => \A j \in DOMAIN Room(l) : j > size => Room(l)[j] \in Fresh
<1>t. size \in Nat /\ alloc \in Nat /\ width \in {0, 1} /\ data \in {"null", "live", "freed"}
  BY DEF Inv, TypeOK
<1>1. CASE HasRoom(l) /\ ~Dangling /\ UNCHANGED <<alloc, data, blocks>>
  <2>1. Room(l) = mem /\ data # "null"
    BY <1>1, <1>t DEF Room, HasRoom, Inv, Consistent
  <2>2. data = "freed" => width = 0
    BY <1>1, <1>t DEF Dangling
  <2> QED
    BY <1>1, <1>t, <2>1, <2>2
    DEF HasRoom, Inv, TypeOK, Consistent, NoLeak, NoStaleSlots, Slot, Fresh
<1>2. CASE /\ ~HasRoom(l) /\ Extends(More(l))
           /\ alloc' = Grown(l) /\ data' = "live" /\ blocks' = Taken
  <2>1. Grown(l) \in Nat /\ size + l <= Grown(l) /\ More(l) \in Nat /\ alloc + More(l) = Grown(l)
    BY <1>2, <1>t DEF Grown, Larger, More, HasRoom
  <2>2. Room(l) = Extended(More(l))
    BY <1>2 DEF Room
  <2> QED
    BY <1>2, <1>t, <2>1, <2>2, ExtendedKeeps
<1> QED
  BY <1>1, <1>2 DEF MakeRoom

LEMMA NoRoomKeeps ==
  ASSUME Inv, NEW l \in Nat \ {0}, NoRoom(l)
  PROVE  Inv'
<1>1. CASE HasRoom(l) /\ Dangling /\ Undefined
  BY <1>1, UndefinedKeeps DEF Dangling
<1>2. CASE ~HasRoom(l) /\ ExtendFails(More(l))
  <2>1. More(l) \in Nat \ {0}
    BY <1>2 DEF More, Grown, Larger, HasRoom, Inv, TypeOK
  <2> QED
    BY <1>2, <2>1, ExtendFailsKeeps
<1> QED
  BY <1>1, <1>2 DEF NoRoom

-----------------------------------------------------------------------------
(* Every call keeps the invariant.                                         *)

LEMMA CreateKeeps == ASSUME Inv, NEW l \in 1 .. MaxSlots, Create(l) PROVE Inv'
<1>1. l \in Nat /\ [k \in 1 .. l |-> Junk] \in Seq(Slot) /\ Len([k \in 1 .. l |-> Junk]) = l
  BY BatchAssumption DEF Slot
<1>2. blocks = 0
  BY DEF Create, Inv, NoLeak
<1>3. CASE /\ size' = 0 /\ alloc' = l /\ width' = 1
           /\ data' = "live" /\ mem' = [k \in 1 .. l |-> Junk] /\ blocks' = blocks + 1
  <2>1. UNCHANGED <<torn, lost, status>> /\ status = "ok"
    BY DEF Create, Sound, Defined
  <2>2. \A k \in DOMAIN mem' : mem'[k] = Junk
    BY <1>3
  <2>3. mem' \in Seq(Slot) /\ Len(mem') = l
    BY <1>1, <1>3
  <2> QED
    BY <1>1, <1>2, <1>3, <2>1, <2>2, <2>3
    DEF Inv, TypeOK, Consistent, NoLeak, SoundUse, NoStaleSlots, Slot
<1>4. CASE /\ size' = 0 /\ alloc' = 0 /\ width' = 0
           /\ UNCHANGED <<data, mem, blocks>>
  BY <1>4 DEF Create, Sound, Defined, Inv, TypeOK, Consistent, NoLeak, SoundUse, NoStaleSlots
<1> QED
  BY <1>3, <1>4 DEF Create

LEMMA PushKeeps == ASSUME Inv, NEW xs \in Batches, Push(xs) PROVE Inv'
<1> DEFINE l == Len(xs)
           m == Stored(Room(l), size, xs)
<1>1. xs \in Seq(Values) /\ l \in Nat \ {0}
  BY BatchShape
<1>2. CASE NoRoom(l)
  BY <1>1, <1>2, NoRoomKeeps
<1>3. CASE /\ MakeRoom(l)
           /\ size' = size + l /\ mem' = m
           /\ UNCHANGED width /\ Sound
  <2>1. size \in Nat /\ width \in {0, 1}
    BY DEF Inv, TypeOK
  <2>2. Room(l) \in Seq(Slot)
    BY <1>1, <1>3, RoomMade
  <2>3. /\ m \in Seq(Slot) /\ Len(m) = Len(Room(l))
        /\ \A j \in DOMAIN Room(l) : j > size + l => m[j] = Room(l)[j]
    BY <1>1, <2>1, <2>2, StoredShape
  <2> HIDE DEF l, m
  <2>4. ASSUME ~torn', NEW j \in DOMAIN m, j > size' PROVE m[j] \in Fresh
    <3>1. j \in DOMAIN Room(l) /\ j > size /\ j > size + l
      BY <1>1, <1>3, <2>1, <2>2, <2>3, <2>4
    <3> QED
      BY <1>1, <1>3, <2>3, <2>4, <3>1, RoomMade DEF Sound
  <2>5. width = 0 => m = <<>>
    BY <1>1, <1>3, <2>2, <2>3, RoomMade
  <2>6. width = 1 => Len(m) = alloc'
    BY <1>1, <1>3, <2>3, RoomMade
  <2> QED
    BY <1>1, <1>3, <2>1, <2>3, <2>4, <2>5, <2>6, RoomMade
    DEF Inv, TypeOK, Consistent, NoLeak, SoundUse, NoStaleSlots, Slot, Fresh, Sound
<1> QED
  BY <1>2, <1>3 DEF Push

LEMMA InsertKeeps == ASSUME Inv, NEW k \in 0 .. size, NEW xs \in Batches, Insert(k, xs) PROVE Inv'
<1> DEFINE l == Len(xs)
           t == Moved(Room(l), k, l)
           m == Stored(t, k, xs)
<1>1. xs \in Seq(Values) /\ l \in Nat \ {0}
  BY BatchShape
<1>2. CASE NoRoom(l)
  BY <1>1, <1>2, NoRoomKeeps
<1>3. CASE /\ MakeRoom(l)
           /\ size' = size + l /\ mem' = m
           /\ torn' = (torn \/ Shift(k, l) = 1)
           /\ status' = IF size + l + Shift(k, l) > alloc' THEN "undefined" ELSE status
           /\ UNCHANGED <<width, lost>>
  <2>1. size \in Nat /\ width \in {0, 1} /\ k \in Nat /\ k <= size
    BY DEF Inv, TypeOK
  <2>2. Room(l) \in Seq(Slot) /\ alloc' \in Nat /\ size + l <= alloc'
    BY <1>1, <1>3, RoomMade
  <2>3. /\ t \in Seq(Slot) /\ Len(t) = Len(Room(l))
        /\ Shift(k, l) = 0 => \A j \in DOMAIN Room(l) : j > size + l => t[j] = Room(l)[j]
    BY <1>1, <2>1, <2>2, MovedShape
  <2> HIDE DEF t
  <2>4. /\ m \in Seq(Slot) /\ Len(m) = Len(t)
        /\ \A j \in DOMAIN t : j > k + l => m[j] = t[j]
    BY <1>1, <2>1, <2>3, StoredShape
  <2> HIDE DEF l, m
  <2>5. Shift(k, l) \in {0, 1} /\ (width = 0 => Shift(k, l) = 0)
    BY DEF Shift
  <2>6. ASSUME ~torn', NEW j \in DOMAIN m, j > size' PROVE m[j] \in Fresh
    <3>1. Shift(k, l) = 0 /\ ~torn
      BY <1>3, <2>5, <2>6
    <3>2. j \in DOMAIN Room(l) /\ j \in DOMAIN t /\ j > size /\ j > size + l /\ j > k + l
      BY <1>1, <1>3, <2>1, <2>2, <2>3, <2>4, <2>6
    <3> QED
      BY <1>1, <1>3, <2>3, <2>4, <3>1, <3>2, RoomMade
  <2>7. width = 0 => m = <<>>
    BY <1>1, <1>3, <2>2, <2>3, <2>4, RoomMade
  <2>8. width = 1 => Len(m) = alloc'
    BY <1>1, <1>3, <2>3, <2>4, RoomMade
  <2>9. status' = "undefined" => torn' \/ lost' \/ width' = 0
    <3>1. CASE Shift(k, l) = 1
      BY <1>3, <3>1
    <3>2. CASE Shift(k, l) = 0
      <4>1. ~(size + l + Shift(k, l) > alloc')
        BY <1>1, <2>1, <2>2, <3>2
      <4>2. status' = "ok"
        BY <1>3, <4>1 DEF Insert, Defined
      <4> QED
        BY <4>2
    <3> QED
      BY <2>5, <3>1, <3>2
  <2>10. torn' \in BOOLEAN /\ status' \in {"ok", "undefined"}
    BY <1>3 DEF Inv, TypeOK
  <2> QED
    BY <1>1, <1>3, <2>1, <2>2, <2>4, <2>6, <2>7, <2>8, <2>9, <2>10, RoomMade
    DEF Inv, TypeOK, Consistent, NoLeak, SoundUse, NoStaleSlots, Slot, Fresh
<1> QED
  BY <1>2, <1>3 DEF Insert

LEMMA ReserveKeeps == ASSUME Inv, NEW l \in 1 .. MaxSlots, Reserve(l) PROVE Inv'
<1>1. l \in Nat \ {0}
  BY BatchAssumption
<1>2. CASE ExtendFails(l)
  BY <1>1, <1>2, ExtendFailsKeeps
<1>3. CASE /\ Extends(l)
           /\ alloc' = alloc + l /\ data' = "live" /\ mem' = Extended(l) /\ blocks' = Taken
           /\ UNCHANGED <<size, width>> /\ Sound
  <2>1. size \in Nat /\ alloc \in Nat /\ size <= alloc + l
    BY <1>1 DEF Inv, TypeOK
  <2> QED
    BY <1>1, <1>3, <2>1, ExtendedKeeps
    DEF Inv, TypeOK, Consistent, NoLeak, SoundUse, NoStaleSlots, Slot, Fresh, Sound
<1> QED
  BY <1>2, <1>3 DEF Reserve

LEMMA PopKeeps == ASSUME Inv, Pop PROVE Inv'
<1>t. size \in Nat \ {0} /\ mem \in Seq(Slot)
  BY DEF Inv, TypeOK, Pop, Slot
<1>1. CASE Dangling
  BY <1>1, UndefinedKeeps DEF Pop, Dangling
<1>2. CASE ~Dangling
  <2>1. /\ mem' \in Seq(Slot) /\ Len(mem') = Len(mem) /\ size' = size - 1
        /\ \A j \in DOMAIN mem : mem'[j] = IF j \in size .. size THEN Zero ELSE mem[j]
    <3>1. mem' = Cleared(size, size) /\ size' = size - 1
      BY <1>2 DEF Pop
    <3> QED
      BY <1>t, <3>1, ClearedShape
  <2>2. \A j \in DOMAIN mem' : j \in DOMAIN mem /\ j \in Nat
    BY <1>t, <2>1
  <2>3. ~torn => \A j \in DOMAIN mem' : j > size' => mem'[j] \in Fresh
    BY <1>t, <2>1, <2>2 DEF Inv, NoStaleSlots, Fresh
  <2>4. mem = <<>> => mem' = <<>>
    BY <1>t, <2>1
  <2> QED
    BY <1>2, <1>t, <2>1, <2>3, <2>4
    DEF Pop, Inv, TypeOK, Consistent, NoLeak, SoundUse, NoStaleSlots, Slot, Fresh, Sound
<1> QED
  BY <1>1, <1>2

LEMMA ClearKeeps == ASSUME Inv, Clear PROVE Inv'
<1>t. size \in Nat /\ mem \in Seq(Slot)
  BY DEF Inv, TypeOK, Clear, Slot
<1>1. CASE Dangling /\ size > 0
  BY <1>1, UndefinedKeeps DEF Clear, Dangling
<1>2. CASE ~(Dangling /\ size > 0)
  <2>1. /\ mem' \in Seq(Slot) /\ Len(mem') = Len(mem) /\ size' = 0
        /\ \A j \in DOMAIN mem : mem'[j] = IF j \in 1 .. size THEN Zero ELSE mem[j]
    <3>1. mem' = Cleared(1, size) /\ size' = 0
      BY <1>2 DEF Clear
    <3> QED
      BY <1>t, <3>1, ClearedShape
  <2>2. \A j \in DOMAIN mem' : j \in DOMAIN mem /\ j \in Nat \ {0}
    BY <1>t, <2>1
  <2>3. ~torn => \A j \in DOMAIN mem' : j > size' => mem'[j] \in Fresh
    BY <1>t, <2>1, <2>2 DEF Inv, NoStaleSlots, Fresh
  <2>4. mem = <<>> => mem' = <<>>
    BY <1>t, <2>1
  <2> QED
    BY <1>2, <1>t, <2>1, <2>3, <2>4
    DEF Clear, Inv, TypeOK, Consistent, NoLeak, SoundUse, NoStaleSlots, Slot, Fresh, Sound
<1> QED
  BY <1>1, <1>2

LEMMA RevKeeps == ASSUME Inv, Rev PROVE Inv'
<1>t. size \in Nat /\ mem \in Seq(Slot) /\ width \in {0, 1}
  BY DEF Inv, TypeOK, Rev, Slot
<1>1. CASE Dangling
  BY <1>1, UndefinedKeeps DEF Rev, Dangling
<1>2. CASE ~Dangling /\ mem = <<>>
  <2>1. mem' = <<>>
    BY <1>2 DEF Rev, Turned
  <2> QED
    BY <1>2, <2>1 DEF Rev, Inv, TypeOK, Consistent, NoLeak, SoundUse, NoStaleSlots, Sound
<1>3. CASE ~Dangling /\ mem # <<>>
  <2>1. size <= Len(mem)
    BY <1>3, <1>t DEF Inv, TypeOK, Consistent
  <2>2. /\ mem' \in Seq(Slot) /\ Len(mem') = Len(mem)
        /\ \A j \in DOMAIN mem : j > size => mem'[j] = mem[j]
    BY <1>3, <1>t, <2>1, TurnedShape DEF Rev
  <2>3. DOMAIN mem' = DOMAIN mem
    BY <1>t, <2>2
  <2> QED
    BY <1>3, <1>t, <2>2, <2>3
    DEF Rev, Inv, TypeOK, Consistent, NoLeak, SoundUse, NoStaleSlots, Slot, Sound
<1> QED
  BY <1>1, <1>2, <1>3

LEMMA FitKeeps == ASSUME Inv, Fit PROVE Inv'
<1>t. size \in Nat \ {0} /\ alloc \in Nat /\ size <= alloc /\ mem \in Seq(Slot)
      /\ data \in {"live", "freed"}
  BY DEF Inv, TypeOK, Consistent, Fit, Slot
<1>1. CASE data = "freed"
  BY <1>1, UndefinedKeeps DEF Fit
<1>2. CASE /\ data = "live" /\ width > 0
           /\ mem' = SubSeq(mem, 1, size) /\ alloc' = size
           /\ UNCHANGED <<size, width, data, blocks>> /\ Sound
  <2>1. Len(mem) = alloc
    BY <1>2 DEF Inv, TypeOK
  <2>2. mem' \in Seq(Slot) /\ Len(mem') = size
    BY <1>2, <1>t, <2>1
  <2>3. \A j \in DOMAIN mem' : ~(j > size)
    BY <1>t, <2>2
  <2> QED
    BY <1>2, <1>t, <2>2, <2>3
    DEF Inv, TypeOK, Consistent, NoLeak, SoundUse, NoStaleSlots, Slot, Sound
<1>3. CASE data = "live" /\ Released /\ lost' = TRUE /\ UNCHANGED <<torn, status>>
  BY <1>3, ReleasedKeeps
<1> QED
  BY <1>t, <1>1, <1>2, <1>3 DEF Fit

LEMMA FreeKeeps == ASSUME Inv, Free PROVE Inv'
<1>1. CASE data = "freed"
  BY <1>1, UndefinedKeeps DEF Free
<1>2. CASE data # "freed"
  BY <1>2 DEF Free, Defined, Sound, Inv, TypeOK, Consistent, NoLeak, SoundUse, NoStaleSlots
<1> QED
  BY <1>1, <1>2

LEMMA InitInv == Init => Inv
<1> SUFFICES ASSUME Init PROVE Inv
  OBVIOUS
<1>1. mem = <<>> /\ mem \in Seq(Slot)
  BY DEF Init
<1>2. TypeOK
  <2>1. size \in Nat /\ alloc \in Nat /\ size <= alloc /\ blocks \in Nat
    BY DEF Init
  <2>2. data # "live"
    BY DEF Init
  <2>3. width \in {0, 1} /\ data \in {"null", "live", "freed"} /\ status \in {"ok", "undefined"}
    BY DEF Init
  <2>4. torn \in BOOLEAN /\ lost \in BOOLEAN
    BY DEF Init
  <2> QED
    BY <1>1, <2>1, <2>2, <2>3, <2>4 DEF TypeOK, Slot
<1>3. NoStaleSlots
  BY <1>1 DEF NoStaleSlots
<1> QED
  BY <1>1, <1>2, <1>3 DEF Init, Inv, Consistent, NoLeak, SoundUse

LEMMA StepInv == Inv /\ [Next]_vars => Inv'
<1> SUFFICES ASSUME Inv, [Next]_vars PROVE Inv'
  OBVIOUS
<1>1. CASE UNCHANGED vars
  BY <1>1 DEF vars, fields, Inv, TypeOK, Consistent, NoLeak, SoundUse, NoStaleSlots
<1>2. CASE Next
  BY <1>2, CreateKeeps, ReserveKeeps, PushKeeps, InsertKeeps, PopKeeps, ClearKeeps, RevKeeps,
     FitKeeps, FreeKeeps DEF Next
<1> QED
  BY <1>1, <1>2

LEMMA AlwaysInv == Spec => []Inv
  BY InitInv, StepInv, PTL DEF Spec

\* However the calls and the refusals of memory follow each other, the block has
\* the slots alloc_size says and holds the elements size says.
THEOREM TypeCorrect == Spec => []TypeOK
  BY AlwaysInv, PTL DEF Inv

\* No block is ever leaked, by no call and no refusal.
THEOREM NothingLeaks == Spec => []NoLeak
  BY AlwaysInv, PTL DEF Inv

\* Freed memory is touched only in a vector without element size, after a
\* refused lv_vec_fit or by a torn insert.
THEOREM UsesAreSound == Spec => []SoundUse
  BY AlwaysInv, PTL DEF Inv

\* No call of the vector itself leaves an old item past the size.
THEOREM SlotsAreClean == Spec => []NoStaleSlots
  BY AlwaysInv, PTL DEF Inv

-----------------------------------------------------------------------------
(* The vector implements the sequence it promises.                         *)

\* What a step does to the sequence: one abstract step, or nothing.
Mapped == Abstract!Next \/ UNCHANGED <<Items, torn>>

\* The first slots of a block, as a sequence of their own.
LEMMA PrefixShape ==
  ASSUME NEW m \in Seq(Slot), NEW n \in Nat, n <= Len(m)
  PROVE  /\ SubSeq(m, 1, n) \in Seq(Slot)
         /\ Len(SubSeq(m, 1, n)) = n
         /\ \A j \in 1 .. n : SubSeq(m, 1, n)[j] = m[j]
<1>1. \A j \in 1 .. n : m[j] \in Slot
  OBVIOUS
<1> QED
  BY <1>1, SubSeqProperties

\* Blocks that agree on the first n slots hold the same items.
LEMMA PrefixSame ==
  ASSUME NEW m \in Seq(Slot), NEW t \in Seq(Slot), NEW n \in Nat, n <= Len(m), n <= Len(t),
         \A j \in 1 .. n : m[j] = t[j]
  PROVE  SubSeq(m, 1, n) = SubSeq(t, 1, n)
<1> DEFINE a == SubSeq(m, 1, n)
           b == SubSeq(t, 1, n)
<1>1. a \in Seq(Slot) /\ Len(a) = n /\ \A j \in 1 .. n : a[j] = m[j]
  BY PrefixShape
<1>2. b \in Seq(Slot) /\ Len(b) = n /\ \A j \in 1 .. n : b[j] = t[j]
  BY PrefixShape
<1> HIDE DEF a, b
<1>3. \A j \in 1 .. Len(a) : a[j] = b[j]
  BY <1>1, <1>2
<1>4. a = b
  BY <1>1, <1>2, <1>3, SeqEqual
<1> QED
  BY <1>4 DEF a, b

\* t is s with xs after its first k elements, said element by element.
InsertedIn(t, s, k, xs) ==
  /\ Len(t) = Len(s) + Len(xs)
  /\ \A j \in 1 .. k : t[j] = s[j]
  /\ \A j \in 1 .. Len(xs) : t[k + j] = xs[j]
  /\ \A j \in k + 1 .. Len(s) : t[j + Len(xs)] = s[j]

LEMMA InsertedIs ==
  ASSUME NEW s \in Seq(Slot), NEW xs \in Seq(Slot), NEW t \in Seq(Slot), NEW k \in 0 .. Len(s),
         InsertedIn(t, s, k, xs)
  PROVE  t = SubSeq(s, 1, k) \o xs \o SubSeq(s, k + 1, Len(s))
<1>0. /\ Len(t) = Len(s) + Len(xs)
      /\ \A j \in 1 .. k : t[j] = s[j]
      /\ \A j \in 1 .. Len(xs) : t[k + j] = xs[j]
      /\ \A j \in k + 1 .. Len(s) : t[j + Len(xs)] = s[j]
  BY DEF InsertedIn
<1> DEFINE a == SubSeq(s, 1, k)
           b == SubSeq(s, k + 1, Len(s))
           c == a \o xs
           u == c \o b
<1>1. /\ a \in Seq(Slot) /\ Len(a) = k
      /\ \A j \in 1 .. k : a[j] = s[j]
  BY PrefixShape
<1>2. /\ b \in Seq(Slot) /\ Len(b) = Len(s) - k
      /\ \A j \in 1 .. Len(s) - k : b[j] = s[k + j]
  <2>1. \A j \in k + 1 .. Len(s) : s[j] \in Slot
    OBVIOUS
  <2>2. /\ b \in Seq(Slot) /\ Len(b) = IF k + 1 <= Len(s) THEN Len(s) - (k + 1) + 1 ELSE 0
        /\ \A j \in 1 .. Len(s) - (k + 1) + 1 : b[j] = s[(k + 1) + j - 1]
    BY <2>1, SubSeqProperties
  <2> HIDE DEF b
  <2> QED
    BY <2>2
<1> HIDE DEF a, b
<1>3. /\ a \o xs \in Seq(Slot) /\ Len(a \o xs) = k + Len(xs)
      /\ \A j \in 1 .. k + Len(xs) : (a \o xs)[j] = IF j <= k THEN a[j] ELSE xs[j - k]
  BY <1>1, ConcatProperties
<1>c. c \in Seq(Slot) /\ Len(c) = k + Len(xs)
  BY <1>3
<1> HIDE DEF c
<1>4. /\ c \o b \in Seq(Slot) /\ Len(c \o b) = Len(c) + Len(b)
      /\ \A j \in 1 .. Len(c) + Len(b) : (c \o b)[j] = IF j <= Len(c) THEN c[j] ELSE b[j - Len(c)]
  <2>1. b \in Seq(Slot) /\ c \in Seq(Slot)
    BY <1>2, <1>c
  <2> QED
    BY ONLY <2>1, ConcatProperties, Zenon
<1>5. ASSUME NEW j \in 1 .. Len(t) PROVE t[j] = u[j]
  <2>a. Len(c) = k + Len(xs) /\ Len(b) = Len(s) - k
    BY <1>2, <1>c
  <2>b. u[j] = IF j <= Len(c) THEN c[j] ELSE b[j - Len(c)]
    BY <1>0, <1>4, <2>a
  <2> HIDE DEF u
  <2>1. CASE j <= k
    BY <1>0, <1>1, <1>3, <2>1, <2>a, <2>b DEF c
  <2>2. CASE j > k /\ j <= k + Len(xs)
    <3>1. j - k \in 1 .. Len(xs) /\ j = k + (j - k) /\ j \in 1 .. k + Len(xs)
      BY <2>2
    <3>2. u[j] = xs[j - k]
      BY <1>3, <2>2, <2>a, <2>b, <3>1 DEF c
    <3> QED
      BY <1>0, <3>1, <3>2
  <2>3. CASE j > k + Len(xs)
    <3> DEFINE h == (j - Len(xs)) - k
    <3>1. /\ h \in 1 .. Len(s) - k /\ k + h \in k + 1 .. Len(s)
          /\ j = (k + h) + Len(xs) /\ j - Len(c) = h /\ ~(j <= Len(c))
      BY <1>0, <2>3, <2>a
    <3> HIDE DEF h
    <3>2. u[j] = b[h]
      BY <2>b, <3>1
    <3>3. b[h] = s[k + h]
      BY <1>2, <3>1
    <3>4. t[(k + h) + Len(xs)] = s[k + h]
      BY <1>0, <3>1
    <3> QED
      BY <3>1, <3>2, <3>3, <3>4
  <2> QED
    BY <2>1, <2>2, <2>3
<1>6. t = u
  <2>1. u \in Seq(Slot) /\ Len(u) = Len(t)
    BY <1>0, <1>2, <1>c, <1>4
  <2> HIDE DEF u
  <2> QED
    BY <1>5, <2>1, SeqEqual
<1> QED
  BY <1>6 DEF a, b, c, u

LEMMA ItemsShape ==
  ASSUME Inv
  PROVE  /\ Items \in Seq(Slot)
         /\ data = "live" /\ width = 1 =>
              /\ size <= Len(mem) /\ Len(Items) = size
              /\ \A j \in 1 .. size : Items[j] = mem[j]
         /\ ~(data = "live" /\ width = 1) => Items = <<>>
<1>1. CASE data = "live" /\ width = 1
  <2>1. mem \in Seq(Slot) /\ size \in Nat /\ size <= Len(mem)
    BY <1>1 DEF Inv, TypeOK, Slot
  <2> QED
    BY <1>1, <2>1, PrefixShape DEF Items
<1>2. CASE ~(data = "live" /\ width = 1)
  BY <1>2 DEF Items
<1> QED
  BY <1>1, <1>2

\* Where nothing is trusted any more, and where the sequence stays, every step maps.
LEMMA TornMaps == ASSUME torn \/ UNCHANGED <<Items, torn>> PROVE Mapped
  BY DEF Mapped, Abstract!Next

LEMMA LoseMaps == ASSUME Items' = <<>>, UNCHANGED torn PROVE Mapped
  BY DEF Mapped, Abstract!Next, Abstract!Keep, Abstract!Lose

LEMMA BreakMaps == ASSUME torn' PROVE Mapped
  BY DEF Mapped, Abstract!Next, Abstract!Break

\* The ways to fail leave the sequence alone, or lose it.
LEMMA UndefinedMaps == ASSUME Undefined PROVE Mapped
<1>1. UNCHANGED <<Items, torn>>
  BY DEF Undefined, fields, Items
<1> QED
  BY <1>1, TornMaps

LEMMA ReleasedMaps == ASSUME Released, UNCHANGED torn PROVE Mapped
<1>1. Items' = <<>>
  BY DEF Released, Items
<1> QED
  BY <1>1, LoseMaps

LEMMA ExtendFailsMaps == ASSUME NEW l, ExtendFails(l) PROVE Mapped
<1>1. CASE Refused /\ Sound
  <2>1. UNCHANGED <<Items, torn>>
    BY <1>1 DEF Refused, Sound, fields, Items
  <2> QED
    BY <2>1, TornMaps
<1> QED
  BY <1>1, UndefinedMaps, ReleasedMaps DEF ExtendFails, Sound

LEMMA NoRoomMaps == ASSUME NEW l, NoRoom(l) PROVE Mapped
  BY UndefinedMaps, ExtendFailsMaps DEF NoRoom

\* Room keeps the items, and a vector that has an element size then has a block.
LEMMA RoomItems ==
  ASSUME Inv, NEW l \in Nat \ {0}, MakeRoom(l), width = 1
  PROVE  /\ data = "live" /\ data' = "live"
         /\ \A j \in 1 .. size : Room(l)[j] = mem[j]
<1>1. data = "live" /\ data' = "live"
  BY DEF MakeRoom, Dangling, Extends, Inv, Consistent, TypeOK
<1>t. mem \in Seq(Slot) /\ size \in Nat /\ alloc \in Nat /\ Len(mem) = alloc /\ size <= alloc
  BY <1>1 DEF Inv, TypeOK, Slot
<1>2. \A j \in 1 .. size : j \in DOMAIN mem
  BY <1>t
<1>3. CASE HasRoom(l)
  BY <1>3, <1>1 DEF Room
<1>4. CASE ~HasRoom(l)
  <2>1. More(l) \in Nat
    BY <1>4, <1>t DEF More, Grown, Larger, HasRoom
  <2>2. \A j \in DOMAIN mem : Extended(More(l))[j] = mem[j]
    BY <1>t, <2>1, ExtendedShape
  <2> QED
    BY <1>4, <1>1, <1>2, <2>2 DEF Room
<1> QED
  BY <1>3, <1>4

\* A batch stored after the first k items, the others moved out of its way.
LEMMA StoreMaps ==
  ASSUME Inv, NEW k \in 0 .. size, NEW xs \in Batches, NEW m \in Seq(Slot),
         MakeRoom(Len(xs)), UNCHANGED <<width, torn>>,
         Len(m) = Len(Room(Len(xs))),
         \A j \in 1 .. k : m[j] = Room(Len(xs))[j],
         \A j \in k + 1 .. size : width = 1 => m[j + Len(xs)] = Room(Len(xs))[j],
         size' = size + Len(xs), mem' = Stored(m, k, xs)
  PROVE  Mapped
<1> DEFINE l == Len(xs)
<1>1. xs \in Seq(Values) /\ xs \in Seq(Slot) /\ l \in Nat \ {0}
  BY BatchShape DEF Slot
<1>2. size \in Nat /\ width \in {0, 1} /\ k \in Nat /\ k <= size
  BY DEF Inv, TypeOK
<1>3. CASE width = 0
  <2>1. UNCHANGED <<Items, torn>>
    BY <1>3 DEF Items
  <2> QED
    BY <2>1, TornMaps
<1>4. CASE width = 1
  <2>1. /\ data = "live" /\ data' = "live"
        /\ \A j \in 1 .. size : Room(l)[j] = mem[j]
    BY <1>1, <1>4, RoomItems
  <2>2. Len(m) = alloc' /\ size + l <= alloc' /\ alloc' \in Nat
    BY <1>1, <1>4, RoomMade
  <2>3. mem' \in Seq(Slot) /\ Len(mem') = Len(m) /\ \A j \in DOMAIN m : j > k + l => mem'[j] = m[j]
    BY <1>1, <1>2, StoredShape
  <2>4. \A j \in DOMAIN m : mem'[j] = IF j \in k + 1 .. k + l THEN xs[j - k] ELSE m[j]
    BY DEF Stored
  <2>5. /\ Items' \in Seq(Slot) /\ Len(Items') = size + l
        /\ \A j \in 1 .. size + l : Items'[j] = mem'[j]
    <3>1. Items' = SubSeq(mem', 1, size + l)
      BY <1>4, <2>1 DEF Items
    <3>2. size + l \in Nat /\ size + l <= Len(mem')
      BY <1>1, <1>2, <2>2, <2>3
    <3> QED
      BY <2>3, <3>1, <3>2, PrefixShape
  <2>6. /\ Items \in Seq(Slot) /\ Len(Items) = size
        /\ \A j \in 1 .. size : Items[j] = mem[j]
    BY <1>4, <2>1, ItemsShape
  <2>7. 1 .. size + l \subseteq DOMAIN m
    BY <1>1, <1>2, <2>2
  <2>8. ASSUME NEW j \in 1 .. k PROVE Items'[j] = Items[j]
    <3>1. j \in DOMAIN m /\ j \in 1 .. size /\ j \in 1 .. size + l /\ j \notin k + 1 .. k + l
      BY <1>1, <1>2, <2>7
    <3> QED
      BY <2>1, <2>4, <2>5, <2>6, <3>1
  <2>9. ASSUME NEW j \in 1 .. l PROVE Items'[k + j] = xs[j]
    <3>1. /\ k + j \in DOMAIN m /\ k + j \in 1 .. size + l /\ k + j \in k + 1 .. k + l
          /\ (k + j) - k = j
      BY <1>1, <1>2, <2>7
    <3> QED
      BY <2>4, <2>5, <3>1
  <2>10. ASSUME NEW j \in k + 1 .. size PROVE Items'[j + l] = Items[j]
    <3>1. /\ j + l \in DOMAIN m /\ j + l \in 1 .. size + l /\ j + l \notin k + 1 .. k + l
          /\ j \in 1 .. size
      BY <1>1, <1>2, <2>7
    <3>2. m[j + l] = Room(l)[j]
      BY <1>4
    <3> QED
      BY <2>1, <2>4, <2>5, <2>6, <3>1, <3>2
  <2>11. Items' = SubSeq(Items, 1, k) \o xs \o SubSeq(Items, k + 1, Len(Items))
    <3>1. k \in 0 .. Len(Items) /\ Len(Items') = Len(Items) + Len(xs)
      BY <1>2, <2>5, <2>6
    <3>2. Items \in Seq(Slot) /\ xs \in Seq(Slot) /\ Items' \in Seq(Slot)
      BY <1>1, <2>5, <2>6
    <3>3. InsertedIn(Items', Items, k, xs)
      BY <2>6, <2>8, <2>9, <2>10, <3>1 DEF InsertedIn
    <3> QED
      BY ONLY <3>1, <3>2, <3>3, InsertedIs, Zenon
  <2>12. xs \in Abstract!Batches /\ k \in 0 .. Len(Items)
    BY <1>2, <2>6 DEF Batches, Abstract!Batches
  <2>13. Abstract!Insert
    BY <2>11, <2>12 DEF Abstract!Insert
  <2> QED
    BY <2>13 DEF Mapped, Abstract!Next, Abstract!Keep
<1> QED
  BY <1>2, <1>3, <1>4

LEMMA CreateMaps == ASSUME Inv, NEW l, Create(l) PROVE Mapped
<1>1. Items' = <<>>
  <2>1. CASE size' = 0
    <3>1. SubSeq(mem', 1, 0) = <<>>
      BY SubSeqEmpty
    <3> QED
      BY <2>1, <3>1 DEF Items
  <2>2. size' = 0
    BY DEF Create
  <2> QED
    BY <2>1, <2>2
<1> QED
  BY <1>1, LoseMaps DEF Create, Sound

LEMMA PushMaps == ASSUME Inv, NEW xs \in Batches, Push(xs) PROVE Mapped
<1>1. CASE NoRoom(Len(xs))
  BY <1>1, NoRoomMaps
<1>2. CASE /\ MakeRoom(Len(xs))
           /\ size' = size + Len(xs) /\ mem' = Stored(Room(Len(xs)), size, xs)
           /\ UNCHANGED width /\ Sound
  <2>1. size \in 0 .. size /\ \A j \in size + 1 .. size : FALSE
    BY DEF Inv, TypeOK
  <2>2. Len(xs) \in Nat \ {0}
    BY BatchShape
  <2>3. Room(Len(xs)) \in Seq(Slot)
    BY <1>2, <2>2, RoomMade
  <2>4. UNCHANGED <<width, torn>>
    BY <1>2 DEF Sound
  <2> QED
    BY <1>2, <2>1, <2>3, <2>4, StoreMaps
<1> QED
  BY <1>1, <1>2 DEF Push

LEMMA InsertMaps == ASSUME Inv, NEW k \in 0 .. size, NEW xs \in Batches, Insert(k, xs) PROVE Mapped
<1> DEFINE l == Len(xs)
           r == Room(l)
<1>1. CASE NoRoom(l)
  BY <1>1, NoRoomMaps
<1>2. CASE /\ MakeRoom(l)
           /\ size' = size + l /\ mem' = Stored(Moved(r, k, l), k, xs)
           /\ torn' = (torn \/ Shift(k, l) = 1)
           /\ UNCHANGED width
  <2>t. size \in Nat /\ width \in {0, 1} /\ k \in Nat /\ k <= size /\ torn \in BOOLEAN
    BY DEF Inv, TypeOK
  <2>1. l \in Nat \ {0}
    BY BatchShape
  <2>2. r \in Seq(Slot) /\ alloc' \in Nat /\ size + l <= alloc' /\ (width = 1 => Len(r) = alloc')
    BY <1>2, <2>1, RoomMade
  <2>3. CASE Shift(k, l) = 1
    BY <1>2, <2>3, BreakMaps
  <2>4. CASE Shift(k, l) = 0
    <3>1. Moved(r, k, l) \in Seq(Slot) /\ Len(Moved(r, k, l)) = Len(r)
      BY <2>t, <2>1, <2>2, MovedShape
    <3> HIDE DEF l, r
    <3>2. \A j \in DOMAIN r : Moved(r, k, l)[j] = IF j \in k + l + 1 .. size + l THEN r[j - l] ELSE r[j]
      BY <2>4, <2>2 DEF Moved
    <3>3. DOMAIN Moved(r, k, l) = DOMAIN r /\ DOMAIN r = 1 .. Len(r)
      BY <2>2, <3>1
    <3>4. ASSUME NEW j \in 1 .. k PROVE Moved(r, k, l)[j] = r[j]
      <4>1. CASE j \in DOMAIN r
        BY <2>t, <2>1, <3>2, <4>1
      <4>2. CASE j \notin DOMAIN r
        <5>1. width = 0 /\ r = <<>>
          BY <1>2, <2>t, <2>1, <2>2, <3>3, <4>2, RoomMade DEF r
        <5>2. Moved(r, k, l) = r
          BY <5>1 DEF Moved
        <5> QED
          BY <5>2
      <4> QED
        BY <4>1, <4>2
    <3>5. ASSUME NEW j \in k + 1 .. size, width = 1 PROVE Moved(r, k, l)[j + l] = r[j]
      <4>1. j + l \in DOMAIN r /\ j + l \in k + l + 1 .. size + l /\ (j + l) - l = j
        BY <2>t, <2>1, <2>2, <3>3, <3>5
      <4> QED
        BY <3>2, <4>1
    <3>6. UNCHANGED <<width, torn>>
      BY <1>2, <2>t, <2>4
    <3> QED
      BY <1>2, <3>1, <3>4, <3>5, <3>6, StoreMaps DEF l, r
  <2> QED
    BY <2>3, <2>4 DEF Shift
<1> QED
  BY <1>1, <1>2 DEF Insert

LEMMA ReserveMaps == ASSUME Inv, NEW l \in 1 .. MaxSlots, Reserve(l) PROVE Mapped
<1>1. CASE ExtendFails(l)
  BY <1>1, ExtendFailsMaps
<1>2. CASE /\ Extends(l)
           /\ data' = "live" /\ mem' = Extended(l)
           /\ UNCHANGED <<size, width>> /\ Sound
  <2>1. CASE width = 0
    <3>1. UNCHANGED <<Items, torn>>
      BY <1>2, <2>1 DEF Items, Sound
    <3> QED
      BY <3>1, TornMaps
  <2>2. CASE width = 1
    <3>1. data = "live"
      BY <1>2, <2>2 DEF Extends, Inv, Consistent
    <3>2. mem \in Seq(Slot) /\ size \in Nat /\ size <= Len(mem) /\ l \in Nat
      BY <2>2, <3>1, BatchAssumption DEF Inv, TypeOK, Slot
    <3>3. Len(Extended(l)) \in Nat /\ size <= Len(Extended(l)) /\ Extended(l) \in Seq(Slot)
          /\ \A j \in DOMAIN mem : Extended(l)[j] = mem[j]
      <4>1. /\ Extended(l) \in Seq(Slot) /\ Len(Extended(l)) = Len(mem) + l * width
            /\ \A j \in DOMAIN mem : Extended(l)[j] = mem[j]
        BY <2>2, <3>2, ExtendedShape
      <4> QED
        BY <2>2, <3>2, <4>1
    <3>4. SubSeq(Extended(l), 1, size) = SubSeq(mem, 1, size)
      <4>1. \A j \in 1 .. size : Extended(l)[j] = mem[j]
        BY <3>2, <3>3
      <4> QED
        BY <3>2, <3>3, <4>1, PrefixSame
    <3>5. UNCHANGED <<Items, torn>>
      BY <1>2, <2>2, <3>1, <3>4 DEF Items, Sound
    <3> QED
      BY <3>5, TornMaps
  <2> QED
    BY <2>1, <2>2 DEF Inv, TypeOK
<1> QED
  BY <1>1, <1>2 DEF Reserve

LEMMA PopMaps == ASSUME Inv, Pop PROVE Mapped
<1>1. CASE Dangling
  BY <1>1, UndefinedMaps DEF Pop
<1>2. CASE ~Dangling
  <2>1. /\ size' = size - 1 /\ mem' = Cleared(size, size)
        /\ UNCHANGED <<width, data>> /\ UNCHANGED torn
    BY <1>2 DEF Pop, Sound
  <2>2. CASE ~(data = "live" /\ width = 1)
    <3>1. Items' = <<>>
      BY <2>1, <2>2 DEF Items
    <3> QED
      BY <2>1, <3>1, LoseMaps
  <2>3. CASE data = "live" /\ width = 1
    <3>1. mem \in Seq(Slot) /\ size \in Nat \ {0} /\ size <= Len(mem)
      BY <2>3 DEF Pop, Inv, TypeOK, Slot
    <3>2. /\ mem' \in Seq(Slot) /\ Len(mem') = Len(mem)
          /\ \A j \in DOMAIN mem : mem'[j] = IF j \in size .. size THEN Zero ELSE mem[j]
      BY <2>1, <3>1, ClearedShape
    <3>3. /\ Items \in Seq(Slot) /\ Len(Items) = size
          /\ \A j \in 1 .. size : Items[j] = mem[j]
      BY <2>3, ItemsShape
    <3>4. \A j \in 1 .. size - 1 : mem'[j] = Items[j]
      BY <3>1, <3>2, <3>3
    <3>5. SubSeq(mem', 1, size - 1) = SubSeq(Items, 1, size - 1)
      BY <3>1, <3>2, <3>3, <3>4, PrefixSame
    <3>6. Items' = SubSeq(mem', 1, size - 1)
      BY <2>1, <2>3 DEF Items
    <3>7. Items # <<>>
      BY <3>1, <3>3
    <3> QED
      BY <2>1, <3>3, <3>5, <3>6, <3>7
      DEF Mapped, Abstract!Next, Abstract!Keep, Abstract!DropLast
  <2> QED
    BY <2>2, <2>3
<1> QED
  BY <1>1, <1>2

LEMMA ClearMaps == ASSUME Inv, Clear PROVE Mapped
<1>1. CASE Dangling /\ size > 0
  BY <1>1, UndefinedMaps DEF Clear
<1>2. CASE ~(Dangling /\ size > 0)
  <2>1. size' = 0 /\ UNCHANGED torn
    BY <1>2 DEF Clear, Sound
  <2>2. SubSeq(mem', 1, 0) = <<>>
    BY SubSeqEmpty
  <2>3. Items' = <<>>
    BY <2>1, <2>2 DEF Items
  <2> QED
    BY <2>1, <2>3, LoseMaps
<1> QED
  BY <1>1, <1>2

LEMMA RevMaps == ASSUME Inv, Rev PROVE Mapped
<1>1. CASE Dangling
  BY <1>1, UndefinedMaps DEF Rev
<1>2. CASE ~Dangling
  <2>1. mem' = Turned(mem) /\ UNCHANGED <<size, width, data>> /\ UNCHANGED torn
    BY <1>2 DEF Rev, Sound
  <2>2. CASE ~(data = "live" /\ width = 1)
    <3>1. UNCHANGED <<Items, torn>>
      BY <2>1, <2>2 DEF Items
    <3> QED
      BY <3>1, TornMaps
  <2>3. CASE data = "live" /\ width = 1
    <3>1. mem \in Seq(Slot) /\ size \in Nat /\ size <= Len(mem)
      BY <2>3 DEF Inv, TypeOK, Slot
    <3>2. mem' \in Seq(Slot) /\ Len(mem') = Len(mem)
      BY <2>1, <3>1, TurnedShape
    <3>3. \A j \in 1 .. size : mem'[j] = mem[size + 1 - j]
      BY <2>1, <3>1 DEF Turned
    <3>4. /\ Items \in Seq(Slot) /\ Len(Items) = size
          /\ \A j \in 1 .. size : Items[j] = mem[j]
      BY <2>3, ItemsShape
    <3>5. /\ Items' \in Seq(Slot) /\ Len(Items') = size
          /\ \A j \in 1 .. size : Items'[j] = mem'[j]
      <4>1. Items' = SubSeq(mem', 1, size)
        BY <2>1, <2>3 DEF Items
      <4> QED
        BY <3>1, <3>2, <4>1, PrefixShape
    <3> DEFINE r == Reverse(Items)
    <3>6. r \in Seq(Slot) /\ Len(r) = size /\ \A j \in 1 .. size : r[j] = Items[size - j + 1]
      <4>1. r = [j \in 1 .. size |-> Items[(size - j) + 1]]
        BY <3>4 DEF Reverse
      <4>2. \A j \in 1 .. size : (size - j) + 1 \in 1 .. size
        BY <3>1
      <4>3. r \in [1 .. size -> Slot]
        BY <3>4, <4>1, <4>2
      <4> HIDE DEF r
      <4> QED
        BY <3>1, <4>1, <4>3
    <3> HIDE DEF r
    <3>7. ASSUME NEW j \in 1 .. size PROVE Items'[j] = r[j]
      <4> DEFINE i == size - j + 1
      <4>1. i = size + 1 - j /\ i \in 1 .. size
        BY <3>1
      <4>2. Items'[j] = mem[i]
        BY <3>3, <3>5, <4>1
      <4> HIDE DEF i
      <4>3. Items[i] = mem[i]
        BY <3>4, <4>1
      <4>4. r[j] = Items[i]
        BY <3>6 DEF i
      <4> QED
        BY <4>2, <4>3, <4>4
    <3>8. Items' = r
      BY <3>5, <3>6, <3>7, SeqEqual
    <3> QED
      BY <2>1, <3>8
      DEF r, Mapped, Abstract!Next, Abstract!Keep, Abstract!Turn, Abstract!Reverse, Reverse
  <2> QED
    BY <2>2, <2>3
<1> QED
  BY <1>1, <1>2

LEMMA FitMaps == ASSUME Inv, Fit PROVE Mapped
<1>1. CASE Undefined
  BY <1>1, UndefinedMaps
<1>2. CASE Released /\ UNCHANGED torn
  BY <1>2, ReleasedMaps
<1>3. CASE /\ data # "freed" /\ width > 0
           /\ mem' = SubSeq(mem, 1, size)
           /\ UNCHANGED <<size, width, data>> /\ Sound
  <2>1. data = "live" /\ width = 1
    BY <1>3 DEF Fit, Inv, TypeOK, Consistent
  <2>2. mem \in Seq(Slot) /\ size \in Nat /\ size <= Len(mem)
    BY <2>1 DEF Inv, TypeOK, Slot
  <2>3. mem' \in Seq(Slot) /\ Len(mem') = size /\ \A j \in 1 .. size : mem'[j] = mem[j]
    BY <1>3, <2>2, PrefixShape
  <2>4. SubSeq(mem', 1, size) = SubSeq(mem, 1, size)
    BY <2>2, <2>3, PrefixSame
  <2>5. UNCHANGED <<Items, torn>>
    BY <1>3, <2>1, <2>4 DEF Items, Sound
  <2> QED
    BY <2>5, TornMaps
<1> QED
  BY <1>1, <1>2, <1>3 DEF Fit

LEMMA FreeMaps == ASSUME Inv, Free PROVE Mapped
<1>1. CASE Undefined
  BY <1>1, UndefinedMaps
<1>2. CASE data' = "null" /\ Sound
  <2>1. Items' = <<>>
    BY <1>2 DEF Items
  <2> QED
    BY <1>2, <2>1, LoseMaps DEF Sound
<1> QED
  BY <1>1, <1>2 DEF Free

\* Every step of the vector is one of the sequence, or none.
LEMMA StepMaps == Inv /\ [Next]_vars => [Abstract!Next]_<<Items, ~torn>>
<1> SUFFICES ASSUME Inv, [Next]_vars PROVE Mapped
  BY DEF Mapped
<1>1. CASE UNCHANGED vars
  <2>1. UNCHANGED <<Items, torn>>
    BY <1>1 DEF vars, fields, Items
  <2> QED
    BY <2>1, TornMaps
<1>2. CASE Next
  BY <1>2, CreateMaps, ReserveMaps, PushMaps, InsertMaps, PopMaps, ClearMaps, RevMaps,
     FitMaps, FreeMaps DEF Next
<1> QED
  BY <1>1, <1>2

\* However calls and refusals of memory follow each other, the vector is the
\* sequence it promises, until an insert has moved a tail over itself.
THEOREM ImplementsSequence == Spec => SequenceSpec
<1>1. Init => Abstract!Init
  BY DEF Init, Items, Abstract!Init
<1> QED
  BY <1>1, AlwaysInv, StepMaps, PTL DEF Spec, SequenceSpec, Abstract!Spec

-----------------------------------------------------------------------------
(* lv_arena.                                                               *)

\* Every grant of an arena ends where its offset is, or before.
Behind ==
  \A g \in grants :
    /\ g.pool \in 1 .. Len(chain) /\ Header <= g.from /\ g.from <= g.to
    /\ g.to <= chain[g.pool].offset + Header

ArenaInv == ArenaTypeOK /\ Behind /\ GrantsApart /\ ArenaAccounts

LEMMA PaddingRange ==
  ASSUME NEW x \in Int
  PROVE  Padding(x) \in 0 .. Align - 1
BY AlignAssumption DEF Padding

\* Twice the request, or the default, holds the request and its padding.
LEMMA PoolHolds ==
  ASSUME NEW asked \in Nat \ {0}, NEW pad \in 0 .. Align - 1
  PROVE  PoolSize(asked) \in Nat /\ pad + asked <= PoolSize(asked)
BY AlignAssumption, PoolAssumption DEF PoolSize

LEMMA Fields ==
  ASSUME NEW s \in Seq(ArenaType), NEW i \in 1 .. Len(s)
  PROVE  s[i] \in ArenaType /\ s[i].offset \in Nat /\ s[i].size \in Nat /\ s[i].lead \in Nat
<1>1. s[i] \in ArenaType
  OBVIOUS
<1> QED
  BY <1>1 DEF ArenaType

LEMMA ServedShape ==
  ASSUME NEW a \in ArenaType, NEW asked \in Nat \ {0}, NEW i \in Nat \ {0}
  PROVE  /\ Served(a, asked).size = a.size
         /\ Served(a, asked).offset \in Nat
         /\ Served(a, asked).offset <= a.size <=> Fits(a, asked)
         /\ Served(a, asked).offset >= a.offset
         /\ Served(a, asked) \in ArenaType
         /\ Grant(i, a, asked) \in GrantType
         /\ Grant(i, a, asked).pool = i
         /\ a.offset + Header <= Grant(i, a, asked).from
         /\ Grant(i, a, asked).from <= Grant(i, a, asked).to
         /\ Grant(i, a, asked).to = Served(a, asked).offset + Header
<1> DEFINE p == Padding(a.offset + Header)
<1>1. a.offset \in Nat /\ a.size \in Nat /\ a.lead \in Nat /\ Header \in Nat
  BY AlignAssumption DEF ArenaType
<1>2. p \in Nat
  BY <1>1, PaddingRange, AlignAssumption
<1> HIDE DEF p
<1>3. Served(a, asked) = [size |-> a.size, offset |-> a.offset + p + asked, lead |-> a.lead]
  BY DEF Served, p, ArenaType
<1>4. Grant(i, a, asked) = [pool |-> i, from |-> a.offset + Header + p, to |-> a.offset + Header + p + asked]
  BY DEF Grant, Start, p
<1>5. Fits(a, asked) <=> a.offset + p + asked <= a.size
  BY DEF Fits, p
<1> QED
  BY <1>1, <1>2, <1>3, <1>4, <1>5 DEF ArenaType, GrantType

LEMMA NewShape ==
  ASSUME NEW asked \in Nat \ {0}, NEW tab \in Nat
  PROVE  /\ NewArena(asked, tab) \in ArenaType
         /\ NewArena(asked, tab).offset = 0
         /\ Fits(NewArena(asked, tab), asked)
<1>1. Header \in Nat
  BY AlignAssumption
<1>2. /\ Padding(tab + Header) \in 0 .. Align - 1
      /\ Padding(0 + Header) \in 0 .. Align - 1
  BY <1>1, PaddingRange
<1>3. PoolSize(asked) \in Nat /\ Padding(0 + Header) + asked <= PoolSize(asked)
  BY <1>2, PoolHolds
<1>4. Aligned(tab) - tab \in Nat
  BY <1>1, <1>2, AlignAssumption DEF Aligned
<1>5. NewArena(asked, tab) = [size |-> PoolSize(asked), offset |-> 0, lead |-> Aligned(tab) - tab]
  BY DEF NewArena
<1>6. Fits(NewArena(asked, tab), asked)
  BY <1>2, <1>3, <1>5, AlignAssumption DEF Fits
<1> QED
  BY <1>3, <1>4, <1>5, <1>6 DEF ArenaType

LEMMA ArenaInitial == ArenaInit => ArenaInv
<1> SUFFICES ASSUME ArenaInit PROVE ArenaInv
  OBVIOUS
<1>1. ArenaTypeOK
  <2>1. chain \in Seq(ArenaType) /\ 1 .. Len(chain) = {}
    BY DEF ArenaInit
  <2>2. grants \in SUBSET GrantType
    BY DEF ArenaInit
  <2>3. structs \in Int /\ pools \in Int /\ refusals \in Nat
    BY DEF ArenaInit
  <2>4. stored \in BOOLEAN
    BY DEF ArenaInit
  <2> QED
    BY <2>1, <2>2, <2>3, <2>4 DEF ArenaTypeOK
<1>2. Behind /\ GrantsApart
  BY DEF ArenaInit, Behind, GrantsApart
<1>3. ArenaAccounts
  <2>1. ~stored
    BY DEF ArenaInit
  <2>2. structs = 0 /\ pools = 0 /\ refusals = 0
    BY DEF ArenaInit
  <2>3. Live = 0
    BY <2>1 DEF Live
  <2> QED
    BY <2>2, <2>3 DEF ArenaAccounts
<1> QED
  BY <1>1, <1>2, <1>3 DEF ArenaInv

-----------------------------------------------------------------------------
(* One request served.                                                     *)

\* A grant that begins where its arena's grants end keeps everything apart.
LEMMA GrantAdded ==
  ASSUME Behind, GrantsApart, ArenaTypeOK, ArenaTypeOK',
         NEW g \in GrantType, grants' = grants \union {g},
         Len(chain') >= Len(chain), g.pool \in 1 .. Len(chain'),
         Header <= g.from, g.from <= g.to, g.to <= chain'[g.pool].offset + Header,
         \A h \in grants : h.pool = g.pool => h.to <= g.from,
         \A i \in 1 .. Len(chain) : chain[i].offset <= chain'[i].offset
  PROVE  Behind' /\ GrantsApart'
<1>h. Header \in Nat
  BY AlignAssumption
<1>1. \A h \in grants : h \in GrantType
  BY DEF ArenaTypeOK
<1>2. Behind'
  <2> SUFFICES ASSUME NEW h \in grants'
               PROVE  /\ h.pool \in 1 .. Len(chain') /\ Header <= h.from /\ h.from <= h.to
                      /\ h.to <= chain'[h.pool].offset + Header
    BY DEF Behind
  <2>1. CASE h = g
    BY <2>1
  <2>2. CASE h \in grants
    <3>1. /\ h.pool \in 1 .. Len(chain) /\ Header <= h.from /\ h.from <= h.to
          /\ h.to <= chain[h.pool].offset + Header
      BY <2>2 DEF Behind
    <3>2. /\ h.to \in Nat
          /\ chain[h.pool].offset \in Nat /\ Len(chain) \in Nat
      BY <2>2, <3>1, <1>1, Fields DEF ArenaTypeOK, GrantType
    <3>3. h.pool \in 1 .. Len(chain') /\ Len(chain') \in Nat
      BY <3>1, <3>2 DEF ArenaTypeOK
    <3>4. chain'[h.pool].offset \in Nat
      BY <3>3, Fields DEF ArenaTypeOK
    <3>5. chain[h.pool].offset <= chain'[h.pool].offset
      BY <3>1
    <3> QED
      BY <3>1, <3>2, <3>3, <3>4, <3>5, <1>h
  <2> QED
    BY <2>1, <2>2
<1>3. GrantsApart'
  BY DEF GrantsApart
<1> QED
  BY <1>2, <1>3

LEMMA HereKeeps ==
  ASSUME ArenaInv, NEW asked \in Requests, ServeHere(asked)
  PROVE  ArenaInv'
<1> DEFINE a == chain[Newest]
           b == Served(a, asked)
           g == Grant(Newest, a, asked)
<1>1. asked \in Nat \ {0} /\ Newest \in Nat \ {0} /\ Newest \in 1 .. Len(chain) /\ a \in ArenaType
  BY RequestAssumption DEF ServeHere, ArenaInv, ArenaTypeOK, Newest
<1>2. /\ b.size = a.size /\ b.offset \in Nat /\ b.offset <= a.size
      /\ b.offset >= a.offset /\ b \in ArenaType
      /\ g \in GrantType /\ g.pool = Newest /\ a.offset + Header <= g.from /\ g.from <= g.to
      /\ g.to = b.offset + Header
  BY <1>1, ServedShape DEF ServeHere
<1>3. chain' = [chain EXCEPT ![Newest] = b] /\ grants' = grants \union {g}
  BY DEF ServeHere
<1> HIDE DEF a, b, g
<1>4. Len(chain') = Len(chain) /\ chain' \in Seq(ArenaType)
  BY <1>1, <1>2, <1>3 DEF ArenaInv, ArenaTypeOK
<1>5. \A i \in 1 .. Len(chain) : chain'[i] = IF i = Newest THEN b ELSE chain[i]
  BY <1>3 DEF ArenaInv, ArenaTypeOK
<1>6. \A i \in 1 .. Len(chain) : chain'[i].offset <= chain'[i].size /\ chain[i].offset <= chain'[i].offset
  <2> SUFFICES ASSUME NEW i \in 1 .. Len(chain)
               PROVE  chain'[i].offset <= chain'[i].size /\ chain[i].offset <= chain'[i].offset
    OBVIOUS
  <2>1. CASE i = Newest
    BY <2>1, <1>2, <1>5 DEF a
  <2>2. CASE i # Newest
    <3>1. chain'[i] = chain[i]
      BY <2>2, <1>5
    <3>2. chain[i] \in ArenaType
      BY DEF ArenaInv, ArenaTypeOK
    <3> QED
      BY <3>1, <3>2 DEF ArenaInv, ArenaTypeOK, ArenaType
  <2> QED
    BY <2>1, <2>2
<1>7. ArenaTypeOK'
  BY <1>2, <1>3, <1>4, <1>6 DEF ArenaInv, ArenaTypeOK, ServeHere
<1>8. \A h \in grants : h.pool = g.pool => h.to <= g.from
  <2> SUFFICES ASSUME NEW h \in grants, h.pool = Newest PROVE h.to <= g.from
    BY <1>2
  <2>1. h.to <= a.offset + Header
    BY DEF ArenaInv, Behind, a
  <2>2. h.to \in Nat /\ a.offset \in Nat /\ g.from \in Nat /\ Header \in Nat
    BY <1>1, <1>2, AlignAssumption DEF ArenaInv, ArenaTypeOK, ArenaType, GrantType
  <2> QED
    BY <2>1, <2>2, <1>2
<1>9. Header <= g.from /\ g.to <= chain'[g.pool].offset + Header
  <2>1. a.offset \in Nat /\ g.from \in Nat /\ Header \in Nat
    BY <1>1, <1>2, AlignAssumption DEF ArenaType, GrantType
  <2>2. chain'[g.pool].offset = b.offset
    BY <1>1, <1>2, <1>5
  <2> QED
    BY <2>1, <2>2, <1>2
<1>10. Behind' /\ GrantsApart'
  <2>1. g.pool \in 1 .. Len(chain') /\ Len(chain') >= Len(chain)
    BY <1>1, <1>2, <1>4
  <2>2. Behind /\ GrantsApart /\ ArenaTypeOK
    BY DEF ArenaInv
  <2> QED
    BY <2>1, <2>2, <1>2, <1>3, <1>6, <1>7, <1>8, <1>9, GrantAdded
<1>11. ArenaAccounts'
  BY <1>4 DEF ArenaInv, ArenaAccounts, Live, ServeHere
<1> QED
  BY <1>7, <1>10, <1>11 DEF ArenaInv

LEMMA NewKeeps ==
  ASSUME ArenaInv, NEW asked \in Requests, ServeNew(asked)
  PROVE  ArenaInv'
<1>1. PICK tab \in Tabs :
        /\ NeedsArena(asked)
        /\ chain' = Append(chain, Served(NewArena(asked, tab), asked))
        /\ grants' = grants \union {Grant(Newest + 1, NewArena(asked, tab), asked)}
        /\ structs' = structs + 1 /\ pools' = pools + 1 /\ stored' = TRUE
        /\ UNCHANGED <<refusals, arenaStatus>>
  BY DEF ServeNew
<1> DEFINE a == NewArena(asked, tab)
           b == Served(a, asked)
           g == Grant(Newest + 1, a, asked)
<1>2. asked \in Nat \ {0} /\ Newest \in Nat /\ Newest = Len(chain) /\ Header \in Nat
  BY RequestAssumption, AlignAssumption DEF ArenaInv, ArenaTypeOK, Newest
<1>3. a \in ArenaType /\ a.offset = 0 /\ Fits(a, asked)
  BY <1>2, NewShape, RequestAssumption
<1>4. /\ b.size = a.size /\ b.offset \in Nat /\ b.offset <= a.size /\ b \in ArenaType
      /\ g \in GrantType /\ g.pool = Newest + 1 /\ a.offset + Header <= g.from /\ g.from <= g.to
      /\ g.to = b.offset + Header
  <2>1. Newest + 1 \in Nat \ {0}
    BY <1>2
  <2> HIDE DEF a
  <2> QED
    BY <2>1, <1>2, <1>3, ServedShape
<1>5. chain' = Append(chain, b) /\ grants' = grants \union {g}
  BY <1>1
<1> HIDE DEF a, b, g
<1>6. /\ Len(chain') = Len(chain) + 1 /\ chain' \in Seq(ArenaType)
      /\ \A i \in 1 .. Len(chain) : chain'[i] = chain[i]
      /\ chain'[Newest + 1] = b
  BY <1>2, <1>4, <1>5 DEF ArenaInv, ArenaTypeOK
<1>7. ArenaTypeOK'
  <2>1. \A i \in 1 .. Len(chain') : chain'[i].offset <= chain'[i].size
    BY <1>2, <1>4, <1>6 DEF ArenaInv, ArenaTypeOK
  <2> QED
    BY <2>1, <1>1, <1>4, <1>5, <1>6 DEF ArenaInv, ArenaTypeOK
<1>8. \A h \in grants : h.pool # g.pool
  BY <1>2, <1>4 DEF ArenaInv, Behind
<1>9. \A i \in 1 .. Len(chain) : chain[i].offset <= chain'[i].offset
  BY <1>6, Fields DEF ArenaInv, ArenaTypeOK
<1>10. Behind' /\ GrantsApart'
  <2>1. g.pool \in 1 .. Len(chain') /\ Len(chain') >= Len(chain)
    BY <1>2, <1>4, <1>6
  <2>2. Header <= g.from /\ g.to <= chain'[g.pool].offset + Header
    BY <1>2, <1>3, <1>4, <1>6
  <2>3. Behind /\ GrantsApart /\ ArenaTypeOK
    BY DEF ArenaInv
  <2> QED
    BY <2>1, <2>2, <2>3, <1>4, <1>5, <1>7, <1>8, <1>9, GrantAdded
<1>11. ArenaAccounts'
  <2>1. chain = <<>> \/ stored
    BY <1>1 DEF NeedsArena
  <2>2. pools = Len(chain) /\ structs - Len(chain) \in 0 .. refusals
    BY <2>1, <1>2 DEF ArenaInv, ArenaAccounts, Live
  <2>3. Live' = Len(chain) + 1
    BY <1>1, <1>6 DEF Live
  <2> QED
    BY <2>2, <2>3, <1>1, <1>2 DEF ArenaInv, ArenaAccounts, ArenaTypeOK
<1> QED
  BY <1>7, <1>10, <1>11 DEF ArenaInv

\* The grants stay apart while nobody touches them.
LEMMA Untouched ==
  ASSUME ArenaInv, UNCHANGED <<chain, grants>>, refusals' \in Nat, stored' \in BOOLEAN,
         structs' \in Int, pools' \in Int, ArenaAccounts'
  PROVE  ArenaInv'
BY DEF ArenaInv, ArenaTypeOK, Behind, GrantsApart

LEMMA ArenaStep == ArenaInv /\ [ArenaNext]_arenaVars => ArenaInv'
<1> SUFFICES ASSUME ArenaInv, [ArenaNext]_arenaVars PROVE ArenaInv'
  OBVIOUS
<1>1. ASSUME NEW asked \in Requests, ServeHere(asked) PROVE ArenaInv'
  BY <1>1, HereKeeps
<1>2. ASSUME NEW asked \in Requests, ServeNew(asked) PROVE ArenaInv'
  BY <1>2, NewKeeps
<1>3. ASSUME NEW asked \in Requests, ServeRefused(asked) PROVE ArenaInv'
  <2>1. UNCHANGED <<chain, grants>> /\ refusals' = refusals + 1 /\ structs' \in {structs, structs + 1}
        /\ UNCHANGED <<pools, stored>>
    BY <1>3 DEF ServeRefused
  <2> QED
    <3>t. structs \in Int /\ refusals \in Nat /\ Len(chain) \in Nat
      BY DEF ArenaInv, ArenaTypeOK
    <3>l. Live' = Live
      BY <2>1 DEF Live
    <3>a. Live \in Nat
      BY <3>t DEF Live
    <3>d. pools = Live /\ structs - Live \in 0 .. refusals
      BY DEF ArenaInv, ArenaAccounts
    <3>p. pools' = Live'
      BY <2>1, <3>d, <3>l
    <3>s. structs' - Live' \in 0 .. refusals'
      <4>1. CASE structs' = structs
        BY <4>1, <2>1, <3>t, <3>l, <3>a, <3>d
      <4>2. CASE structs' = structs + 1
        BY <4>2, <2>1, <3>t, <3>l, <3>a, <3>d
      <4> QED
        BY <2>1, <4>1, <4>2
    <3>1. ArenaAccounts'
      BY <3>p, <3>s DEF ArenaAccounts
    <3>2. refusals' \in Nat /\ stored' \in BOOLEAN /\ structs' \in Int /\ pools' \in Int
      BY <2>1 DEF ArenaInv, ArenaTypeOK
    <3> QED
      BY <2>1, <3>1, <3>2, Untouched
<1>4. CASE ServeFreed
  BY <1>4 DEF ServeFreed, ArenaInv, ArenaTypeOK, Behind, GrantsApart, ArenaAccounts, Live
<1>5. CASE FreeArena \/ Exit
  <2>1. Release /\ UNCHANGED <<chain, grants, refusals>>
    BY <1>5 DEF FreeArena, Exit
  <2> QED
    <3>t. Len(chain) \in Nat
      BY DEF ArenaInv, ArenaTypeOK
    <3>1. ArenaAccounts'
      <4>1. structs \in Int /\ pools \in Int /\ refusals \in Nat
        BY DEF ArenaInv, ArenaTypeOK
      <4>2. ~stored' /\ Live' = 0
        BY <2>1 DEF Release, Live
      <4>3. CASE stored
        <5>1. Live = Len(chain)
          BY <4>3 DEF Live
        <5>2. structs' = structs - Live /\ pools' = pools - Live
          BY <2>1, <4>3, <5>1 DEF Release, FreedArenas
        <5> QED
          BY <2>1, <3>t, <4>1, <4>2, <5>1, <5>2 DEF ArenaInv, ArenaAccounts
      <4>4. CASE ~stored
        <5>1. Live = 0 /\ structs' = structs /\ pools' = pools
          BY <2>1, <4>4 DEF Release, Live
        <5> QED
          BY <2>1, <4>1, <4>2, <5>1 DEF ArenaInv, ArenaAccounts
      <4> QED
        BY <4>3, <4>4
    <3>2. refusals' \in Nat /\ stored' \in BOOLEAN /\ structs' \in Int /\ pools' \in Int
      <4>1. structs \in Int /\ pools \in Int /\ refusals \in Nat /\ stored \in BOOLEAN
        BY DEF ArenaInv, ArenaTypeOK
      <4>2. CASE stored
        <5>1. structs' = structs - Len(chain) /\ pools' = pools - Len(chain) /\ refusals' = refusals
          BY <2>1, <4>2 DEF Release, FreedArenas
        <5>2. stored' \in BOOLEAN
          BY <2>1, <4>2 DEF Release
        <5> QED
          BY <3>t, <4>1, <5>1, <5>2
      <4>3. CASE ~stored
        BY <2>1, <4>1, <4>3 DEF Release
      <4> QED
        BY <4>2, <4>3
    <3> QED
      BY <2>1, <3>1, <3>2, Untouched
<1>7. CASE UNCHANGED arenaVars
  BY <1>7 DEF arenaVars, ArenaInv, ArenaTypeOK, Behind, GrantsApart, ArenaAccounts, Live
<1> QED
  BY <1>1, <1>2, <1>3, <1>4, <1>5, <1>7 DEF ArenaNext

LEMMA ArenaAlways == ArenaSpec => []ArenaInv
BY ArenaInitial, ArenaStep, PTL DEF ArenaSpec

-----------------------------------------------------------------------------
(* The theorems.                                                           *)

\* No two blocks that lv_arena has handed out share a byte.
THEOREM GrantsNeverOverlap == ArenaSpec => []GrantsApart
BY ArenaAlways, PTL DEF ArenaInv

LEMMA GrantsInside == ArenaInv => GrantsFit
<1> SUFFICES ASSUME ArenaInv, NEW g \in grants
             PROVE  LET a == chain[g.pool]
                    IN  /\ g.pool \in 1 .. Len(chain) /\ Header <= g.from /\ g.to <= a.size + Header
                        /\ a.lead < Align => a.lead + g.to <= BlockBytes(a.size)
  BY DEF GrantsFit
<1> DEFINE a == chain[g.pool]
<1>1. g.pool \in 1 .. Len(chain) /\ Header <= g.from /\ g.to <= a.offset + Header
  BY DEF ArenaInv, Behind
<1>2. a.offset \in Nat /\ a.size \in Nat /\ a.lead \in Nat /\ a.offset <= a.size
  BY <1>1, Fields DEF ArenaInv, ArenaTypeOK
<1>3. g.to \in Nat /\ Header \in Nat /\ Align \in Nat
  BY AlignAssumption DEF ArenaInv, ArenaTypeOK, GrantType
<1> HIDE DEF a
<1>4. g.to <= a.size + Header
  BY <1>1, <1>2, <1>3
<1>5. a.lead < Align => a.lead + g.to <= BlockBytes(a.size)
  BY <1>2, <1>3, <1>4 DEF BlockBytes
<1> QED
  BY <1>1, <1>4, <1>5 DEF a

\* What it hands out ends in its pool, or the header's asked past it, which the
\* block of the pool still holds unless malloc returned an aligned address.
THEOREM GrantsStayInside == ArenaSpec => []GrantsFit
BY ArenaAlways, GrantsInside, PTL

\* Until they are freed, exactly the pools of the chain are allocated; only a
\* t_arena whose pool was refused is ever lost.
THEOREM ArenasAccounted == ArenaSpec => []ArenaAccounts
BY ArenaAlways, PTL DEF ArenaInv

-----------------------------------------------------------------------------
(* A string, whatever its calls have met.                                  *)

StrBytes(C) == C \union {NUL, Unset}
StrOver(C) == [data : {"null", "live", "stale"}, len : Nat, alloc : Nat, mem : Seq(StrBytes(C)),
               blocks : Int, refused : Nat, defined : BOOLEAN]
Owned(s) == IF s.data = "live" THEN 1 ELSE 0
Lost(s) == s.blocks - Owned(s)
\* What is reserved lies in the block, and a block is lost for a refusal only.
StrSound(s) ==
  /\ IF s.data = "live" THEN s.alloc <= Len(s.mem) ELSE s.mem = <<>>
  /\ Lost(s) \in 0 .. s.refused
Str(C) == {s \in StrOver(C) : StrSound(s)}
\* The same while what is reserved is being set.
Loose(C) == {s \in StrOver(C) : (s.data # "live" => s.mem = <<>>) /\ Lost(s) \in 0 .. s.refused}

\* s holds the text.
Holds(s, text) ==
  /\ s.defined /\ s.len = Len(text)
  /\ \/ s.data = "null" /\ s.len = 0 /\ s.alloc = 0
     \/ /\ s.data = "live" /\ s.len + 1 <= s.alloc
        /\ \A i \in 1 .. s.len : s.mem[i] = text[i]
        /\ s.mem[s.len + 1] = NUL

LEMMA StrFields ==
  ASSUME NEW C, NEW s \in StrOver(C)
  PROVE  /\ s.data \in {"null", "live", "stale"} /\ s.len \in Nat /\ s.alloc \in Nat /\ s.mem \in Seq(StrBytes(C))
         /\ s.blocks \in Int /\ s.refused \in Nat /\ s.defined \in BOOLEAN
         /\ Owned(s) \in {0, 1} /\ Lost(s) = s.blocks - Owned(s)
BY DEF StrOver, Owned, Lost

LEMMA RunOfType ==
  ASSUME NEW S, NEW byte \in S, NEW k \in Int
  PROVE  /\ RunOf(byte, k) \in Seq(S)
         /\ Len(RunOf(byte, k)) = IF k >= 0 THEN k ELSE 0
         /\ \A i \in 1 .. k : RunOf(byte, k)[i] = byte
         /\ k <= 0 => RunOf(byte, k) = <<>>
<1>1. CASE k >= 0
  <2>1. RunOf(byte, k) \in [1 .. k -> S]
    BY DEF RunOf
  <2>2. k \in Nat
    BY <1>1
  <2>3. k <= 0 => 1 .. k = {}
    BY <2>2
  <2> QED
    BY <2>1, <2>2, <2>3, <1>1 DEF RunOf
<1>2. CASE ~(k >= 0)
  <2>1. 1 .. k = {}
    BY <1>2
  <2>2. RunOf(byte, k) = <<>>
    BY <2>1 DEF RunOf
  <2> QED
    BY <1>2, <2>1, <2>2
<1> QED
  BY <1>1, <1>2

LEMMA Joined ==
  ASSUME NEW S, NEW a \in Seq(S), NEW b \in Seq(S)
  PROVE  /\ a \o b \in Seq(S) /\ Len(a \o b) = Len(a) + Len(b) /\ Len(a) \in Nat /\ Len(b) \in Nat
         /\ \A i \in 1 .. Len(a) : (a \o b)[i] = a[i]
         /\ \A i \in 1 .. Len(b) : (a \o b)[Len(a) + i] = b[i]
<1>1. Len(a) \in Nat /\ Len(b) \in Nat
  OBVIOUS
<1>2. /\ a \o b \in Seq(S) /\ Len(a \o b) = Len(a) + Len(b)
      /\ \A i \in 1 .. Len(a) + Len(b) : (a \o b)[i] = IF i <= Len(a) THEN a[i] ELSE b[i - Len(a)]
  BY ConcatProperties
<1> DEFINE c == a \o b
<1> HIDE DEF c
<1>3. \A i \in 1 .. Len(a) + Len(b) : c[i] = IF i <= Len(a) THEN a[i] ELSE b[i - Len(a)]
  BY <1>2 DEF c
<1>4. \A i \in 1 .. Len(a) : c[i] = a[i]
  BY ONLY <1>1, <1>3
<1>5. \A i \in 1 .. Len(b) : c[Len(a) + i] = b[i]
  <2> SUFFICES ASSUME NEW i \in 1 .. Len(b) PROVE c[Len(a) + i] = b[i]
    OBVIOUS
  <2>1. Len(a) + i \in 1 .. Len(a) + Len(b) /\ ~(Len(a) + i <= Len(a)) /\ (Len(a) + i) - Len(a) = i
    BY <1>1
  <2> QED
    BY ONLY <1>3, <2>1
<1> QED
  BY <1>1, <1>2, <1>4, <1>5 DEF c

LEMMA BlockOf ==
  ASSUME NEW C, NEW s \in StrOver(C), s.data # "live", Lost(s) \in 0 .. s.refused,
         NEW bytes \in Seq(StrBytes(C))
  PROVE  LET t == TstrBlock(s, bytes)
         IN  /\ t \in Loose(C) /\ t.data = "live" /\ t.len = s.len /\ t.alloc = s.alloc
             /\ t.refused = s.refused /\ t.defined = s.defined /\ Lost(t) = Lost(s)
             /\ Len(t.mem) = Len(bytes) + Slack /\ \A i \in 1 .. Len(bytes) : t.mem[i] = bytes[i]
<1> DEFINE S == StrBytes(C)
           r == RunOf(Unset, Slack)
           m == bytes \o r
           b == s.blocks + 1
           t == TstrBlock(s, bytes)
<1>1. Slack \in Int /\ Slack >= 0 /\ Unset \in S /\ bytes \in Seq(S)
  BY SlackAssumption DEF StrBytes
<1> HIDE DEF S
<1>2. r \in Seq(S) /\ Len(r) = Slack
  BY <1>1, RunOfType
<1> HIDE DEF r
<1>3. m \in Seq(S) /\ Len(m) = Len(bytes) + Slack /\ \A i \in 1 .. Len(bytes) : m[i] = bytes[i]
  <2>1. bytes \in Seq(S)
    BY <1>1
  <2>2. m \in Seq(S) /\ Len(m) = Len(bytes) + Len(r) /\ \A i \in 1 .. Len(bytes) : m[i] = bytes[i]
    BY ONLY <1>2, <2>1, Joined
  <2> QED
    BY <1>2, <2>2
<1> HIDE DEF m
<1>4. t = [s EXCEPT !.data = "live", !.mem = m, !.blocks = b]
  BY DEF TstrBlock, m, r
<1>5. b \in Int /\ m \in Seq(StrBytes(C))
  BY <1>3, StrFields DEF S
<1> HIDE DEF t, b
<1>6. /\ t \in StrOver(C) /\ t.data = "live" /\ t.len = s.len /\ t.alloc = s.alloc /\ t.mem = m
      /\ t.blocks = b /\ t.refused = s.refused /\ t.defined = s.defined
  BY <1>4, <1>5 DEF StrOver
<1>7. Lost(t) = Lost(s)
  BY <1>6, StrFields DEF Lost, Owned, b
<1>8. t \in Loose(C)
  BY <1>3, <1>6, <1>7 DEF Loose
<1> QED
  BY <1>3, <1>6, <1>7, <1>8 DEF t

LEMMA FreedOf ==
  ASSUME NEW C, NEW s \in Str(C)
  PROVE  LET t == TstrFreed(s)
         IN  /\ t \in Str(C) /\ t.len = s.len /\ t.alloc = s.alloc /\ t.refused = s.refused /\ Lost(t) = Lost(s)
             /\ t.data = (IF s.data = "stale" THEN "stale" ELSE "null")
             /\ t.defined = (s.defined /\ s.data # "stale")
<1> DEFINE t == TstrFreed(s)
<1>1. s \in StrOver(C) /\ Lost(s) \in 0 .. s.refused /\ <<>> \in Seq(StrBytes(C))
      /\ (s.data # "live" => s.mem = <<>>)
  BY DEF Str, StrSound
<1>2. CASE s.data = "stale"
  <2>1. t = [s EXCEPT !.defined = FALSE]
    BY <1>2 DEF TstrFreed
  <2>2. /\ t \in StrOver(C) /\ t.data = s.data /\ t.len = s.len /\ t.alloc = s.alloc /\ t.mem = s.mem
        /\ t.blocks = s.blocks /\ t.refused = s.refused /\ t.defined = FALSE
    BY <1>1, <2>1 DEF StrOver
  <2> HIDE DEF t
  <2>3. Lost(t) = Lost(s)
    BY <2>2 DEF Lost, Owned
  <2>4. t \in Str(C)
    BY <1>1, <1>2, <2>2, <2>3 DEF Str, StrSound
  <2> QED
    BY <1>2, <2>2, <2>3, <2>4 DEF t
<1>3. CASE s.data # "stale"
  <2> DEFINE b == IF s.data = "live" THEN s.blocks - 1 ELSE s.blocks
  <2>1. t = [s EXCEPT !.data = "null", !.mem = <<>>, !.blocks = b]
    BY <1>3 DEF TstrFreed
  <2>2. b \in Int /\ b = Lost(s)
    BY <1>1, StrFields DEF Lost, Owned
  <2> HIDE DEF t, b
  <2>3. /\ t \in StrOver(C) /\ t.data = "null" /\ t.len = s.len /\ t.alloc = s.alloc /\ t.mem = <<>>
        /\ t.blocks = b /\ t.refused = s.refused /\ t.defined = s.defined
    BY <1>1, <2>1, <2>2 DEF StrOver
  <2>4. Lost(t) = Lost(s)
    BY <2>2, <2>3 DEF Lost, Owned
  <2>5. t \in Str(C)
    BY <1>1, <2>3, <2>4 DEF Str, StrSound
  <2> QED
    BY <1>3, <2>3, <2>4, <2>5, StrFields, <1>1 DEF t
<1> QED
  BY <1>2, <1>3

LEMMA RefusedOf ==
  ASSUME NEW C, NEW s \in Str(C), NEW t \in TstrRefused(s)
  PROVE  /\ t \in Str(C) /\ t.data = s.data /\ t.len = s.len /\ t.alloc = s.alloc /\ t.mem = s.mem
         /\ t.refused = s.refused + 1 /\ t.defined = s.defined /\ Lost(t) = Lost(s)
<1>1. t = [s EXCEPT !.refused = @ + 1] /\ s \in StrOver(C)
  BY DEF TstrRefused, Str
<1>2. /\ t \in StrOver(C) /\ t.data = s.data /\ t.len = s.len /\ t.alloc = s.alloc /\ t.mem = s.mem
      /\ t.refused = s.refused + 1 /\ t.defined = s.defined /\ t.blocks = s.blocks
  BY <1>1 DEF StrOver
<1>3. Lost(t) = Lost(s)
  BY <1>2 DEF Lost, Owned
<1>4. t \in Str(C)
  <2>1. Lost(s) \in 0 .. s.refused /\ s.refused \in Nat
    BY <1>1, StrFields DEF Str, StrSound
  <2>2. Lost(t) \in 0 .. t.refused
    BY <1>2, <1>3, <2>1
  <2> QED
    BY <1>2, <2>2 DEF Str, StrSound
<1> QED
  BY <1>2, <1>3, <1>4

LEMMA StrLoose ==
  ASSUME NEW C, NEW s \in Str(C)
  PROVE  s \in Loose(C) /\ s \in StrOver(C) /\ StrSound(s) /\ Lost(s) \in 0 .. s.refused
BY DEF Str, Loose, StrSound

LEMMA Cut ==
  ASSUME NEW S, NEW m \in Seq(S), NEW from \in Nat \ {0}, NEW to \in Nat, to <= Len(m), from <= to + 1
  PROVE  /\ SubSeq(m, from, to) \in Seq(S) /\ Len(SubSeq(m, from, to)) = to - from + 1
         /\ \A i \in 1 .. to - from + 1 : SubSeq(m, from, to)[i] = m[from + i - 1]
<1>1. \A i \in from .. to : i \in 1 .. Len(m)
  OBVIOUS
<1>2. /\ SubSeq(m, from, to) \in Seq(S)
      /\ Len(SubSeq(m, from, to)) = IF from <= to THEN to - from + 1 ELSE 0
      /\ \A i \in 1 .. to - from + 1 : SubSeq(m, from, to)[i] = m[from + i - 1]
  BY <1>1, SubSeqProperties
<1> QED
  BY <1>2

\* bytes stored into m behind the first at.
LEMMA Spliced ==
  ASSUME NEW S, NEW m \in Seq(S), NEW bytes \in Seq(S), NEW at \in Nat, at + Len(bytes) <= Len(m)
  PROVE  LET c == SubSeq(m, 1, at) \o bytes \o SubSeq(m, at + Len(bytes) + 1, Len(m))
         IN  /\ c \in Seq(S) /\ Len(c) = Len(m)
             /\ \A i \in 1 .. Len(m) : c[i] = IF at < i /\ i <= at + Len(bytes) THEN bytes[i - at] ELSE m[i]
<1> DEFINE a == SubSeq(m, 1, at)
           b == SubSeq(m, at + Len(bytes) + 1, Len(m))
           n0 == Len(m)
           k == Len(bytes)
           ab == a \o bytes
           c == ab \o b
<1>1. n0 \in Nat /\ k \in Nat /\ at + k <= n0
  OBVIOUS
<1>2. a \in Seq(S) /\ Len(a) = at /\ \A i \in 1 .. at : a[i] = m[i]
  <2>1. /\ SubSeq(m, 1, at) \in Seq(S) /\ Len(SubSeq(m, 1, at)) = at - 1 + 1
        /\ \A i \in 1 .. at - 1 + 1 : SubSeq(m, 1, at)[i] = m[1 + i - 1]
    BY <1>1, Cut
  <2> QED
    BY <2>1
<1>3. b \in Seq(S) /\ Len(b) = n0 - (at + k) /\ \A i \in 1 .. n0 - (at + k) : b[i] = m[at + k + i]
  <2> DEFINE f == at + k + 1
  <2>1. f \in Nat \ {0} /\ n0 \in Nat /\ n0 <= Len(m) /\ f <= n0 + 1
    BY <1>1
  <2>2. b = SubSeq(m, f, n0)
    OBVIOUS
  <2> HIDE DEF b, f, n0
  <2>3. /\ b \in Seq(S) /\ Len(b) = n0 - f + 1
        /\ \A i \in 1 .. n0 - f + 1 : b[i] = m[f + i - 1]
    BY <2>1, <2>2, Cut
  <2>4. n0 - f + 1 = n0 - (at + k) /\ \A i \in Int : f + i - 1 = at + k + i
    BY <1>1 DEF f
  <2> QED
    BY <2>3, <2>4
<1> HIDE DEF a, b, n0, k
<1>4. /\ ab \in Seq(S) /\ Len(ab) = at + k
      /\ \A i \in 1 .. at : ab[i] = m[i]
      /\ \A i \in 1 .. k : ab[at + i] = bytes[i]
  <2>1. /\ ab \in Seq(S) /\ Len(ab) = Len(a) + Len(bytes)
        /\ \A i \in 1 .. Len(a) : ab[i] = a[i]
        /\ \A i \in 1 .. Len(bytes) : ab[Len(a) + i] = bytes[i]
    <3>1. a \in Seq(S) /\ bytes \in Seq(S)
      BY <1>2
    <3> QED
      BY ONLY <3>1, Joined DEF ab
  <2> QED
    BY <1>2, <2>1 DEF k
<1> HIDE DEF ab
<1>5. /\ c \in Seq(S) /\ Len(c) = (at + k) + (n0 - (at + k))
      /\ \A i \in 1 .. at + k : c[i] = ab[i]
      /\ \A i \in 1 .. n0 - (at + k) : c[at + k + i] = m[at + k + i]
  <2>1. /\ c \in Seq(S) /\ Len(c) = Len(ab) + Len(b)
        /\ \A i \in 1 .. Len(ab) : c[i] = ab[i]
        /\ \A i \in 1 .. Len(b) : c[Len(ab) + i] = b[i]
    <3>1. ab \in Seq(S) /\ b \in Seq(S)
      BY <1>3, <1>4
    <3> QED
      BY ONLY <3>1, Joined DEF c
  <2> QED
    BY <1>3, <1>4, <2>1
<1> HIDE DEF c
<1>6. ASSUME NEW i \in 1 .. n0 PROVE c[i] = IF at < i /\ i <= at + k THEN bytes[i - at] ELSE m[i]
  <2>1. CASE i <= at
    <3>1. i \in 1 .. at /\ i \in 1 .. at + k /\ ~(at < i)
      BY <1>1, <2>1
    <3> QED
      BY <1>4, <1>5, <3>1
  <2>2. CASE at < i /\ i <= at + k
    <3> DEFINE j == i - at
    <3>1. j \in 1 .. k /\ i = at + j /\ i \in 1 .. at + k
      BY <1>1, <2>2
    <3> HIDE DEF j
    <3>2. c[i] = bytes[j]
      BY <1>4, <1>5, <3>1
    <3> QED
      BY <2>2, <3>2 DEF j
  <2>3. CASE ~(i <= at + k)
    <3> DEFINE j == i - (at + k)
    <3>1. j \in 1 .. n0 - (at + k) /\ i = at + k + j
      BY <1>1, <2>3
    <3> HIDE DEF j
    <3> QED
      BY <1>5, <2>3, <3>1
  <2> QED
    BY <1>1, <2>1, <2>2, <2>3
<1>7. Len(c) = n0
  BY <1>1, <1>5
<1> QED
  BY <1>5, <1>6, <1>7 DEF c, ab, a, b, n0, k

LEMMA StoreOf ==
  ASSUME NEW C, NEW s \in Str(C), NEW at \in Nat, NEW bytes \in Seq(StrBytes(C))
  PROVE  LET t == TstrStore(s, at, bytes)
             inside == s.data = "live" /\ at + Len(bytes) <= Len(s.mem)
         IN  /\ t \in Str(C) /\ t.data = s.data /\ t.len = s.len /\ t.alloc = s.alloc
             /\ t.refused = s.refused /\ Lost(t) = Lost(s) /\ Len(t.mem) = Len(s.mem)
             /\ t.defined = (s.defined /\ (bytes = <<>> \/ inside))
             /\ inside => \A i \in 1 .. Len(s.mem) :
                  t.mem[i] = IF at < i /\ i <= at + Len(bytes) THEN bytes[i - at] ELSE s.mem[i]
<1> DEFINE t == TstrStore(s, at, bytes)
           inside == s.data = "live" /\ at + Len(bytes) <= Len(s.mem)
           c == SubSeq(s.mem, 1, at) \o bytes \o SubSeq(s.mem, at + Len(bytes) + 1, Len(s.mem))
<1>1. s \in StrOver(C) /\ StrSound(s) /\ s.mem \in Seq(StrBytes(C)) /\ s.defined \in BOOLEAN /\ Len(bytes) \in Nat
  BY StrFields DEF Str
<1>2. CASE bytes = <<>>
  <2>1. t = s
    BY <1>2 DEF TstrStore
  <2>2. Len(bytes) = 0
    BY <1>2
  <2>3. \A i \in 1 .. Len(s.mem) : ~(at < i /\ i <= at + Len(bytes))
    BY <2>2
  <2> QED
    BY <1>1, <1>2, <2>1, <2>3
<1>3. CASE bytes # <<>> /\ inside
  <2>1. t = [s EXCEPT !.mem = c]
    BY <1>3 DEF TstrStore
  <2>2. /\ c \in Seq(StrBytes(C)) /\ Len(c) = Len(s.mem)
        /\ \A i \in 1 .. Len(s.mem) : c[i] = IF at < i /\ i <= at + Len(bytes) THEN bytes[i - at] ELSE s.mem[i]
    <3> DEFINE m == s.mem
    <3>1. m \in Seq(StrBytes(C)) /\ at + Len(bytes) <= Len(m)
      BY <1>1, <1>3
    <3> HIDE DEF m
    <3>2. LET x == SubSeq(m, 1, at) \o bytes \o SubSeq(m, at + Len(bytes) + 1, Len(m))
          IN  /\ x \in Seq(StrBytes(C)) /\ Len(x) = Len(m)
              /\ \A i \in 1 .. Len(m) : x[i] = IF at < i /\ i <= at + Len(bytes) THEN bytes[i - at] ELSE m[i]
      BY <3>1, Spliced
    <3> QED
      BY <3>2 DEF m
  <2> HIDE DEF t, c
  <2>3. /\ t \in StrOver(C) /\ t.data = s.data /\ t.len = s.len /\ t.alloc = s.alloc /\ t.mem = c
        /\ t.blocks = s.blocks /\ t.refused = s.refused /\ t.defined = s.defined
    BY <1>1, <2>1, <2>2 DEF StrOver
  <2>4. Lost(t) = Lost(s)
    BY <2>3 DEF Lost, Owned
  <2>5. t \in Str(C)
    BY <1>1, <1>3, <2>2, <2>3, <2>4 DEF Str, StrSound
  <2> QED
    BY <1>1, <1>3, <2>2, <2>3, <2>4, <2>5 DEF t
<1>4. CASE bytes # <<>> /\ ~inside
  <2>1. t = [s EXCEPT !.defined = FALSE]
    BY <1>4 DEF TstrStore
  <2> HIDE DEF t
  <2>2. /\ t \in StrOver(C) /\ t.data = s.data /\ t.len = s.len /\ t.alloc = s.alloc /\ t.mem = s.mem
        /\ t.blocks = s.blocks /\ t.refused = s.refused /\ t.defined = FALSE
    BY <1>1, <2>1 DEF StrOver
  <2>3. Lost(t) = Lost(s)
    BY <2>2 DEF Lost, Owned
  <2>4. t \in Str(C)
    BY <1>1, <2>2, <2>3 DEF Str, StrSound
  <2> QED
    BY <1>4, <2>2, <2>3, <2>4 DEF t
<1> QED
  BY <1>2, <1>3, <1>4

\* What is reserved and the length are set.
LEMMA AllocOf ==
  ASSUME NEW C, NEW s \in Loose(C), NEW a \in Nat, s.data = "live" => a <= Len(s.mem)
  PROVE  LET t == [s EXCEPT !.alloc = a]
         IN  /\ t \in Str(C) /\ t.data = s.data /\ t.len = s.len /\ t.alloc = a /\ t.mem = s.mem
             /\ t.refused = s.refused /\ Lost(t) = Lost(s) /\ t.defined = s.defined
<1> DEFINE t == [s EXCEPT !.alloc = a]
<1>1. s \in StrOver(C) /\ (s.data # "live" => s.mem = <<>>) /\ Lost(s) \in 0 .. s.refused
  BY DEF Loose
<1>2. /\ t \in StrOver(C) /\ t.data = s.data /\ t.len = s.len /\ t.alloc = a /\ t.mem = s.mem
      /\ t.blocks = s.blocks /\ t.refused = s.refused /\ t.defined = s.defined
  BY <1>1 DEF StrOver
<1> HIDE DEF t
<1>3. Lost(t) = Lost(s)
  BY <1>2 DEF Lost, Owned
<1>4. t \in Str(C)
  BY <1>1, <1>2, <1>3 DEF Str, StrSound
<1> QED
  BY <1>2, <1>3, <1>4 DEF t

LEMMA LengthOf ==
  ASSUME NEW C, NEW s \in Str(C), NEW l \in Nat
  PROVE  LET t == [s EXCEPT !.len = l]
         IN  /\ t \in Str(C) /\ t.data = s.data /\ t.len = l /\ t.alloc = s.alloc /\ t.mem = s.mem
             /\ t.refused = s.refused /\ Lost(t) = Lost(s) /\ t.defined = s.defined
<1> DEFINE t == [s EXCEPT !.len = l]
<1>1. s \in StrOver(C) /\ StrSound(s)
  BY DEF Str
<1>2. /\ t \in StrOver(C) /\ t.data = s.data /\ t.len = l /\ t.alloc = s.alloc /\ t.mem = s.mem
      /\ t.blocks = s.blocks /\ t.refused = s.refused /\ t.defined = s.defined
  BY <1>1 DEF StrOver
<1> HIDE DEF t
<1>3. Lost(t) = Lost(s)
  BY <1>2 DEF Lost, Owned
<1>4. t \in Str(C)
  BY <1>1, <1>2, <1>3 DEF Str, StrSound
<1> QED
  BY <1>2, <1>3, <1>4 DEF t

\* The characters stored behind the text, and the terminator.
LEMMA JoinOf ==
  ASSUME NEW C, NEW s \in Str(C), NEW text \in Seq(StrBytes(C))
  PROVE  LET t == TstrJoin(s, text)
             inside == s.data = "live" /\ s.len + Len(text) + 1 <= Len(s.mem)
         IN  /\ t \in Str(C) /\ t.data = s.data /\ t.len = s.len + Len(text) /\ t.alloc = s.alloc
             /\ t.refused = s.refused /\ Lost(t) = Lost(s)
             /\ inside => /\ t.defined = s.defined
                          /\ \A i \in 1 .. s.len : t.mem[i] = s.mem[i]
                          /\ \A i \in 1 .. Len(text) : t.mem[s.len + i] = text[i]
                          /\ t.mem[t.len + 1] = NUL
<1> DEFINE b == Append(text, NUL)
           at == s.len
           k == Len(text)
           inside == s.data = "live" /\ at + k + 1 <= Len(s.mem)
           u == TstrStore(s, at, b)
           t == TstrJoin(s, text)
<1>1. /\ NUL \in StrBytes(C) /\ s \in StrOver(C)
  BY StrLoose DEF StrBytes
<1>2. b \in Seq(StrBytes(C)) /\ Len(b) = k + 1 /\ k \in Nat /\ b[k + 1] = NUL /\ \A i \in 1 .. k : b[i] = text[i]
  BY <1>1, AppendProperties
<1>3. at \in Nat /\ s.mem \in Seq(StrBytes(C)) /\ s.defined \in BOOLEAN
  BY <1>1, StrFields
<1> HIDE DEF b, at, k, u
<1>4. /\ u \in Str(C) /\ u.data = s.data /\ u.len = s.len /\ u.alloc = s.alloc
      /\ u.refused = s.refused /\ Lost(u) = Lost(s)
      /\ inside => /\ u.defined = s.defined
                   /\ \A i \in 1 .. Len(s.mem) : u.mem[i] = IF at < i /\ i <= at + (k + 1) THEN b[i - at] ELSE s.mem[i]
  <2> DEFINE within == s.data = "live" /\ at + Len(b) <= Len(s.mem)
  <2>1. LET v == TstrStore(s, at, b) IN
           /\ v \in Str(C) /\ v.data = s.data /\ v.len = s.len /\ v.alloc = s.alloc
           /\ v.refused = s.refused /\ Lost(v) = Lost(s) /\ Len(v.mem) = Len(s.mem)
           /\ v.defined = (s.defined /\ (b = <<>> \/ within))
           /\ within => \A i \in 1 .. Len(s.mem) : v.mem[i] = IF at < i /\ i <= at + Len(b) THEN b[i - at] ELSE s.mem[i]
    BY <1>2, <1>3, StoreOf
  <2>2. inside => within
    BY <1>2, <1>3
  <2> QED
    BY <1>2, <1>3, <2>1, <2>2 DEF u
<1>5. t = [u EXCEPT !.len = u.len + k] /\ u.len + k = at + k /\ at + k \in Nat
  BY <1>2, <1>3, <1>4 DEF TstrJoin, u, at, k, b
<1> HIDE DEF t
<1>6. /\ t \in Str(C) /\ t.data = u.data /\ t.len = at + k /\ t.alloc = u.alloc /\ t.mem = u.mem
      /\ t.refused = u.refused /\ Lost(t) = Lost(u) /\ t.defined = u.defined
  BY <1>4, <1>5, LengthOf
<1>7. ASSUME inside
      PROVE  /\ t.defined = s.defined
             /\ \A i \in 1 .. at : t.mem[i] = s.mem[i]
             /\ \A i \in 1 .. k : t.mem[at + i] = text[i]
             /\ t.mem[at + k + 1] = NUL
  <2> DEFINE m == s.mem
             N == Len(m)
  <2>1. \A i \in 1 .. N : t.mem[i] = IF at < i /\ i <= at + (k + 1) THEN b[i - at] ELSE m[i]
    BY <1>4, <1>6, <1>7
  <2>2. N \in Nat /\ at + k + 1 <= N
    BY <1>3, <1>7
  <2> HIDE DEF m, N
  <2>3. \A i \in 1 .. at : t.mem[i] = m[i]
    <3> SUFFICES ASSUME NEW i \in 1 .. at PROVE t.mem[i] = m[i]
      OBVIOUS
    <3>1. i \in 1 .. N /\ ~(at < i)
      BY <1>2, <1>3, <2>2
    <3> QED
      BY <2>1, <3>1
  <2>4. ASSUME NEW i \in 1 .. k + 1 PROVE t.mem[at + i] = b[i]
    <3>1. at + i \in 1 .. N /\ at < at + i /\ at + i <= at + (k + 1) /\ (at + i) - at = i
      BY <1>2, <1>3, <2>2
    <3> QED
      BY <2>1, <3>1
  <2>5. /\ \A i \in 1 .. k : t.mem[at + i] = text[i]
        /\ t.mem[at + k + 1] = NUL
    <3>1. k + 1 \in 1 .. k + 1 /\ at + (k + 1) = at + k + 1 /\ \A i \in 1 .. k : i \in 1 .. k + 1
      BY <1>2, <1>3
    <3> QED
      BY <1>2, <2>4, <3>1
  <2> QED
    BY <1>4, <1>6, <1>7, <2>3, <2>5 DEF m
<1> QED
  BY <1>4, <1>6, <1>7 DEF t, at, k

\* A longer block with the old bytes in front; what is reserved is set to a.
LEMMA GrownOf ==
  ASSUME NEW C, NEW s \in Str(C), NEW n \in Nat, NEW a \in Nat, a <= s.alloc + n
  PROVE  LET t == [TstrGrown(s, n) EXCEPT !.alloc = a]
         IN  /\ t \in Str(C) /\ t.len = s.len /\ t.alloc = a
             /\ t.refused = s.refused /\ Lost(t) = Lost(s)
             /\ t.data = (IF s.data = "stale" THEN "stale" ELSE "live")
             /\ t.defined = (s.defined /\ s.data # "stale")
             /\ s.data = "live" => \A i \in 1 .. s.alloc : t.mem[i] = s.mem[i]
             /\ t.data = "live" => s.alloc + n <= Len(t.mem)
             /\ TstrGrown(s, n).alloc = s.alloc
<1> DEFINE S == StrBytes(C)
           u == TstrGrown(s, n)
           t == [u EXCEPT !.alloc = a]
           f == TstrFreed(s)
<1>1. /\ NUL \in S /\ s \in StrOver(C) /\ s \in Loose(C) /\ StrSound(s) /\ Lost(s) \in 0 .. s.refused
      /\ s.data \in {"null", "live", "stale"} /\ s.alloc \in Nat /\ s.mem \in Seq(S) /\ s.defined \in BOOLEAN
      /\ Slack \in Nat
  BY StrLoose, StrFields, SlackAssumption DEF StrBytes
<1>2. /\ f \in Str(C) /\ f.len = s.len /\ f.alloc = s.alloc /\ f.refused = s.refused /\ Lost(f) = Lost(s)
      /\ f.data = (IF s.data = "stale" THEN "stale" ELSE "null")
      /\ f.defined = (s.defined /\ s.data # "stale")
  BY FreedOf
<1>3. f \in StrOver(C) /\ f \in Loose(C) /\ Lost(f) \in 0 .. f.refused
  BY <1>2, StrLoose
<1> HIDE DEF f, t, S
<1>4. /\ u \in Loose(C) /\ u.len = s.len /\ u.alloc = s.alloc /\ u.refused = s.refused /\ Lost(u) = Lost(s)
      /\ u.data = (IF s.data = "stale" THEN "stale" ELSE "live")
      /\ u.defined = (s.defined /\ s.data # "stale")
      /\ s.data = "live" => \A i \in 1 .. s.alloc : u.mem[i] = s.mem[i]
      /\ u.data = "live" => s.alloc + n <= Len(u.mem)
  <2>1. CASE s.data = "null"
    <3> DEFINE b == RunOf(NUL, s.alloc + n)
    <3>1. b \in Seq(S) /\ Len(b) = s.alloc + n
      <4> DEFINE q == s.alloc + n
      <4>1. q \in Int /\ q >= 0
        BY <1>1
      <4> HIDE DEF q
      <4>2. RunOf(NUL, q) \in Seq(S) /\ Len(RunOf(NUL, q)) = q
        BY <1>1, <4>1, RunOfType
      <4> QED
        BY <4>2 DEF q
    <3>2. u = TstrBlock(s, b)
      BY <2>1 DEF TstrGrown
    <3> HIDE DEF u, b
    <3>3. /\ u \in Loose(C) /\ u.data = "live" /\ u.len = s.len /\ u.alloc = s.alloc
          /\ u.refused = s.refused /\ u.defined = s.defined /\ Lost(u) = Lost(s)
          /\ Len(u.mem) = Len(b) + Slack
      <4>1. s.data # "live" /\ b \in Seq(StrBytes(C))
        BY <2>1, <3>1 DEF S
      <4> QED
        BY <1>1, <3>2, <4>1, BlockOf
    <3>4. s.alloc + n <= Len(u.mem)
      BY <1>1, <3>1, <3>3
    <3> QED
      BY <1>1, <2>1, <3>3, <3>4
  <2>2. CASE s.data = "live"
    <3> DEFINE x == SubSeq(s.mem, 1, s.alloc)
               z == RunOf(NUL, n)
               b == x \o z
    <3>1. x \in Seq(S) /\ Len(x) = s.alloc /\ \A i \in 1 .. s.alloc : x[i] = s.mem[i]
      <4> DEFINE m == s.mem
                 q == s.alloc
      <4>1. m \in Seq(S) /\ q \in Nat /\ q <= Len(m) /\ 1 \in Nat \ {0} /\ 1 <= q + 1
        BY <1>1, <2>2 DEF StrSound
      <4> HIDE DEF m, q
      <4>2. SubSeq(m, 1, q) \in Seq(S) /\ Len(SubSeq(m, 1, q)) = q - 1 + 1
            /\ \A i \in 1 .. q - 1 + 1 : SubSeq(m, 1, q)[i] = m[1 + i - 1]
        BY <4>1, Cut
      <4>3. SubSeq(m, 1, q) \in Seq(S) /\ Len(SubSeq(m, 1, q)) = q
            /\ \A i \in 1 .. q : SubSeq(m, 1, q)[i] = m[i]
        BY <4>1, <4>2
      <4> QED
        BY <4>3 DEF m, q
    <3>2. z \in Seq(S) /\ Len(z) = n
      <4>1. n \in Int /\ n >= 0
        OBVIOUS
      <4>2. RunOf(NUL, n) \in Seq(S) /\ Len(RunOf(NUL, n)) = IF n >= 0 THEN n ELSE 0
        BY <1>1, <4>1, RunOfType
      <4> QED
        BY <4>1, <4>2
    <3> HIDE DEF x, z
    <3>3. b \in Seq(S) /\ Len(b) = s.alloc + n /\ \A i \in 1 .. s.alloc : b[i] = s.mem[i]
      <4>1. /\ b \in Seq(S) /\ Len(b) = Len(x) + Len(z) /\ \A i \in 1 .. Len(x) : b[i] = x[i]
        <5>1. x \in Seq(S) /\ z \in Seq(S)
          BY <3>1, <3>2
        <5> QED
          BY ONLY <5>1, Joined
      <4> QED
        BY <3>1, <3>2, <4>1
    <3>4. u = TstrBlock(f, b)
      BY <2>2 DEF TstrGrown, f, b, x, z
    <3> HIDE DEF u, b
    <3>5. /\ u \in Loose(C) /\ u.data = "live" /\ u.len = f.len /\ u.alloc = f.alloc
          /\ u.refused = f.refused /\ u.defined = f.defined /\ Lost(u) = Lost(f)
          /\ Len(u.mem) = Len(b) + Slack /\ \A i \in 1 .. Len(b) : u.mem[i] = b[i]
      <4>1. f.data # "live" /\ b \in Seq(StrBytes(C))
        BY <1>2, <2>2, <3>3 DEF S
      <4> QED
        BY <1>3, <3>4, <4>1, BlockOf
    <3>6. s.alloc + n <= Len(u.mem)
      BY <1>1, <3>3, <3>5
    <3>7. \A i \in 1 .. s.alloc : u.mem[i] = s.mem[i]
      <4>1. \A i \in 1 .. s.alloc : i \in 1 .. Len(b)
        BY <1>1, <3>3
      <4> QED
        BY <3>3, <3>5, <4>1
    <3> QED
      BY <1>1, <1>2, <2>2, <3>5, <3>6, <3>7
  <2>3. CASE s.data = "stale"
    <3>1. u = f
      BY <2>3 DEF TstrGrown, f
    <3> HIDE DEF u
    <3> QED
      BY <1>2, <1>3, <2>3, <3>1
  <2> QED
    BY <1>1, <2>1, <2>2, <2>3
<1> HIDE DEF u
<1>5. u.data = "live" => a <= Len(u.mem)
  <2>1. u \in StrOver(C)
    BY <1>4 DEF Loose
  <2>2. u.mem \in Seq(StrBytes(C))
    BY <2>1, StrFields
  <2> QED
    BY <1>1, <1>4, <2>2
<1>6. /\ t \in Str(C) /\ t.data = u.data /\ t.len = u.len /\ t.alloc = a /\ t.mem = u.mem
      /\ t.refused = u.refused /\ Lost(t) = Lost(u) /\ t.defined = u.defined
  BY <1>4, <1>5, AllocOf DEF t
<1> QED
  BY <1>4, <1>6 DEF t, u

LEMMA GrownAlloc ==
  ASSUME NEW C, NEW s \in Str(C), NEW n \in Nat
  PROVE  TstrGrown(s, n).alloc = s.alloc
<1> DEFINE a == s.alloc
<1>1. a \in Nat /\ a <= s.alloc + n
  BY StrLoose, StrFields
<1> HIDE DEF a
<1>2. LET t == [TstrGrown(s, n) EXCEPT !.alloc = a]
      IN     /\ t \in Str(C) /\ t.len = s.len /\ t.alloc = a
             /\ t.refused = s.refused /\ Lost(t) = Lost(s)
             /\ t.data = (IF s.data = "stale" THEN "stale" ELSE "live")
             /\ t.defined = (s.defined /\ s.data # "stale")
             /\ s.data = "live" => \A i \in 1 .. s.alloc : t.mem[i] = s.mem[i]
             /\ t.data = "live" => s.alloc + n <= Len(t.mem)
             /\ TstrGrown(s, n).alloc = s.alloc
  BY <1>1, GrownOf
<1> QED
  BY <1>2

-----------------------------------------------------------------------------
(* The operations on a string that holds a text.                           *)

LEMMA HoldsLive ==
  ASSUME NEW C, NEW s \in Str(C), NEW text \in Seq(C), Holds(s, text)
  PROVE  /\ s.defined /\ s.len = Len(text) /\ s.data # "stale"
         /\ s.data = "null" => s.len = 0 /\ s.alloc = 0 /\ text = <<>>
         /\ s.data = "live" => /\ s.len + 1 <= s.alloc /\ s.alloc <= Len(s.mem)
                               /\ \A i \in 1 .. s.len : s.mem[i] = text[i]
                               /\ s.mem[s.len + 1] = NUL
BY EmptySeq DEF Holds, Str, StrSound

\* A copy of s that differs in the refusals it counts holds the same text.
LEMMA HoldsSame ==
  ASSUME NEW s, NEW t, NEW text, Holds(s, text),
         t.data = s.data, t.len = s.len, t.alloc = s.alloc, t.mem = s.mem, t.defined = s.defined
  PROVE  Holds(t, text)
BY DEF Holds

LEMMA JoinHolds ==
  ASSUME NEW C, NEW s \in Str(C), NEW text \in Seq(C), NEW old \in Seq(C),
         s.defined, s.data = "live", s.len = Len(old), s.len + Len(text) + 1 <= s.alloc,
         \A i \in 1 .. s.len : s.mem[i] = old[i]
  PROVE  Holds(TstrJoin(s, text), old \o text)
<1> DEFINE t == TstrJoin(s, text)
           k == Len(text)
           at == s.len
           c == old \o text
<1>1. text \in Seq(StrBytes(C)) /\ k \in Nat /\ at \in Nat /\ s.alloc \in Nat /\ s.mem \in Seq(StrBytes(C))
  <2>1. text \in Seq(StrBytes(C))
    <3>1. \A i \in 1 .. Len(text) : text[i] \in StrBytes(C)
      BY ElementOfSeq DEF StrBytes
    <3>2. text \in [1 .. Len(text) -> StrBytes(C)] /\ Len(text) \in Nat
      BY <3>1
    <3> QED
      BY <3>2
  <2> QED
    BY <2>1, StrLoose, StrFields
<1>2. s.data = "live" /\ at + k + 1 <= Len(s.mem)
  <2>1. s.alloc <= Len(s.mem)
    BY DEF Str, StrSound
  <2> QED
    BY <1>1, <2>1
<1>3. /\ t.data = s.data /\ t.len = at + k /\ t.alloc = s.alloc
      /\ t.defined = s.defined
      /\ \A i \in 1 .. at : t.mem[i] = s.mem[i]
      /\ \A i \in 1 .. k : t.mem[at + i] = text[i]
      /\ t.mem[at + k + 1] = NUL
  <2> DEFINE inside == s.data = "live" /\ s.len + Len(text) + 1 <= Len(s.mem)
  <2>1. LET v == TstrJoin(s, text) IN
         /\ v.data = s.data /\ v.len = s.len + Len(text) /\ v.alloc = s.alloc
         /\ inside => /\ v.defined = s.defined
                      /\ \A i \in 1 .. s.len : v.mem[i] = s.mem[i]
                      /\ \A i \in 1 .. Len(text) : v.mem[s.len + i] = text[i]
                      /\ v.mem[v.len + 1] = NUL
    <3>1. s \in Str(C) /\ text \in Seq(StrBytes(C))
      BY <1>1
    <3> QED
      BY ONLY <3>1, JoinOf
  <2>2. inside
    BY <1>2
  <2> HIDE DEF inside
  <2> QED
    BY <2>1, <2>2
<1>4. Len(c) = at + k /\ (\A i \in 1 .. at : c[i] = old[i]) /\ \A i \in 1 .. k : c[at + i] = text[i]
  <2>1. /\ Len(c) = Len(old) + Len(text)
        /\ \A i \in 1 .. Len(old) : c[i] = old[i]
        /\ \A i \in 1 .. Len(text) : c[Len(old) + i] = text[i]
    BY Joined
  <2> QED
    BY <2>1
<1> HIDE DEF t, k, at, c
<1>5. \A i \in 1 .. at + k : t.mem[i] = c[i]
  <2> SUFFICES ASSUME NEW i \in 1 .. at + k PROVE t.mem[i] = c[i]
    OBVIOUS
  <2>1. CASE i <= at
    <3>1. i \in 1 .. at
      BY <1>1, <2>1
    <3> QED
      BY <1>3, <1>4, <3>1 DEF at
  <2>2. CASE ~(i <= at)
    <3> DEFINE j == i - at
    <3>1. j \in 1 .. k /\ i = at + j
      BY <1>1, <2>2
    <3> HIDE DEF j
    <3> QED
      BY <1>3, <1>4, <3>1
  <2> QED
    BY <2>1, <2>2
<1>6. at + k + 1 <= s.alloc
  BY DEF at, k
<1>7. Holds(t, c)
  BY <1>1, <1>3, <1>4, <1>5, <1>6 DEF Holds
<1> QED
  BY <1>7 DEF t, c

\* What an operation that asks for the text new makes of s, which held old,
\* when certain; whatever it met, the string it leaves is sound.
Kept(s, t, C, old, new, certain) ==
  /\ t \in Str(C) /\ t.refused \in {s.refused, s.refused + 1}
  /\ Holds(s, old) /\ certain =>
       Lost(t) = Lost(s) /\ Holds(t, IF t.refused = s.refused THEN new ELSE old)

LEMMA KeptRefused ==
  ASSUME NEW C, NEW s \in Str(C), NEW t \in TstrRefused(s), NEW old, NEW new, NEW certain \in BOOLEAN
  PROVE  Kept(s, t, C, old, new, certain)
<1>1. /\ t \in Str(C) /\ t.data = s.data /\ t.len = s.len /\ t.alloc = s.alloc /\ t.mem = s.mem
      /\ t.refused = s.refused + 1 /\ t.defined = s.defined /\ Lost(t) = Lost(s)
  BY RefusedOf
<1>2. s.refused \in Nat
  BY StrLoose, StrFields
<1>3. t.refused # s.refused
  BY <1>1, <1>2
<1> QED
  BY <1>1, <1>3, HoldsSame DEF Kept

LEMMA BytesOf ==
  ASSUME NEW C, NEW text \in Seq(C)
  PROVE  text \in Seq(StrBytes(C))
<1>1. \A i \in 1 .. Len(text) : text[i] \in StrBytes(C)
  BY ElementOfSeq DEF StrBytes
<1>2. text \in [1 .. Len(text) -> StrBytes(C)] /\ Len(text) \in Nat
  BY <1>1
<1> QED
  BY <1>2

\* Joining behind a block grown to a bytes.
LEMMA GrownJoin ==
  ASSUME NEW C, NEW s \in Str(C), NEW n \in Nat, NEW a \in Nat, a <= s.alloc + n, NEW text \in Seq(C), NEW old \in Seq(C)
  PROVE  LET t == TstrJoin([TstrGrown(s, n) EXCEPT !.alloc = a], text)
         IN  /\ t \in Str(C) /\ t.refused = s.refused /\ (s.data # "stale" => t.data # "stale") /\ t.alloc = a
             /\ Holds(s, old) /\ s.len + Len(text) + 1 <= a => Lost(t) = Lost(s) /\ Holds(t, old \o text)
<1> DEFINE u == [TstrGrown(s, n) EXCEPT !.alloc = a]
           t == TstrJoin(u, text)
<1>1. /\ u \in Str(C) /\ u.len = s.len /\ u.alloc = a
      /\ u.refused = s.refused /\ Lost(u) = Lost(s)
      /\ u.data = (IF s.data = "stale" THEN "stale" ELSE "live")
      /\ u.defined = (s.defined /\ s.data # "stale")
      /\ s.data = "live" => \A i \in 1 .. s.alloc : u.mem[i] = s.mem[i]
  BY GrownOf
<1>2. text \in Seq(StrBytes(C)) /\ s.len \in Nat /\ s.alloc \in Nat
  BY BytesOf, StrLoose, StrFields
<1> HIDE DEF u
<1>3. t \in Str(C) /\ t.refused = u.refused /\ Lost(t) = Lost(u) /\ t.data = u.data /\ t.alloc = u.alloc
  BY <1>1, <1>2, JoinOf
<1>4. ASSUME Holds(s, old), s.len + Len(text) + 1 <= a PROVE Holds(t, old \o text)
  <2>1. /\ s.defined /\ s.len = Len(old) /\ s.data # "stale" /\ (s.data = "null" => s.len = 0)
        /\ s.data = "live" => s.len + 1 <= s.alloc /\ \A i \in 1 .. s.len : s.mem[i] = old[i]
    BY <1>4, HoldsLive
  <2>2. \A i \in 1 .. u.len : u.mem[i] = old[i]
    <3> SUFFICES ASSUME NEW i \in 1 .. s.len PROVE u.mem[i] = old[i]
      BY <1>1
    <3>1. s.data = "live"
      <4>1. s.len # 0
        BY <1>2
      <4>2. s.data \in {"null", "live", "stale"}
        BY StrLoose, StrFields
      <4> QED
        BY <2>1, <4>1, <4>2
    <3>2. i \in 1 .. s.alloc
      BY <1>2, <2>1, <3>1
    <3> QED
      BY <1>1, <2>1, <3>1, <3>2
  <2>3. u.defined /\ u.data = "live" /\ u.len = Len(old) /\ u.len + Len(text) + 1 <= u.alloc
    BY <1>1, <1>4, <2>1
  <2> QED
    BY <1>1, <2>2, <2>3, JoinHolds
<1> QED
  BY <1>1, <1>3, <1>4 DEF t, u

LEMMA FullJoin ==
  ASSUME NEW C, NEW s \in Str(C), NEW text \in Seq(C), NEW old \in Seq(C), s.len + Len(text) + 1 <= s.alloc
  PROVE  Kept(s, TstrJoin(s, text), C, old, old \o text, TRUE) /\ TstrJoin(s, text).refused = s.refused
<1> DEFINE t == TstrJoin(s, text)
<1>1. text \in Seq(StrBytes(C)) /\ s.len \in Nat /\ s.alloc \in Nat /\ Len(text) \in Nat
  BY BytesOf, StrLoose, StrFields
<1>2. t \in Str(C) /\ t.refused = s.refused /\ Lost(t) = Lost(s) /\ t.data = s.data
  BY <1>1, JoinOf
<1>3. ASSUME Holds(s, old) PROVE Holds(t, old \o text)
  <2>1. /\ s.defined /\ s.len = Len(old) /\ s.data # "stale" /\ (s.data = "null" => s.alloc = 0)
        /\ s.data = "live" => \A i \in 1 .. s.len : s.mem[i] = old[i]
    BY <1>3, HoldsLive
  <2>2. s.data = "live"
    <3>1. s.alloc # 0
      BY <1>1
    <3>2. s.data \in {"null", "live", "stale"}
      BY StrLoose, StrFields
    <3> QED
      BY <2>1, <3>1, <3>2
  <2> QED
    BY <2>1, <2>2, JoinHolds
<1> QED
  BY <1>2, <1>3 DEF Kept, t

LEMMA HoldsIntro ==
  ASSUME NEW t, NEW text, NEW l \in Nat, t.defined, t.data = "live", t.len = l, Len(text) = l, l + 1 <= t.alloc,
         \A i \in 1 .. l : t.mem[i] = text[i], t.mem[l + 1] = NUL
  PROVE  Holds(t, text)
BY DEF Holds

LEMMA EmptiedOf ==
  ASSUME NEW C, NEW s \in Str(C), s.data # "live"
  PROVE  LET t == Emptied(s)
         IN  /\ t \in Str(C) /\ t.data = "null" /\ t.len = 0 /\ t.alloc = 0 /\ t.mem = <<>>
             /\ t.refused = s.refused /\ Lost(t) = Lost(s) /\ t.defined = s.defined
<1> DEFINE t == Emptied(s)
<1>1. s \in StrOver(C) /\ StrSound(s) /\ <<>> \in Seq(StrBytes(C)) /\ Lost(s) \in 0 .. s.refused
  BY StrLoose
<1>2. /\ t \in StrOver(C) /\ t.data = "null" /\ t.len = 0 /\ t.alloc = 0 /\ t.mem = <<>>
      /\ t.blocks = s.blocks /\ t.refused = s.refused /\ t.defined = s.defined
  BY <1>1 DEF StrOver, Emptied
<1> HIDE DEF t
<1>3. Lost(t) = Lost(s)
  BY <1>2 DEF Lost, Owned
<1>4. t \in Str(C)
  BY <1>1, <1>2, <1>3 DEF Str, StrSound
<1> QED
  BY <1>2, <1>3, <1>4 DEF t

\* A block for a string that has none.
LEMMA PlacedOf ==
  ASSUME NEW C, NEW s \in Str(C), s.data # "live", NEW bytes \in Seq(StrBytes(C)), s.alloc <= Len(bytes) + Slack
  PROVE  LET t == TstrBlock(s, bytes)
         IN  /\ t \in Str(C) /\ t.data = "live" /\ t.len = s.len /\ t.alloc = s.alloc
             /\ t.refused = s.refused /\ t.defined = s.defined /\ Lost(t) = Lost(s)
             /\ Len(t.mem) = Len(bytes) + Slack /\ \A i \in 1 .. Len(bytes) : t.mem[i] = bytes[i]
<1> DEFINE t == TstrBlock(s, bytes)
<1>1. s \in StrOver(C) /\ Lost(s) \in 0 .. s.refused
  BY StrLoose
<1>2. /\ t \in Loose(C) /\ t.data = "live" /\ t.len = s.len /\ t.alloc = s.alloc
      /\ t.refused = s.refused /\ t.defined = s.defined /\ Lost(t) = Lost(s)
      /\ Len(t.mem) = Len(bytes) + Slack /\ \A i \in 1 .. Len(bytes) : t.mem[i] = bytes[i]
  BY <1>1, BlockOf
<1> HIDE DEF t
<1>3. t \in Str(C)
  BY <1>2 DEF Loose, Str, StrSound
<1> QED
  BY <1>2, <1>3 DEF t

Sized(s, l, a) == [s EXCEPT !.len = l, !.alloc = a]
LEMMA SizedOf ==
  ASSUME NEW C, NEW s \in Str(C), s.data # "live", NEW l \in Nat, NEW a \in Nat,
         NEW t, t = Sized(s, l, a)
  PROVE  /\ t \in Str(C) /\ t.data = s.data /\ t.len = l /\ t.alloc = a /\ t.mem = s.mem
         /\ t.refused = s.refused /\ Lost(t) = Lost(s) /\ t.defined = s.defined
<1>1. s \in StrOver(C) /\ StrSound(s)
  BY DEF Str
<1>2. /\ t \in StrOver(C) /\ t.data = s.data /\ t.len = l /\ t.alloc = a /\ t.mem = s.mem
      /\ t.blocks = s.blocks /\ t.refused = s.refused /\ t.defined = s.defined
  BY <1>1 DEF StrOver, Sized
<1>3. Lost(t) = Lost(s)
  BY <1>2 DEF Lost, Owned
<1>4. t \in Str(C)
  BY <1>1, <1>2, <1>3 DEF Str, StrSound
<1> QED
  BY <1>2, <1>3, <1>4

LEMMA NewOf ==
  ASSUME NEW C, NEW s \in Str(C), s.data = "null", NEW n \in Nat, NEW t \in TstrNew(s, n), NEW old \in Seq(C)
  PROVE  Kept(s, t, C, old, <<>>, TRUE) /\ (t.data = "live" => t.alloc = n + 1)
<1> DEFINE e == Emptied(s)
           v == [e EXCEPT !.alloc = n + 1]
           z == RunOf(NUL, n + 1)
           b == TstrBlock(v, z)
<1>1. /\ e \in Str(C) /\ e.data = "null" /\ e.len = 0 /\ e.alloc = 0 /\ e.mem = <<>>
      /\ e.refused = s.refused /\ Lost(e) = Lost(s) /\ e.defined = s.defined
  BY EmptiedOf
<1>2. t = b \/ t \in TstrRefused(e)
  BY DEF TstrNew
<1> HIDE DEF e
<1>3. /\ v \in Str(C) /\ v.data = "null" /\ v.len = 0 /\ v.alloc = n + 1
      /\ v.refused = s.refused /\ Lost(v) = Lost(s) /\ v.defined = s.defined
  <2>1. e \in Loose(C) /\ n + 1 \in Nat
    BY <1>1, StrLoose
  <2> QED
    BY <1>1, <2>1, AllocOf
<1>4. z \in Seq(StrBytes(C)) /\ Len(z) = n + 1 /\ z[1] = NUL
  <2> DEFINE q == n + 1
  <2>1. q \in Int /\ q >= 0 /\ 1 \in 1 .. q /\ NUL \in StrBytes(C)
    BY DEF StrBytes
  <2> HIDE DEF q
  <2>2. RunOf(NUL, q) \in Seq(StrBytes(C)) /\ Len(RunOf(NUL, q)) = (IF q >= 0 THEN q ELSE 0)
        /\ \A i \in 1 .. q : RunOf(NUL, q)[i] = NUL
    BY <2>1, RunOfType
  <2> QED
    BY <2>1, <2>2 DEF q
<1> HIDE DEF v, z
<1>5. /\ b \in Str(C) /\ b.data = "live" /\ b.len = v.len /\ b.alloc = v.alloc
      /\ b.refused = v.refused /\ b.defined = v.defined /\ Lost(b) = Lost(v)
      /\ \A i \in 1 .. Len(z) : b.mem[i] = z[i]
  <2>1. v.alloc <= Len(z) + Slack
    BY <1>3, <1>4, SlackAssumption
  <2>2. v \in Str(C) /\ v.data # "live" /\ z \in Seq(StrBytes(C))
    BY <1>3, <1>4
  <2> QED
    BY ONLY <2>1, <2>2, PlacedOf DEF b
<1>6. ASSUME Holds(s, old), t = b PROVE Kept(s, t, C, old, <<>>, TRUE)
  <2>1. s.defined
    BY <1>6 DEF Holds
  <2>2. t.mem[0 + 1] = NUL
    <3>1. 1 \in 1 .. Len(z)
      BY <1>4
    <3> QED
      BY <1>4, <1>5, <1>6, <3>1
  <2>3. Len(<<>>) = 0 /\ 1 .. 0 = {}
    OBVIOUS
  <2>4. Holds(t, <<>>)
    <3>1. /\ 0 \in Nat /\ t.defined /\ t.data = "live" /\ t.len = 0 /\ 0 + 1 <= t.alloc
          /\ \A i \in 1 .. 0 : t.mem[i] = <<>>[i]
      <4>1. t.defined
        BY <1>3, <1>5, <1>6, <2>1, Zenon
      <4> QED
        BY <1>3, <1>5, <1>6, <2>3, <4>1
    <3> QED
      BY ONLY <2>2, <2>3, <3>1, HoldsIntro
  <2> QED
    BY <1>3, <1>5, <1>6, <2>4 DEF Kept
<1>7. ASSUME Holds(s, old), t \in TstrRefused(e) PROVE Kept(s, t, C, old, <<>>, TRUE)
  <2>1. /\ t \in Str(C) /\ t.data = e.data /\ t.len = e.len /\ t.alloc = e.alloc
        /\ t.refused = e.refused + 1 /\ t.defined = e.defined /\ Lost(t) = Lost(e)
    BY <1>1, <1>7, RefusedOf
  <2>2. s.defined /\ old = <<>>
    BY <1>7, HoldsLive
  <2>3. Len(old) = 0
    BY <2>2
  <2>4. Holds(t, old)
    BY <1>1, <2>1, <2>2, <2>3 DEF Holds
  <2> QED
    BY <1>1, <2>1, <2>2, <2>4 DEF Kept
<1>8. t \in Str(C) /\ t.refused \in {s.refused, s.refused + 1} /\ (t.data = "live" => t.alloc = n + 1)
  <2>1. t \in TstrRefused(e) => t \in Str(C) /\ t.refused = e.refused + 1 /\ t.data = e.data
    BY <1>1, RefusedOf
  <2> QED
    BY <1>1, <1>2, <1>3, <1>5, <2>1
<1> QED
  BY <1>2, <1>6, <1>7, <1>8 DEF Kept

LEMMA TextEnd ==
  ASSUME NEW C, NEW text \in Seq(C)
  PROVE  LET b == text \o <<NUL>>
         IN  /\ b \in Seq(StrBytes(C)) /\ Len(b) = Len(text) + 1
             /\ b[Len(text) + 1] = NUL /\ \A i \in 1 .. Len(text) : b[i] = text[i]
<1> DEFINE e == <<NUL>>
           b == text \o e
           S == StrBytes(C)
<1>1. text \in Seq(S) /\ e \in Seq(S) /\ Len(e) = 1 /\ e[1] = NUL /\ Len(text) \in Nat
  BY BytesOf DEF StrBytes
<1> HIDE DEF e, S
<1>2. /\ b \in Seq(S) /\ Len(b) = Len(text) + Len(e)
      /\ \A i \in 1 .. Len(text) : b[i] = text[i]
      /\ \A i \in 1 .. Len(e) : b[Len(text) + i] = e[i]
  <2>1. text \in Seq(S) /\ e \in Seq(S)
    BY <1>1
  <2> QED
    BY ONLY <2>1, Joined
<1>3. 1 \in 1 .. Len(e)
  BY <1>1
<1> QED
  BY <1>1, <1>2, <1>3 DEF e, S

LEMMA FromCstrOf ==
  ASSUME NEW C, NEW s \in Str(C), s.data = "null", NEW text \in Seq(C), NEW t \in TstrFromCstr(s, text), NEW old \in Seq(C)
  PROVE  Kept(s, t, C, old, text, t.refused = s.refused)
<1> DEFINE e == Emptied(s)
           v == [e EXCEPT !.len = Len(text), !.alloc = Len(text) + 1]
           z == text \o <<NUL>>
           b == TstrBlock(v, z)
           k == Len(text)
<1>1. /\ e \in Str(C) /\ e.data = "null" /\ e.refused = s.refused /\ Lost(e) = Lost(s) /\ e.defined = s.defined
  BY EmptiedOf
<1>2. t = b \/ t \in TstrRefused(v)
  BY DEF TstrFromCstr
<1> HIDE DEF e
<1>k. k \in Nat /\ k + 1 \in Nat /\ Slack \in Nat
  BY SlackAssumption
<1>4. /\ z \in Seq(StrBytes(C)) /\ Len(z) = k + 1
      /\ z[k + 1] = NUL /\ \A i \in 1 .. k : z[i] = text[i]
  BY TextEnd
<1> HIDE DEF z, k
<1>3. /\ v \in Str(C) /\ v.data = "null" /\ v.len = k /\ v.alloc = k + 1
      /\ v.refused = s.refused /\ Lost(v) = Lost(s) /\ v.defined = s.defined
  <2>1. v = Sized(e, k, k + 1)
    BY DEF k, Sized
  <2> HIDE DEF v
  <2>2. e \in Str(C) /\ e.data # "live" /\ k \in Nat /\ k + 1 \in Nat
    BY <1>1, <1>k
  <2> DEFINE a == k + 1
  <2>3. a \in Nat /\ v = Sized(e, k, a)
    BY <2>1, <2>2
  <2> HIDE DEF a
  <2>4. /\ v \in Str(C) /\ v.data = e.data /\ v.len = k /\ v.alloc = a /\ v.mem = e.mem
        /\ v.refused = e.refused /\ Lost(v) = Lost(e) /\ v.defined = e.defined
    BY <2>2, <2>3, SizedOf
  <2> QED
    BY <1>1, <2>4 DEF a
<1> HIDE DEF v
<1>5. /\ b \in Str(C) /\ b.data = "live" /\ b.len = v.len /\ b.alloc = v.alloc
      /\ b.refused = v.refused /\ b.defined = v.defined /\ Lost(b) = Lost(v)
      /\ \A i \in 1 .. Len(z) : b.mem[i] = z[i]
  <2>1. v.alloc <= Len(z) + Slack
    BY <1>3, <1>4, <1>k
  <2>2. v \in Str(C) /\ v.data # "live" /\ z \in Seq(StrBytes(C))
    BY <1>3, <1>4
  <2> QED
    BY ONLY <2>1, <2>2, PlacedOf DEF b
<1>6. ASSUME t = b PROVE Kept(s, t, C, old, text, t.refused = s.refused)
  <2>1. /\ t.mem[k + 1] = NUL /\ \A i \in 1 .. k : t.mem[i] = text[i]
    <3>1. k + 1 \in 1 .. Len(z) /\ \A i \in 1 .. k : i \in 1 .. Len(z)
      BY <1>4, <1>k
    <3> QED
      BY <1>4, <1>5, <1>6, <3>1
  <2>2. ASSUME s.defined PROVE Holds(t, text)
    <3>0. t.defined
      BY <1>3, <1>5, <1>6, <2>2, Zenon
    <3>1. /\ k \in Nat /\ t.defined /\ t.data = "live" /\ t.len = k /\ Len(text) = k /\ k + 1 <= t.alloc
      BY <1>k, <1>3, <1>5, <1>6, <3>0 DEF k
    <3> QED
      BY ONLY <2>1, <3>1, HoldsIntro
  <2> QED
    BY <1>3, <1>5, <1>6, <2>2 DEF Kept, Holds
<1>7. ASSUME t \in TstrRefused(v) PROVE t \in Str(C) /\ t.refused = s.refused + 1 /\ t.refused # s.refused
  <2>1. t \in Str(C) /\ t.refused = v.refused + 1
    BY <1>3, <1>7, RefusedOf
  <2>2. s.refused \in Nat
    BY StrLoose, StrFields
  <2> QED
    BY <1>3, <2>1, <2>2
<1> QED
  BY <1>2, <1>6, <1>7 DEF Kept

LEMMA FromSliceOf ==
  ASSUME NEW C, NEW s \in Str(C), s.data = "null", NEW text \in Seq(C), NEW t \in TstrFromSlice(s, text), NEW old \in Seq(C)
  PROVE  Kept(s, t, C, old, text, t.refused = s.refused /\ text # <<>>)
<1> DEFINE e == Emptied(s)
           v == [e EXCEPT !.len = Len(text), !.alloc = Len(text) + 1]
           z == text \o <<NUL>>
           r == RunOf(Unset, Len(text))
           b == TstrBlock(v, r)
           w == TstrStore(b, 0, z)
           k == Len(text)
<1>1. /\ e \in Str(C) /\ e.data = "null" /\ e.refused = s.refused /\ Lost(e) = Lost(s) /\ e.defined = s.defined
  BY EmptiedOf
<1>2. (text = <<>> /\ t = v) \/ (text # <<>> /\ t = w) \/ t \in TstrRefused(v)
  BY DEF TstrFromSlice
<1> HIDE DEF e
<1>k. k \in Nat /\ k + 1 \in Nat /\ Slack \in Nat /\ Slack >= 1
  BY SlackAssumption
<1>4. /\ z \in Seq(StrBytes(C)) /\ Len(z) = k + 1
      /\ z[k + 1] = NUL /\ \A i \in 1 .. k : z[i] = text[i]
  BY TextEnd
<1>r. r \in Seq(StrBytes(C)) /\ Len(r) = k
  <2> DEFINE q == Len(text)
  <2>1. q \in Int /\ q >= 0 /\ Unset \in StrBytes(C)
    BY DEF StrBytes
  <2> HIDE DEF q
  <2>2. RunOf(Unset, q) \in Seq(StrBytes(C)) /\ Len(RunOf(Unset, q)) = (IF q >= 0 THEN q ELSE 0)
    BY <2>1, RunOfType
  <2> QED
    BY <2>1, <2>2 DEF q
<1> HIDE DEF z, k, r
<1>3. /\ v \in Str(C) /\ v.data = "null" /\ v.len = k /\ v.alloc = k + 1
      /\ v.refused = s.refused /\ Lost(v) = Lost(s) /\ v.defined = s.defined
  <2>1. v = Sized(e, k, k + 1)
    BY DEF k, Sized
  <2> HIDE DEF v
  <2>2. e \in Str(C) /\ e.data # "live" /\ k \in Nat /\ k + 1 \in Nat
    BY <1>1, <1>k
  <2> DEFINE a == k + 1
  <2>3. a \in Nat /\ v = Sized(e, k, a)
    BY <2>1, <2>2
  <2> HIDE DEF a
  <2>4. /\ v \in Str(C) /\ v.data = e.data /\ v.len = k /\ v.alloc = a /\ v.mem = e.mem
        /\ v.refused = e.refused /\ Lost(v) = Lost(e) /\ v.defined = e.defined
    BY <2>2, <2>3, SizedOf
  <2> QED
    BY <1>1, <2>4 DEF a
<1> HIDE DEF v
<1>5. /\ b \in Str(C) /\ b.data = "live" /\ b.len = v.len /\ b.alloc = v.alloc
      /\ b.refused = v.refused /\ b.defined = v.defined /\ Lost(b) = Lost(v) /\ Len(b.mem) = Len(r) + Slack
  <2>1. v.alloc <= Len(r) + Slack
    BY <1>3, <1>r, <1>k
  <2>2. v \in Str(C) /\ v.data # "live" /\ r \in Seq(StrBytes(C))
    BY <1>3, <1>r
  <2> QED
    BY ONLY <2>1, <2>2, PlacedOf DEF b
<1> HIDE DEF b
<1>w. /\ w \in Str(C) /\ w.data = b.data /\ w.len = b.len /\ w.alloc = b.alloc
      /\ w.refused = b.refused /\ Lost(w) = Lost(b) /\ w.defined = b.defined
      /\ \A i \in 1 .. k + 1 : w.mem[i] = z[i]
  <2> DEFINE N == Len(b.mem)
  <2>1. N = k + Slack /\ 0 + Len(z) <= N
    BY <1>4, <1>5, <1>r, <1>k
  <2>2. /\ w \in Str(C) /\ w.data = b.data /\ w.len = b.len /\ w.alloc = b.alloc
        /\ w.refused = b.refused /\ Lost(w) = Lost(b)
        /\ w.defined = (b.defined /\ (z = <<>> \/ (b.data = "live" /\ 0 + Len(z) <= N)))
        /\ b.data = "live" /\ 0 + Len(z) <= N => \A i \in 1 .. N :
                  w.mem[i] = IF 0 < i /\ i <= 0 + Len(z) THEN z[i - 0] ELSE b.mem[i]
    <3> DEFINE o == 0
    <3>1. b \in Str(C) /\ z \in Seq(StrBytes(C)) /\ o \in Nat
      BY <1>4, <1>5
    <3> HIDE DEF o
    <3>2. LET v1 == TstrStore(b, o, z)
              inside == b.data = "live" /\ o + Len(z) <= Len(b.mem)
          IN  /\ v1 \in Str(C) /\ v1.data = b.data /\ v1.len = b.len /\ v1.alloc = b.alloc
              /\ v1.refused = b.refused /\ Lost(v1) = Lost(b) /\ Len(v1.mem) = Len(b.mem)
              /\ v1.defined = (b.defined /\ (z = <<>> \/ inside))
              /\ inside => \A i \in 1 .. Len(b.mem) :
                   v1.mem[i] = IF o < i /\ i <= o + Len(z) THEN z[i - o] ELSE b.mem[i]
      BY <3>1, StoreOf
    <3> QED
      BY <3>2 DEF o
  <2>3. b.defined \in BOOLEAN
    <3>1. b \in StrOver(C)
      BY <1>5, StrLoose
    <3> QED
      BY <3>1, StrFields
  <2> HIDE DEF N, w
  <2>4. \A i \in 1 .. k + 1 : w.mem[i] = z[i]
    <3> SUFFICES ASSUME NEW i \in 1 .. k + 1 PROVE w.mem[i] = z[i]
      OBVIOUS
    <3>1. i \in 1 .. N /\ 0 < i /\ i <= 0 + Len(z) /\ i - 0 = i
      BY <1>4, <1>k, <2>1
    <3> QED
      BY <1>5, <2>1, <2>2, <3>1
  <2> QED
    BY <1>5, <2>1, <2>2, <2>3, <2>4
<1> HIDE DEF w
<1>6. ASSUME t = w PROVE Kept(s, t, C, old, text, t.refused = s.refused /\ text # <<>>)
  <2>1. /\ t.mem[k + 1] = NUL /\ \A i \in 1 .. k : t.mem[i] = text[i]
    <3>1. k + 1 \in 1 .. k + 1 /\ \A i \in 1 .. k : i \in 1 .. k + 1
      BY <1>k
    <3> QED
      BY <1>4, <1>w, <1>6, <3>1
  <2>2. ASSUME s.defined PROVE Holds(t, text)
    <3>0. t.defined
      BY <1>3, <1>5, <1>w, <1>6, <2>2, Zenon
    <3>1. /\ k \in Nat /\ t.defined /\ t.data = "live" /\ t.len = k /\ Len(text) = k /\ k + 1 <= t.alloc
      BY <1>k, <1>3, <1>5, <1>w, <1>6, <3>0 DEF k
    <3> QED
      BY ONLY <2>1, <3>1, HoldsIntro
  <2> QED
    BY <1>3, <1>5, <1>w, <1>6, <2>2 DEF Kept, Holds
<1>7. ASSUME t \in TstrRefused(v) PROVE t \in Str(C) /\ t.refused = s.refused + 1 /\ t.refused # s.refused
  <2>1. t \in Str(C) /\ t.refused = v.refused + 1
    BY <1>3, <1>7, RefusedOf
  <2>2. s.refused \in Nat
    BY StrLoose, StrFields
  <2> QED
    BY <1>3, <2>1, <2>2
<1> QED
  BY <1>2, <1>3, <1>6, <1>7 DEF Kept

LEMMA AppendJoin ==
  ASSUME NEW C, NEW old \in Seq(C), NEW c \in C
  PROVE  <<c>> \in Seq(C) /\ Len(<<c>>) = 1 /\ old \o <<c>> = Append(old, c)
OBVIOUS

LEMMA PushOf ==
  ASSUME NEW C, NEW s \in Str(C), NEW c \in C, NEW t \in TstrPush(s, c), NEW old \in Seq(C)
  PROVE  /\ Kept(s, t, C, old, Append(old, c), t.refused = s.refused /\ s.alloc > 0)
         /\ s.data # "stale" => t.data # "stale"
         /\ s.alloc > 0 => t.alloc > 0
<1> DEFINE text == <<c>>
           a == 2 * s.alloc
           g == TstrGrown(s, s.alloc)
           u == [s EXCEPT !.data = "null", !.mem = <<>>, !.alloc = 2 * @]
           new == Append(old, c)
<1>1. text \in Seq(C) /\ Len(text) = 1 /\ old \o text = new
  BY AppendJoin
<1>2. s \in StrOver(C) /\ s.len \in Nat /\ s.alloc \in Nat /\ a \in Nat /\ a <= s.alloc + s.alloc
      /\ s.refused \in Nat /\ Lost(s) \in 0 .. s.refused
  BY StrLoose, StrFields
<1> HIDE DEF text, new
<1>3. CASE t = TstrJoin(s, text) /\ s.len + 1 < s.alloc
  <2>1. s.len + Len(text) + 1 <= s.alloc
    BY <1>1, <1>2, <1>3
  <2>2. Kept(s, t, C, old, new, TRUE) /\ t.refused = s.refused
    BY <1>1, <1>3, <2>1, FullJoin
  <2>3. text \in Seq(StrBytes(C))
    BY <1>1, BytesOf
  <2>4. t.data = s.data /\ t.alloc = s.alloc
    BY <1>3, <2>3, JoinOf
  <2> QED
    BY <2>2, <2>4 DEF Kept, new
<1>4. CASE t = TstrFreed(s) /\ s.alloc = 0 /\ s.data # "null"
  <2>1. t \in Str(C) /\ t.refused = s.refused /\ (s.data # "stale" => t.data # "stale")
    BY <1>4, FreedOf
  <2> QED
    BY <1>4, <2>1 DEF Kept
<1>5. CASE t = TstrJoin([g EXCEPT !.alloc = 2 * @], text) /\ ~(s.len + 1 < s.alloc)
  <2>1. g.alloc = s.alloc
    BY <1>2, GrownAlloc
  <2>2. t = TstrJoin([g EXCEPT !.alloc = a], text)
    BY <1>5, <2>1
  <2>3. /\ t \in Str(C) /\ t.refused = s.refused /\ (s.data # "stale" => t.data # "stale") /\ t.alloc = a
        /\ Holds(s, old) /\ s.len + Len(text) + 1 <= a => Lost(t) = Lost(s) /\ Holds(t, old \o text)
    <3> HIDE DEF a
    <3>1. LET w == TstrJoin([TstrGrown(s, s.alloc) EXCEPT !.alloc = a], text)
          IN  /\ w \in Str(C) /\ w.refused = s.refused /\ (s.data # "stale" => w.data # "stale") /\ w.alloc = a
              /\ Holds(s, old) /\ s.len + Len(text) + 1 <= a => Lost(w) = Lost(s) /\ Holds(w, old \o text)
      BY <1>1, <1>2, GrownJoin
    <3> QED
      BY <2>2, <3>1
  <2>4. ASSUME Holds(s, old), s.alloc > 0 PROVE s.len + Len(text) + 1 <= a
    <3>1. s.len + 1 <= s.alloc
      BY <2>4, <1>2, HoldsLive DEF Holds
    <3> QED
      BY <1>1, <1>2, <2>4, <3>1
  <2>5. s.alloc > 0 => a > 0
    BY <1>2
  <2> QED
    BY <1>1, <2>3, <2>4, <2>5 DEF Kept, new
<1>6. CASE t \in TstrRefused(u)
  <2> DEFINE r == s.refused + 1
  <2>1. u = [s EXCEPT !.data = "null", !.mem = <<>>, !.alloc = a] /\ <<>> \in Seq(StrBytes(C))
    OBVIOUS
  <2>2. /\ u \in StrOver(C) /\ u.data = "null" /\ u.alloc = a /\ u.mem = <<>> /\ u.blocks = s.blocks /\ u.refused = s.refused
    BY <1>2, <2>1 DEF StrOver
  <2> HIDE DEF u
  <2>3. t = [u EXCEPT !.refused = r] /\ r \in Nat
    BY <1>2, <1>6, <2>2 DEF TstrRefused
  <2>4. t \in StrOver(C) /\ t.data = "null" /\ t.mem = <<>> /\ t.blocks = s.blocks /\ t.refused = r /\ t.alloc = a
    BY <2>2, <2>3 DEF StrOver
  <2>5. Lost(t) \in 0 .. t.refused
    <3>1. s.blocks \in Int /\ Owned(s) \in {0, 1} /\ Lost(s) = s.blocks - Owned(s)
      BY <1>2, StrFields
    <3>2. Lost(t) = s.blocks
      BY <2>4, <3>1 DEF Lost, Owned
    <3> QED
      BY <1>2, <2>4, <3>1, <3>2
  <2>6. t \in Str(C)
    BY <2>4, <2>5 DEF Str, StrSound
  <2>7. t.refused # s.refused
    BY <1>2, <2>4
  <2>8. s.alloc > 0 => a > 0
    BY <1>2
  <2> QED
    BY <2>4, <2>6, <2>7, <2>8 DEF Kept
<1>7. \/ t = TstrJoin(s, text) /\ s.len + 1 < s.alloc
      \/ t = TstrFreed(s) /\ s.alloc = 0 /\ s.data # "null"
      \/ t = TstrJoin([g EXCEPT !.alloc = 2 * @], text) /\ ~(s.len + 1 < s.alloc)
      \/ t \in TstrRefused(u)
  BY DEF TstrPush, text
<1> QED
  BY <1>3, <1>4, <1>5, <1>6, <1>7

LEMMA PushsliceOf ==
  ASSUME NEW C, NEW s \in Str(C), NEW text \in Seq(C), NEW t \in TstrPushslice(s, text), NEW old \in Seq(C)
  PROVE  Kept(s, t, C, old, old \o text, TRUE)
<1> DEFINE a == s.len + Len(text) + 1
           n == 2 * (a - s.alloc)
<1>1. s.len \in Nat /\ s.alloc \in Nat /\ Len(text) \in Nat /\ a \in Nat
  BY StrLoose, StrFields
<1>2. \/ t = TstrJoin(s, text) /\ a <= s.alloc
      \/ t = TstrJoin([TstrGrown(s, n) EXCEPT !.alloc = a], text) /\ ~(a <= s.alloc)
      \/ t \in TstrRefused(s)
  BY DEF TstrPushslice
<1>3. CASE t = TstrJoin(s, text) /\ a <= s.alloc
  BY <1>3, FullJoin
<1>4. CASE t = TstrJoin([TstrGrown(s, n) EXCEPT !.alloc = a], text) /\ ~(a <= s.alloc)
  <2>1. n \in Nat /\ a <= s.alloc + n /\ a <= a
    BY <1>1, <1>4
  <2>0. s.len + Len(text) + 1 <= a
    BY <2>1
  <2> HIDE DEF n, a
  <2>2. LET w == TstrJoin([TstrGrown(s, n) EXCEPT !.alloc = a], text)
        IN  /\ w \in Str(C) /\ w.refused = s.refused /\ (s.data # "stale" => w.data # "stale") /\ w.alloc = a
            /\ Holds(s, old) /\ s.len + Len(text) + 1 <= a => Lost(w) = Lost(s) /\ Holds(w, old \o text)
    BY <1>1, <2>1, GrownJoin
  <2> QED
    BY <1>4, <2>0, <2>2 DEF Kept
<1>5. CASE t \in TstrRefused(s)
  BY <1>5, KeptRefused
<1> QED
  BY <1>2, <1>3, <1>4, <1>5

LEMMA RepeatOf ==
  ASSUME NEW C, NEW s \in Str(C), NEW chunk \in Seq(C), NEW times \in Nat, NEW t \in TstrRepeat(s, chunk, times),
         NEW old \in Seq(C)
  PROVE  Kept(s, t, C, old, old \o FlattenSeq(RunOf(chunk, times)), TRUE) /\ FlattenSeq(RunOf(chunk, times)) \in Seq(C)
<1> DEFINE text == FlattenSeq(RunOf(chunk, times))
           a == s.len + Len(text) + 1
<1>0. RunOf(chunk, times) \in Seq(Seq(C)) /\ (times = 0 => RunOf(chunk, times) = <<>>)
  <2>1. times \in Int /\ (times = 0 => times <= 0)
    OBVIOUS
  <2> QED
    BY <2>1, RunOfType
<1>t. text \in Seq(C) /\ (times = 0 => text = <<>>)
  BY <1>0, FlattenType, FlattenEmpty
<1> HIDE DEF text
<1>1. s.len \in Nat /\ s.alloc \in Nat /\ Len(text) \in Nat /\ a \in Nat
  BY <1>t, StrLoose, StrFields
<1>2. \/ t = s /\ times = 0
      \/ t = TstrJoin(s, text) /\ a <= s.alloc
      \/ t = TstrJoin([TstrGrown(s, a) EXCEPT !.alloc = a], text)
      \/ t \in TstrRefused(s)
  BY DEF TstrRepeat, text
<1>6. ASSUME t = s /\ times = 0
      PROVE  Kept(s, t, C, old, old \o text, TRUE)
  <2>1. old \o text = old
    BY <1>t, <1>6, ConcatEmptySeq
  <2> QED
    BY <1>6, <2>1 DEF Kept
<1>3. ASSUME t = TstrJoin(s, text) /\ a <= s.alloc
      PROVE  Kept(s, t, C, old, old \o text, TRUE)
  BY <1>t, <1>3, FullJoin
<1>4. ASSUME t = TstrJoin([TstrGrown(s, a) EXCEPT !.alloc = a], text)
      PROVE  Kept(s, t, C, old, old \o text, TRUE)
  <2>1. a <= s.alloc + a /\ a <= a
    BY <1>1
  <2>0. s.len + Len(text) + 1 <= a
    BY <2>1
  <2> HIDE DEF a
  <2>2. LET w == TstrJoin([TstrGrown(s, a) EXCEPT !.alloc = a], text)
        IN  /\ w \in Str(C) /\ w.refused = s.refused /\ (s.data # "stale" => w.data # "stale") /\ w.alloc = a
            /\ Holds(s, old) /\ s.len + Len(text) + 1 <= a => Lost(w) = Lost(s) /\ Holds(w, old \o text)
    BY <1>t, <1>1, <2>1, GrownJoin
  <2> QED
    BY <1>4, <2>0, <2>2 DEF Kept
<1>5. ASSUME t \in TstrRefused(s)
      PROVE  Kept(s, t, C, old, old \o text, TRUE)
  BY <1>5, KeptRefused
<1>7. Kept(s, t, C, old, old \o text, TRUE)
  BY <1>2, <1>3, <1>4, <1>5, <1>6
<1> QED
  BY <1>t, <1>7 DEF text

LEMMA KeptStill ==
  ASSUME NEW C, NEW s \in Str(C), NEW old, NEW certain \in BOOLEAN
  PROVE  Kept(s, s, C, old, old, certain)
BY DEF Kept

LEMMA ReserveOf ==
  ASSUME NEW C, NEW s \in Str(C), NEW n \in Nat, NEW t \in TstrReserve(s, n), NEW old \in Seq(C)
  PROVE  Kept(s, t, C, old, old, TRUE)
<1> DEFINE a == s.alloc + n
           g == TstrGrown(s, n)
<1>1. s.len \in Nat /\ s.alloc \in Nat /\ a \in Nat /\ a <= s.alloc + n /\ s.data \in {"null", "live", "stale"}
  BY StrLoose, StrFields
<1>2. \/ t = s
      \/ t = [g EXCEPT !.alloc = @ + n] /\ s.data # "null"
      \/ t \in TstrRefused(s)
  BY DEF TstrReserve
<1>3. CASE t = s
  BY <1>3, KeptStill
<1>4. CASE t = [g EXCEPT !.alloc = @ + n] /\ s.data # "null"
  <2>1. g.alloc = s.alloc
    BY GrownAlloc
  <2>2. t = [TstrGrown(s, n) EXCEPT !.alloc = a]
    BY <1>4, <2>1
  <2> HIDE DEF a
  <2>3. /\ t \in Str(C) /\ t.len = s.len /\ t.alloc = a
        /\ t.refused = s.refused /\ Lost(t) = Lost(s)
        /\ t.data = (IF s.data = "stale" THEN "stale" ELSE "live")
        /\ t.defined = (s.defined /\ s.data # "stale")
        /\ s.data = "live" => \A i \in 1 .. s.alloc : t.mem[i] = s.mem[i]
    <3>1. LET w == [TstrGrown(s, n) EXCEPT !.alloc = a]
          IN /\ w \in Str(C) /\ w.len = s.len /\ w.alloc = a
             /\ w.refused = s.refused /\ Lost(w) = Lost(s)
             /\ w.data = (IF s.data = "stale" THEN "stale" ELSE "live")
             /\ w.defined = (s.defined /\ s.data # "stale")
             /\ s.data = "live" => \A i \in 1 .. s.alloc : w.mem[i] = s.mem[i]
             /\ w.data = "live" => s.alloc + n <= Len(w.mem)
             /\ TstrGrown(s, n).alloc = s.alloc
      BY <1>1, GrownOf
    <3> QED
      BY <2>2, <3>1
  <2>4. ASSUME Holds(s, old) PROVE Holds(t, old)
    <3>1. /\ s.defined /\ s.len = Len(old) /\ s.data # "stale"
          /\ s.data = "live" => /\ s.len + 1 <= s.alloc
                                /\ \A i \in 1 .. s.len : s.mem[i] = old[i]
                                /\ s.mem[s.len + 1] = NUL
      BY <2>4, HoldsLive
    <3>2. s.data = "live" /\ t.data = "live"
      BY <1>1, <1>4, <2>3, <3>1
    <3>3. s.len + 1 \in 1 .. s.alloc /\ (\A i \in 1 .. s.len : i \in 1 .. s.alloc) /\ s.len + 1 <= a
      BY <1>1, <3>1, <3>2 DEF a
    <3>4. /\ \A i \in 1 .. s.len : t.mem[i] = old[i]
          /\ t.mem[s.len + 1] = NUL
      BY <2>3, <3>1, <3>2, <3>3
    <3>5. t.defined
      BY <2>3, <3>1, Zenon
    <3>6. s.len \in Nat /\ t.len = s.len /\ s.len + 1 <= t.alloc
      BY <1>1, <2>3, <3>3
    <3> DEFINE l == s.len
    <3>7. /\ l \in Nat /\ t.defined /\ t.data = "live" /\ t.len = l /\ Len(old) = l /\ l + 1 <= t.alloc
          /\ (\A i \in 1 .. l : t.mem[i] = old[i]) /\ t.mem[l + 1] = NUL
      BY <3>1, <3>2, <3>4, <3>5, <3>6
    <3> HIDE DEF l
    <3> QED
      BY ONLY <3>7, HoldsIntro
  <2> QED
    BY <2>3, <2>4 DEF Kept
<1>5. CASE t \in TstrRefused(s)
  BY <1>5, KeptRefused
<1> QED
  BY <1>2, <1>3, <1>4, <1>5

LEMMA PopOf ==
  ASSUME NEW C, NEW s \in Str(C), NEW old \in Seq(C)
  PROVE  Kept(s, TstrPop(s), C, old, IF old = <<>> THEN old ELSE Front(old), TRUE)
<1> DEFINE t == TstrPop(s)
           b == <<NUL>>
           at == s.len - 1
           u == TstrStore(s, at, b)
           new == IF old = <<>> THEN old ELSE Front(old)
<1>1. s.len \in Nat /\ s.alloc \in Nat /\ s.data \in {"null", "live", "stale"} /\ s.mem \in Seq(StrBytes(C))
      /\ s.defined \in BOOLEAN
  BY StrLoose, StrFields
<1>2. CASE s.data = "null" \/ s.len = 0
  <2>1. t = s
    BY <1>2 DEF TstrPop
  <2>2. ASSUME Holds(s, old) PROVE new = old
    <3>1. Len(old) = 0
      BY <1>2, <2>2 DEF Holds
    <3>2. old = <<>>
      BY <3>1, EmptySeq
    <3> QED
      BY <3>2
  <2> HIDE DEF t, new
  <2>3. Kept(s, t, C, old, new, TRUE)
    BY <2>1, <2>2 DEF Kept
  <2> QED
    BY <2>3 DEF t, new
<1>3. CASE ~(s.data = "null" \/ s.len = 0)
  <2>1. at \in Nat /\ b \in Seq(StrBytes(C)) /\ Len(b) = 1 /\ b[1] = NUL /\ b # <<>>
    BY <1>1, <1>3 DEF StrBytes
  <2> HIDE DEF b, at
  <2>2. LET v == TstrStore(s, at, b)
            inside == s.data = "live" /\ at + Len(b) <= Len(s.mem)
        IN  /\ v \in Str(C) /\ v.data = s.data /\ v.len = s.len /\ v.alloc = s.alloc
            /\ v.refused = s.refused /\ Lost(v) = Lost(s) /\ Len(v.mem) = Len(s.mem)
            /\ v.defined = (s.defined /\ (b = <<>> \/ inside))
            /\ inside => \A i \in 1 .. Len(s.mem) :
                 v.mem[i] = IF at < i /\ i <= at + Len(b) THEN b[i - at] ELSE s.mem[i]
    BY <2>1, StoreOf
  <2> HIDE DEF u
  <2>3. t = [u EXCEPT !.len = at] /\ u.len - 1 = at /\ u \in Str(C)
    BY <1>3, <2>2 DEF TstrPop, u, at, b
  <2> HIDE DEF t
  <2>4. /\ t \in Str(C) /\ t.data = u.data /\ t.len = at /\ t.alloc = u.alloc /\ t.mem = u.mem
        /\ t.refused = u.refused /\ Lost(t) = Lost(u) /\ t.defined = u.defined
    BY <2>1, <2>3, LengthOf
  <2>5. ASSUME Holds(s, old) PROVE Holds(t, new)
    <3>1. /\ s.defined /\ s.len = Len(old) /\ s.data # "stale"
          /\ s.data = "live" => /\ s.len + 1 <= s.alloc /\ s.alloc <= Len(s.mem)
                                /\ \A i \in 1 .. s.len : s.mem[i] = old[i]
      BY <2>5, HoldsLive
    <3>2. s.data = "live"
      BY <1>1, <1>3, <3>1
    <3>3. /\ at + Len(b) <= Len(s.mem) /\ at + 1 \in 1 .. Len(s.mem)
          /\ \A i \in 1 .. at : i \in 1 .. Len(s.mem) /\ i \in 1 .. s.len /\ ~(at < i)
      BY <1>1, <1>3, <2>1, <3>1, <3>2 DEF at
    <3>4. \A i \in 1 .. Len(s.mem) : t.mem[i] = IF at < i /\ i <= at + Len(b) THEN b[i - at] ELSE s.mem[i]
      BY <2>2, <2>4, <3>2, <3>3 DEF u
    <3>5. new = SubSeq(old, 1, at) /\ Len(new) = at /\ \A i \in 1 .. at : new[i] = old[i]
      <4>1. old # <<>>
        BY <1>1, <1>3, <3>1
      <4>2. at = Len(old) - 1
        BY <3>1 DEF at
      <4>3. new = SubSeq(old, 1, at)
        BY <4>1, <4>2 DEF Front
      <4>4. 1 \in Nat \ {0} /\ at \in Nat /\ at <= Len(old) /\ 1 <= at + 1
        BY <2>1, <4>2
      <4>5. Len(SubSeq(old, 1, at)) = at - 1 + 1 /\ \A i \in 1 .. at - 1 + 1 : SubSeq(old, 1, at)[i] = old[1 + i - 1]
        BY <4>4, Cut
      <4> QED
        BY <2>1, <4>3, <4>5
    <3>6. t.mem[at + 1] = NUL
      <4>1. at < at + 1 /\ at + 1 <= at + Len(b) /\ (at + 1) - at = 1
        BY <2>1
      <4> QED
        BY <2>1, <3>3, <3>4, <4>1
    <3>7. \A i \in 1 .. at : t.mem[i] = new[i]
      BY <3>1, <3>2, <3>3, <3>4, <3>5
    <3>8. t.defined
      BY <2>2, <2>4, <3>1, <3>2, <3>3, Zenon DEF u
    <3>9. t.data = "live" /\ t.len = at /\ at + 1 <= t.alloc
      BY <1>1, <2>2, <2>4, <3>1, <3>2 DEF u, at
    <3> HIDE DEF new
    <3>10. at \in Nat /\ Len(new) = at
      BY <2>1, <3>5
    <3> QED
      BY ONLY <3>6, <3>7, <3>8, <3>9, <3>10, HoldsIntro
  <2> HIDE DEF new
  <2>6. Kept(s, t, C, old, new, TRUE)
    BY <2>2, <2>4, <2>5 DEF Kept, u
  <2> QED
    BY <2>6 DEF t, new
<1> QED
  BY <1>2, <1>3

LEMMA ClearOf ==
  ASSUME NEW C, NEW s \in Str(C), NEW old \in Seq(C)
  PROVE  Kept(s, TstrClear(s), C, old, <<>>, TRUE) /\ TstrClear(s).refused = s.refused
         /\ TstrClear(s).data = s.data /\ TstrClear(s).alloc = s.alloc
<1> DEFINE t == TstrClear(s)
           b == RunOf(NUL, s.len)
           u == TstrStore(s, 0, b)
<1>1. s.len \in Nat /\ s.alloc \in Nat /\ s.data \in {"null", "live", "stale"} /\ s.mem \in Seq(StrBytes(C))
      /\ s.defined \in BOOLEAN
  BY StrLoose, StrFields
<1>2. CASE s.data = "null"
  <2>1. t = s
    BY <1>2 DEF TstrClear
  <2>2. ASSUME Holds(s, old) PROVE old = <<>>
    BY <1>2, <2>2, HoldsLive
  <2> HIDE DEF t
  <2> QED
    BY <2>1, <2>2 DEF Kept, t
<1>3. CASE s.data # "null"
  <2>1. b \in Seq(StrBytes(C)) /\ Len(b) = s.len /\ \A i \in 1 .. s.len : b[i] = NUL
    <3> DEFINE q == s.len
    <3>1. q \in Int /\ q >= 0 /\ NUL \in StrBytes(C)
      BY <1>1 DEF StrBytes
    <3> HIDE DEF q
    <3>2. RunOf(NUL, q) \in Seq(StrBytes(C)) /\ Len(RunOf(NUL, q)) = (IF q >= 0 THEN q ELSE 0)
          /\ \A i \in 1 .. q : RunOf(NUL, q)[i] = NUL
      BY <3>1, RunOfType
    <3> QED
      BY <3>1, <3>2 DEF q
  <2> DEFINE o == 0
  <2>0. o \in Nat /\ o = 0 /\ u = TstrStore(s, o, b)
    OBVIOUS
  <2> HIDE DEF b, o
  <2>2. LET v == TstrStore(s, o, b)
            inside == s.data = "live" /\ o + Len(b) <= Len(s.mem)
        IN  /\ v \in Str(C) /\ v.data = s.data /\ v.len = s.len /\ v.alloc = s.alloc
            /\ v.refused = s.refused /\ Lost(v) = Lost(s) /\ Len(v.mem) = Len(s.mem)
            /\ v.defined = (s.defined /\ (b = <<>> \/ inside))
            /\ inside => \A i \in 1 .. Len(s.mem) :
                 v.mem[i] = IF o < i /\ i <= o + Len(b) THEN b[i - o] ELSE s.mem[i]
    BY <2>0, <2>1, StoreOf
  <2> HIDE DEF u
  <2>3. t = [u EXCEPT !.len = 0] /\ u \in Str(C)
    BY <1>3, <2>0, <2>2 DEF TstrClear, u, b
  <2> HIDE DEF t
  <2>4. /\ t \in Str(C) /\ t.data = u.data /\ t.len = 0 /\ t.alloc = u.alloc /\ t.mem = u.mem
        /\ t.refused = u.refused /\ Lost(t) = Lost(u) /\ t.defined = u.defined
    <3> DEFINE z == 0
    <3>1. z \in Nat /\ u \in Str(C) /\ t = [u EXCEPT !.len = z]
      BY <2>3
    <3> HIDE DEF z
    <3>2. /\ t \in Str(C) /\ t.data = u.data /\ t.len = z /\ t.alloc = u.alloc /\ t.mem = u.mem
          /\ t.refused = u.refused /\ Lost(t) = Lost(u) /\ t.defined = u.defined
      BY <3>1, LengthOf
    <3> QED
      BY <3>2 DEF z
  <2>5. ASSUME Holds(s, old) PROVE Holds(t, <<>>)
    <3>1. /\ s.defined /\ s.len = Len(old) /\ s.data # "stale"
          /\ s.data = "live" => /\ s.len + 1 <= s.alloc /\ s.alloc <= Len(s.mem)
                                /\ s.mem[s.len + 1] = NUL
      BY <2>5, HoldsLive
    <3>2. s.data = "live"
      BY <1>1, <1>3, <3>1
    <3>3. o + Len(b) <= Len(s.mem) /\ 1 \in 1 .. Len(s.mem)
      BY <1>1, <2>0, <2>1, <3>1, <3>2
    <3>4. \A i \in 1 .. Len(s.mem) : t.mem[i] = IF o < i /\ i <= o + Len(b) THEN b[i - o] ELSE s.mem[i]
      BY <2>0, <2>2, <2>4, <3>2, <3>3
    <3>6. t.mem[0 + 1] = NUL
      <4>1. t.mem[1] = IF o < 1 /\ 1 <= o + Len(b) THEN b[1 - o] ELSE s.mem[1]
        BY <3>3, <3>4
      <4>2. CASE s.len = 0
        BY <1>1, <2>0, <2>1, <3>1, <3>2, <4>1, <4>2
      <4>3. CASE s.len # 0
        <5>1. 1 \in 1 .. s.len /\ o < 1 /\ 1 <= o + Len(b) /\ 1 - o = 1
          BY <1>1, <2>0, <2>1, <4>3
        <5> QED
          BY <2>1, <4>1, <5>1
      <4> QED
        BY <4>2, <4>3
    <3>8. t.defined
      BY <2>0, <2>2, <2>4, <3>1, <3>2, <3>3, Zenon
    <3>9. t.data = "live" /\ t.len = 0 /\ 0 + 1 <= t.alloc /\ 0 \in Nat /\ Len(<<>>) = 0
      BY <1>1, <2>0, <2>2, <2>4, <3>1, <3>2
    <3>10. \A i \in 1 .. 0 : t.mem[i] = <<>>[i]
      OBVIOUS
    <3> QED
      BY ONLY <3>6, <3>8, <3>9, <3>10, HoldsIntro
  <2> QED
    BY <2>0, <2>2, <2>4, <2>5 DEF Kept, t
<1> QED
  BY <1>2, <1>3

LEMMA FreeOf ==
  ASSUME NEW C, NEW s \in Str(C), NEW old \in Seq(C)
  PROVE  LET t == TstrFree(s)
         IN  /\ Kept(s, t, C, old, <<>>, TRUE) /\ t.refused = s.refused /\ Lost(t) = Lost(s)
             /\ t.data = "null" /\ t.len = 0 /\ t.alloc = 0
<1> DEFINE t == TstrFree(s)
           f == TstrFreed(s)
<1>1. /\ f \in Str(C) /\ f.refused = s.refused /\ Lost(f) = Lost(s)
      /\ f.data = (IF s.data = "stale" THEN "stale" ELSE "null")
      /\ f.defined = (s.defined /\ s.data # "stale")
  BY FreedOf
<1>2. t = Emptied(f)
  BY DEF TstrFree
<1> HIDE DEF f, t
<1>3. /\ t \in Str(C) /\ t.data = "null" /\ t.len = 0 /\ t.alloc = 0 /\ t.mem = <<>>
      /\ t.refused = f.refused /\ Lost(t) = Lost(f) /\ t.defined = f.defined
  <2>1. f.data # "live"
    BY <1>1
  <2> QED
    BY <1>1, <1>2, <2>1, EmptiedOf
<1>4. ASSUME Holds(s, old) PROVE Holds(t, <<>>)
  <2>1. s.defined /\ s.data # "stale"
    BY <1>4, HoldsLive
  <2>2. t.defined
    BY <1>1, <1>3, <2>1, Zenon
  <2>3. Len(<<>>) = 0
    OBVIOUS
  <2> QED
    BY <1>3, <2>2, <2>3 DEF Holds
<1> QED
  BY <1>1, <1>3, <1>4 DEF Kept, t

LEMMA MinOfTwo ==
  ASSUME NEW a \in Int, NEW b \in Int
  PROVE  Min({a, b}) = IF a <= b THEN a ELSE b
<1> DEFINE m == IF a <= b THEN a ELSE b
<1>1. m \in {a, b} /\ \A y \in {a, b} : m <= y
  OBVIOUS
<1>2. \A x \in {a, b} : (\A y \in {a, b} : x <= y) => x = m
  OBVIOUS
<1> HIDE DEF m
<1>3. Min({a, b}) = m
  BY <1>1, <1>2 DEF Min
<1> QED
  BY <1>3 DEF m

LEMMA FitOf ==
  ASSUME NEW C, NEW s \in Str(C), NEW t \in TstrFit(s), NEW old \in Seq(C)
  PROVE  Kept(s, t, C, old, old, t.refused = s.refused /\ (s.data # "null" \/ s.alloc = s.len + 1))
<1> DEFINE f == TstrFreed(s)
           l == s.len
           a == s.len + 1
           r == RunOf(Unset, s.len + 1)
           q == Min({s.alloc, s.len + 1})
           x == SubSeq(s.mem, 1, q)
           z == RunOf(Unset, s.len + 1 - s.alloc)
           kept == x \o z
           u == TstrBlock(f, kept)
           v == [f EXCEPT !.data = "stale"]
           certain == t.refused = s.refused /\ (s.data # "null" \/ s.alloc = s.len + 1)
<1>1. /\ s \in StrOver(C) /\ s.len \in Nat /\ s.alloc \in Nat /\ s.data \in {"null", "live", "stale"}
      /\ s.mem \in Seq(StrBytes(C)) /\ s.defined \in BOOLEAN /\ s.refused \in Nat /\ Slack \in Nat
      /\ Unset \in StrBytes(C) /\ Lost(s) \in 0 .. s.refused
  BY StrLoose, StrFields, SlackAssumption DEF StrBytes
<1>2. /\ f \in Str(C) /\ f.len = s.len /\ f.alloc = s.alloc /\ f.refused = s.refused /\ Lost(f) = Lost(s)
      /\ f.data = (IF s.data = "stale" THEN "stale" ELSE "null")
      /\ f.defined = (s.defined /\ s.data # "stale")
  BY FreedOf
<1>3. \/ t = s
      \/ s.data = "null" /\ s.alloc # s.len + 1 /\ t = [TstrBlock(s, r) EXCEPT !.alloc = a]
      \/ t \in TstrRefused(s)
      \/ s.data = "stale" /\ t = f
      \/ s.data = "live" /\ s.len + 1 # s.alloc /\ t = [u EXCEPT !.alloc = a]
      \/ s.data = "live" /\ t \in TstrRefused(v)
  BY <1>1 DEF TstrFit
<1> HIDE DEF f, certain
<1>4. CASE t = s
  BY <1>4, KeptStill DEF certain
<1>5. CASE t \in TstrRefused(s)
  <2>1. certain \in BOOLEAN
    BY DEF certain
  <2> QED
    BY <1>5, <2>1, KeptRefused DEF certain
<1>6. CASE s.data = "null" /\ s.alloc # s.len + 1 /\ t = [TstrBlock(s, r) EXCEPT !.alloc = a]
  <2>1. r \in Seq(StrBytes(C)) /\ Len(r) = a /\ a \in Nat
    <3>1. a \in Int /\ a >= 0 /\ a \in Nat
      BY <1>1
    <3> HIDE DEF a
    <3>2. RunOf(Unset, a) \in Seq(StrBytes(C)) /\ Len(RunOf(Unset, a)) = (IF a >= 0 THEN a ELSE 0)
      BY <1>1, <3>1, RunOfType
    <3> QED
      BY <3>1, <3>2 DEF a
  <2> DEFINE w == TstrBlock(s, r)
  <2> HIDE DEF r, a
  <2>2. w \in Loose(C) /\ w.data = "live" /\ w.refused = s.refused /\ Len(w.mem) = Len(r) + Slack
    BY <1>1, <1>6, <2>1, BlockOf
  <2> HIDE DEF w
  <2>3. t = [w EXCEPT !.alloc = a] /\ a <= Len(w.mem)
    BY <1>1, <1>6, <2>1, <2>2 DEF w
  <2>4. t \in Str(C) /\ t.refused = s.refused
    BY <2>1, <2>2, <2>3, AllocOf
  <2> QED
    BY <1>6, <2>4 DEF Kept
<1>7. CASE s.data = "stale" /\ t = f
  <2>1. ~Holds(s, old)
    BY <1>7 DEF Holds
  <2> QED
    BY <1>2, <1>7, <2>1 DEF Kept
<1>8. CASE s.data = "live" /\ s.len + 1 # s.alloc /\ t = [u EXCEPT !.alloc = a]
  <2>0. a \in Nat /\ a = l + 1 /\ l \in Nat /\ l = s.len
    BY <1>1
  <2>1. q = (IF s.alloc <= a THEN s.alloc ELSE a) /\ q \in Nat /\ s.alloc <= Len(s.mem)
    <3>1. s.alloc \in Int /\ a \in Int
      BY <1>1
    <3>2. s.alloc <= Len(s.mem)
      BY <1>8 DEF Str, StrSound
    <3>3. Min({s.alloc, a}) = IF s.alloc <= a THEN s.alloc ELSE a
      BY <3>1, MinOfTwo
    <3> QED
      BY <1>1, <3>2, <3>3
  <2> HIDE DEF q, l
  <2>2. x \in Seq(StrBytes(C)) /\ Len(x) = q /\ \A i \in 1 .. q : x[i] = s.mem[i]
    <3> DEFINE m == s.mem
    <3>1. m \in Seq(StrBytes(C)) /\ q \in Nat /\ q <= Len(m) /\ 1 \in Nat \ {0} /\ 1 <= q + 1
      BY <1>1, <2>0, <2>1
    <3> HIDE DEF m, a
    <3>2. SubSeq(m, 1, q) \in Seq(StrBytes(C)) /\ Len(SubSeq(m, 1, q)) = q - 1 + 1
          /\ \A i \in 1 .. q - 1 + 1 : SubSeq(m, 1, q)[i] = m[1 + i - 1]
      BY <3>1, Cut
    <3>3. SubSeq(m, 1, q) \in Seq(StrBytes(C)) /\ Len(SubSeq(m, 1, q)) = q
          /\ \A i \in 1 .. q : SubSeq(m, 1, q)[i] = m[i]
      BY <3>1, <3>2
    <3> QED
      BY <3>3 DEF m
  <2>3. z \in Seq(StrBytes(C)) /\ Len(z) = (IF a >= s.alloc THEN a - s.alloc ELSE 0)
    <3> DEFINE d == s.len + 1 - s.alloc
    <3>1. d \in Int /\ d = a - s.alloc
      BY <1>1
    <3> HIDE DEF d
    <3>2. RunOf(Unset, d) \in Seq(StrBytes(C)) /\ Len(RunOf(Unset, d)) = (IF d >= 0 THEN d ELSE 0)
      BY <1>1, <3>1, RunOfType
    <3>3. z = RunOf(Unset, d)
      BY DEF d
    <3> HIDE DEF z, a
    <3> QED
      BY <1>1, <2>0, <3>1, <3>2, <3>3
  <2> HIDE DEF x, z, a
  <2>4. kept \in Seq(StrBytes(C)) /\ Len(kept) = a /\ \A i \in 1 .. q : kept[i] = s.mem[i]
    <3>1. x \in Seq(StrBytes(C)) /\ z \in Seq(StrBytes(C))
      BY <2>2, <2>3
    <3>2. kept \in Seq(StrBytes(C)) /\ Len(kept) = Len(x) + Len(z) /\ \A i \in 1 .. Len(x) : kept[i] = x[i]
      BY ONLY <3>1, Joined
    <3> QED
      BY <1>1, <2>0, <2>1, <2>2, <2>3, <3>2
  <2> HIDE DEF kept
  <2>5. /\ u \in Loose(C) /\ u.data = "live" /\ u.len = f.len
        /\ u.refused = f.refused /\ u.defined = f.defined /\ Lost(u) = Lost(f)
        /\ Len(u.mem) = Len(kept) + Slack /\ \A i \in 1 .. Len(kept) : u.mem[i] = kept[i]
    <3>1. f \in StrOver(C) /\ f.data # "live" /\ Lost(f) \in 0 .. f.refused
      BY <1>2, <1>8, StrLoose
    <3> QED
      BY <2>4, <3>1, BlockOf
  <2> HIDE DEF u
  <2>6. /\ t \in Str(C) /\ t.data = u.data /\ t.len = u.len /\ t.alloc = a /\ t.mem = u.mem
        /\ t.refused = u.refused /\ Lost(t) = Lost(u) /\ t.defined = u.defined
    <3>1. a <= Len(u.mem)
      BY <1>1, <2>0, <2>4, <2>5
    <3>2. t = [u EXCEPT !.alloc = a]
      BY <1>8
    <3> QED
      BY <2>0, <2>5, <3>1, <3>2, AllocOf
  <2>7. ASSUME Holds(s, old) PROVE Holds(t, old)
    <3>1. /\ s.defined /\ s.len = Len(old) /\ s.data # "stale" /\ s.len + 1 <= s.alloc
          /\ (\A i \in 1 .. s.len : s.mem[i] = old[i]) /\ s.mem[s.len + 1] = NUL
      BY <1>8, <2>7, HoldsLive
    <3>2. q = a
      BY <1>1, <2>0, <2>1, <3>1
    <3>3. \A i \in 1 .. a : t.mem[i] = s.mem[i]
      BY <2>4, <2>5, <2>6, <3>2
    <3>4. /\ \A i \in 1 .. l : t.mem[i] = old[i]
          /\ t.mem[l + 1] = NUL
      <4>1. l + 1 \in 1 .. a /\ \A i \in 1 .. l : i \in 1 .. a
        BY <2>0
      <4> QED
        BY <2>0, <3>1, <3>3, <4>1
    <3>5. t.defined
      BY <1>2, <2>5, <2>6, <3>1, Zenon
    <3>6. l \in Nat /\ t.data = "live" /\ t.len = l /\ Len(old) = l /\ l + 1 <= t.alloc
      BY <1>2, <2>0, <2>5, <2>6, <3>1
    <3> QED
      BY ONLY <3>4, <3>5, <3>6, HoldsIntro
  <2> QED
    BY <1>2, <2>5, <2>6, <2>7 DEF Kept
<1>9. CASE s.data = "live" /\ t \in TstrRefused(v)
  <2>1. f \in StrOver(C) /\ Lost(f) \in 0 .. f.refused /\ f.mem = <<>> /\ f.data = "null" /\ f.refused \in Nat
    <3>1. f.data = "null"
      BY <1>2, <1>9
    <3>2. f \in StrOver(C) /\ StrSound(f)
      BY <1>2, StrLoose
    <3> QED
      BY <3>1, <3>2, <1>2, StrLoose, StrFields DEF StrSound
  <2>2. /\ v \in StrOver(C) /\ v.data = "stale" /\ v.mem = <<>> /\ v.blocks = f.blocks /\ v.refused = f.refused
    BY <2>1 DEF StrOver
  <2> HIDE DEF v
  <2>3. Lost(v) = Lost(f)
    BY <2>1, <2>2 DEF Lost, Owned
  <2>4. v \in Str(C)
    BY <2>1, <2>2, <2>3 DEF Str, StrSound
  <2>5. t \in Str(C) /\ t.refused = v.refused + 1
    BY <1>9, <2>4, RefusedOf
  <2>6. t.refused = s.refused + 1 /\ t.refused # s.refused
    BY <1>1, <1>2, <2>2, <2>5
  <2> QED
    BY <2>5, <2>6 DEF Kept
<1> QED
  BY <1>3, <1>4, <1>5, <1>6, <1>7, <1>8, <1>9

\* The least and the greatest of some places of a sequence.
LEMMA EndsOf ==
  ASSUME NEW n \in Nat, NEW K, K \subseteq 1 .. n, K # {}
  PROVE  Min(K) \in K /\ Max(K) \in K /\ Min(K) <= Max(K)
<1> DEFINE F == {n - i : i \in K}
<1>1. K \subseteq Nat /\ F \subseteq Nat /\ F # {}
  <2>1. \A i \in K : i \in Nat /\ n - i \in Nat
    OBVIOUS
  <2> QED
    BY <2>1
<1>2. \E x \in K : \A y \in K : x <= y
  BY <1>1, LeastNatural
<1>3. \E x \in K : \A y \in K : x >= y
  <2>1. PICK d \in F : \A e \in F : d <= e
    BY <1>1, LeastNatural
  <2>2. PICK x \in K : d = n - x
    BY <2>1
  <2>3. \A y \in K : n - x <= n - y
    BY <2>1, <2>2
  <2>4. \A y \in K : x \in Int /\ y \in Int
    BY <1>1
  <2> QED
    BY <2>2, <2>3, <2>4
<1>4. Min(K) \in K /\ \A y \in K : Min(K) <= y
  BY <1>2 DEF Min
<1>5. Max(K) \in K
  BY <1>3 DEF Max
<1> QED
  BY <1>4, <1>5

LEMMA TrimmedOf ==
  ASSUME NEW S, NEW text \in Seq(S), NEW set
  PROVE  /\ Trimmed(text, set) \in Seq(S) /\ Len(Trimmed(text, set)) \in Nat
         /\ Len(Trimmed(text, set)) <= Len(text)
<1> DEFINE kept == {i \in 1 .. Len(text) : text[i] \notin set}
           from == Min(kept)
           to == Max(kept)
           n == Len(text)
<1>1. n \in Nat /\ kept \subseteq 1 .. n
  OBVIOUS
<1>2. Trimmed(text, set) = IF kept = {} THEN <<>> ELSE SubSeq(text, from, to)
  BY DEF Trimmed
<1> HIDE DEF kept
<1>3. CASE kept = {}
  <2>1. <<>> \in Seq(S) /\ Len(<<>>) = 0 /\ 0 <= n
    BY <1>1
  <2> QED
    BY <1>2, <1>3, <2>1
<1>4. CASE kept # {}
  <2>1. from \in kept /\ to \in kept /\ from <= to
    BY <1>1, <1>4, EndsOf
  <2> HIDE DEF from, to, n
  <2>2. from \in Nat \ {0} /\ to \in Nat /\ to <= Len(text) /\ from <= to + 1
    BY <1>1, <2>1 DEF n
  <2>3. SubSeq(text, from, to) \in Seq(S) /\ Len(SubSeq(text, from, to)) = to - from + 1
    BY <2>2, Cut
  <2> QED
    BY <1>2, <1>4, <2>1, <2>2, <2>3
<1> QED
  BY <1>3, <1>4

LEMMA SameText ==
  ASSUME NEW S, NEW T, NEW a \in Seq(S), NEW b \in Seq(T), Len(a) = Len(b), \A i \in 1 .. Len(a) : a[i] = b[i]
  PROVE  a = b
<1>1. a \in Seq(S \union T) /\ b \in Seq(S \union T)
  <2>1. \A i \in 1 .. Len(a) : a[i] \in S \union T
    BY ElementOfSeq
  <2>2. \A i \in 1 .. Len(b) : b[i] \in S \union T
    BY ElementOfSeq
  <2>3. a \in [1 .. Len(a) -> S \union T] /\ Len(a) \in Nat
    BY <2>1
  <2>4. b \in [1 .. Len(b) -> S \union T] /\ Len(b) \in Nat
    BY <2>2
  <2> QED
    BY <2>3, <2>4
<1> QED
  BY <1>1, SeqEqual

LEMMA TextOf ==
  ASSUME NEW C, NEW s \in Str(C)
  PROVE  /\ TstrText(s) \in Seq(StrBytes(C))
         /\ \A old \in Seq(C) : Holds(s, old) => TstrText(s) = old
<1>1. s.mem \in Seq(StrBytes(C)) /\ s.len \in Nat /\ s.alloc \in Nat /\ <<>> \in Seq(StrBytes(C))
      /\ s.data \in {"null", "live", "stale"}
  BY StrLoose, StrFields
<1>2. ASSUME s.data = "live" /\ s.len <= Len(s.mem)
      PROVE  /\ TstrText(s) \in Seq(StrBytes(C)) /\ Len(TstrText(s)) = s.len
             /\ \A i \in 1 .. s.len : TstrText(s)[i] = s.mem[i]
  <2> DEFINE m == s.mem
             l == s.len
  <2>1. m \in Seq(StrBytes(C)) /\ l \in Nat /\ l <= Len(m) /\ 1 \in Nat \ {0} /\ 1 <= l + 1
    BY <1>1, <1>2
  <2>2. TstrText(s) = SubSeq(m, 1, l)
    BY <1>2 DEF TstrText
  <2> HIDE DEF m, l
  <2>3. SubSeq(m, 1, l) \in Seq(StrBytes(C)) /\ Len(SubSeq(m, 1, l)) = l - 1 + 1
        /\ \A i \in 1 .. l - 1 + 1 : SubSeq(m, 1, l)[i] = m[1 + i - 1]
    BY <2>1, Cut
  <2>4. SubSeq(m, 1, l) \in Seq(StrBytes(C)) /\ Len(SubSeq(m, 1, l)) = l
        /\ \A i \in 1 .. l : SubSeq(m, 1, l)[i] = m[i]
    BY <2>1, <2>3
  <2> QED
    BY <2>2, <2>4 DEF m, l
<1>3. ~(s.data = "live" /\ s.len <= Len(s.mem)) => TstrText(s) = <<>>
  BY DEF TstrText
<1>4. ASSUME NEW old \in Seq(C), Holds(s, old) PROVE TstrText(s) = old
  <2>1. /\ s.len = Len(old) /\ s.data # "stale" /\ (s.data = "null" => old = <<>>)
        /\ s.data = "live" => /\ s.len + 1 <= s.alloc /\ s.alloc <= Len(s.mem)
                              /\ \A i \in 1 .. s.len : s.mem[i] = old[i]
    BY <1>4, HoldsLive
  <2>2. CASE s.data = "live"
    <3>1. s.len <= Len(s.mem)
      BY <1>1, <2>1, <2>2
    <3> DEFINE x == TstrText(s)
    <3>2. x \in Seq(StrBytes(C)) /\ Len(x) = Len(old) /\ \A i \in 1 .. Len(x) : x[i] = old[i]
      BY <1>2, <2>1, <2>2, <3>1
    <3> HIDE DEF x
    <3>3. x = old
      BY <3>2, SameText
    <3> QED
      BY <3>3 DEF x
  <2>3. CASE s.data = "null"
    BY <1>3, <2>1, <2>3
  <2> QED
    BY <1>1, <2>1, <2>2, <2>3
<1> QED
  BY <1>1, <1>2, <1>3, <1>4

LEMMA TrimOf ==
  ASSUME NEW C, NEW s \in Str(C), NEW set, NEW old \in Seq(C)
  PROVE  Kept(s, TstrTrim(s, set), C, old, Trimmed(old, set), TRUE) /\ Trimmed(old, set) \in Seq(C)
<1> DEFINE t == TstrTrim(s, set)
           text == Trimmed(TstrText(s), set)
           k == Len(text)
           b == RunOf(NUL, s.alloc - k)
           u == TstrStore(s, 0, text)
           w == TstrStore(u, k, b)
           new == Trimmed(old, set)
<1>1. s.len \in Nat /\ s.alloc \in Nat /\ s.data \in {"null", "live", "stale"} /\ s.mem \in Seq(StrBytes(C))
      /\ s.defined \in BOOLEAN
  BY StrLoose, StrFields
<1>2. new \in Seq(C) /\ Len(new) <= Len(old) /\ Len(new) \in Nat
  BY TrimmedOf
<1>3. Holds(s, old) => new = text
  BY TextOf
<1>4. text \in Seq(StrBytes(C)) /\ k \in Nat
  BY TextOf, TrimmedOf
<1>5. CASE s.data = "null" \/ s.len = 0
  <2>1. t = s
    BY <1>5 DEF TstrTrim
  <2>2. ASSUME Holds(s, old) PROVE new = old
    <3>1. Len(old) = 0
      BY <1>5, <2>2 DEF Holds
    <3> HIDE DEF new
    <3>2. Len(new) = 0
      BY <1>2, <3>1
    <3> QED
      BY <1>2, <3>1, <3>2, EmptySeq
  <2> HIDE DEF t, new
  <2>3. Kept(s, t, C, old, new, TRUE)
    BY <2>1, <2>2 DEF Kept
  <2> QED
    BY <1>2, <2>3 DEF t, new
<1>6. CASE ~(s.data = "null" \/ s.len = 0)
  <2>t. t = [w EXCEPT !.len = k]
    BY <1>6 DEF TstrTrim
  <2> HIDE DEF text, t, new
  <2>1. /\ b \in Seq(StrBytes(C)) /\ Len(b) = (IF s.alloc - k >= 0 THEN s.alloc - k ELSE 0)
        /\ \A i \in 1 .. s.alloc - k : b[i] = NUL
    <3> DEFINE d == s.alloc - k
    <3>1. d \in Int /\ NUL \in StrBytes(C)
      BY <1>1, <1>4 DEF StrBytes
    <3> HIDE DEF d
    <3>2. RunOf(NUL, d) \in Seq(StrBytes(C)) /\ Len(RunOf(NUL, d)) = (IF d >= 0 THEN d ELSE 0)
          /\ \A i \in 1 .. d : RunOf(NUL, d)[i] = NUL
      BY <3>1, RunOfType
    <3> QED
      BY <3>2 DEF d
  <2> DEFINE o == 0
  <2>0. o \in Nat /\ o = 0 /\ u = TstrStore(s, o, text)
    OBVIOUS
  <2> HIDE DEF b, o, k, w, u
  <2>2. /\ u \in Str(C) /\ u.data = s.data /\ u.len = s.len /\ u.alloc = s.alloc
        /\ u.refused = s.refused /\ Lost(u) = Lost(s) /\ Len(u.mem) = Len(s.mem)
        /\ u.defined = (s.defined /\ (text = <<>> \/ (s.data = "live" /\ o + Len(text) <= Len(s.mem))))
        /\ s.data = "live" /\ o + Len(text) <= Len(s.mem) => \A i \in 1 .. Len(s.mem) :
               u.mem[i] = IF o < i /\ i <= o + Len(text) THEN text[i - o] ELSE s.mem[i]
    <3>1. LET v == TstrStore(s, o, text)
              inside == s.data = "live" /\ o + Len(text) <= Len(s.mem)
          IN  /\ v \in Str(C) /\ v.data = s.data /\ v.len = s.len /\ v.alloc = s.alloc
              /\ v.refused = s.refused /\ Lost(v) = Lost(s) /\ Len(v.mem) = Len(s.mem)
              /\ v.defined = (s.defined /\ (text = <<>> \/ inside))
              /\ inside => \A i \in 1 .. Len(s.mem) :
                   v.mem[i] = IF o < i /\ i <= o + Len(text) THEN text[i - o] ELSE s.mem[i]
      <4>1. s \in Str(C) /\ o \in Nat /\ text \in Seq(StrBytes(C))
        BY <1>4, <2>0
      <4> HIDE DEF text
      <4> QED
        BY ONLY <4>1, StoreOf
    <3> QED
      BY <2>0, <3>1
  <2>3. /\ w \in Str(C) /\ w.data = u.data /\ w.len = u.len /\ w.alloc = u.alloc
        /\ w.refused = u.refused /\ Lost(w) = Lost(u) /\ Len(w.mem) = Len(u.mem)
        /\ w.defined = (u.defined /\ (b = <<>> \/ (u.data = "live" /\ k + Len(b) <= Len(u.mem))))
        /\ u.data = "live" /\ k + Len(b) <= Len(u.mem) => \A i \in 1 .. Len(u.mem) :
               w.mem[i] = IF k < i /\ i <= k + Len(b) THEN b[i - k] ELSE u.mem[i]
    <3>1. LET v == TstrStore(u, k, b)
              inside == u.data = "live" /\ k + Len(b) <= Len(u.mem)
          IN  /\ v \in Str(C) /\ v.data = u.data /\ v.len = u.len /\ v.alloc = u.alloc
              /\ v.refused = u.refused /\ Lost(v) = Lost(u) /\ Len(v.mem) = Len(u.mem)
              /\ v.defined = (u.defined /\ (b = <<>> \/ inside))
              /\ inside => \A i \in 1 .. Len(u.mem) :
                   v.mem[i] = IF k < i /\ i <= k + Len(b) THEN b[i - k] ELSE u.mem[i]
      BY <1>4, <2>1, <2>2, StoreOf
    <3> QED
      BY <3>1 DEF w
  <2>4. /\ t \in Str(C) /\ t.data = w.data /\ t.len = k /\ t.alloc = w.alloc /\ t.mem = w.mem
        /\ t.refused = w.refused /\ Lost(t) = Lost(w) /\ t.defined = w.defined
    BY <1>4, <2>3, <2>t, LengthOf
  <2>5. ASSUME Holds(s, old) PROVE Holds(t, new)
    <3>1. /\ s.defined /\ s.len = Len(old) /\ s.data # "stale"
          /\ s.data = "live" => s.len + 1 <= s.alloc /\ s.alloc <= Len(s.mem)
      BY <2>5, HoldsLive
    <3>2. s.data = "live" /\ u.data = "live" /\ w.data = "live" /\ t.data = "live"
      BY <1>1, <1>6, <2>2, <2>3, <2>4, <3>1
    <3>3. new = text /\ k = Len(new) /\ k <= s.len
      BY <1>2, <1>3, <2>5, <3>1 DEF k
    <3> DEFINE N == Len(s.mem)
    <3>4. /\ N \in Nat /\ o + Len(text) <= N /\ k + Len(b) <= N /\ k + 1 <= s.alloc /\ s.alloc <= N
          /\ Len(b) = s.alloc - k
      BY <1>1, <1>4, <2>0, <2>1, <3>1, <3>2, <3>3 DEF k
    <3> HIDE DEF N
    <3>5. \A i \in 1 .. N : u.mem[i] = IF o < i /\ i <= o + Len(text) THEN text[i - o] ELSE s.mem[i]
      BY <2>2, <3>2, <3>4 DEF N
    <3>6. \A i \in 1 .. N : t.mem[i] = IF k < i /\ i <= k + Len(b) THEN b[i - k] ELSE u.mem[i]
      BY <2>2, <2>3, <2>4, <3>2, <3>4 DEF N
    <3>7. ASSUME NEW i \in 1 .. k PROVE t.mem[i] = new[i]
      <4>1. i \in 1 .. N /\ ~(k < i) /\ o < i /\ i <= o + Len(text) /\ i - o = i
        BY <1>1, <1>4, <2>0, <3>3, <3>4
      <4> QED
        BY <3>3, <3>5, <3>6, <4>1
    <3>8. t.mem[k + 1] = NUL
      <4>1. k + 1 \in 1 .. N /\ k < k + 1 /\ k + 1 <= k + Len(b) /\ (k + 1) - k = 1 /\ 1 \in 1 .. s.alloc - k
        BY <1>1, <1>4, <3>4
      <4> QED
        BY <2>1, <3>6, <4>1
    <3>9. t.defined
      <4>1. u.defined
        BY <2>2, <3>1, <3>2, <3>4, Zenon DEF N
      <4>2. k + Len(b) <= Len(u.mem)
        BY <2>2, <3>4 DEF N
      <4> QED
        BY <2>3, <2>4, <3>2, <4>1, <4>2, Zenon
    <3>10. k \in Nat /\ t.data = "live" /\ t.len = k /\ Len(new) = k /\ k + 1 <= t.alloc
      BY <1>4, <2>2, <2>3, <2>4, <3>2, <3>3, <3>4
    <3> QED
      BY ONLY <3>7, <3>8, <3>9, <3>10, HoldsIntro
  <2>6. Kept(s, t, C, old, new, TRUE)
    BY <2>2, <2>3, <2>4, <2>5 DEF Kept
  <2> QED
    BY <1>2, <2>6 DEF t, new
<1> QED
  BY <1>5, <1>6

-----------------------------------------------------------------------------
(* One string and its calls.                                               *)

StrInv ==
  /\ str \in Str(Chars) /\ said \in Seq(Chars) /\ sure \in BOOLEAN
  /\ sure => Holds(str, said) /\ Lost(str) = 0

LEMMA NoStringOf ==
  ASSUME NEW C
  PROVE  NoString \in Str(C) /\ Holds(NoString, <<>>) /\ Lost(NoString) = 0 /\ NoString.refused = 0
         /\ NoString.data = "null" /\ NoString.len = 0 /\ NoString.alloc = 0
<1>1. <<>> \in Seq(StrBytes(C)) /\ Len(<<>>) = 0
  OBVIOUS
<1> DEFINE s == NoString
<1>2. s = [data |-> "null", len |-> 0, alloc |-> 0, mem |-> <<>>, blocks |-> 0, refused |-> 0, defined |-> TRUE]
  BY DEF NoString
<1> HIDE DEF s
<1>3. /\ s \in StrOver(C) /\ s.data = "null" /\ s.len = 0 /\ s.alloc = 0 /\ s.mem = <<>> /\ s.blocks = 0
      /\ s.refused = 0 /\ s.defined
  BY <1>1, <1>2 DEF StrOver
<1>4. Lost(s) = 0
  BY <1>3 DEF Lost, Owned
<1>5. s \in Str(C)
  BY <1>3, <1>4 DEF Str, StrSound
<1>6. Holds(s, <<>>)
  BY <1>1, <1>3 DEF Holds
<1> QED
  BY <1>3, <1>4, <1>5, <1>6 DEF s

LEMMA StringInitial == StringInit => StrInv
<1> SUFFICES ASSUME StringInit PROVE StrInv
  OBVIOUS
<1>1. str = NoString /\ said = <<>> /\ sure = TRUE /\ <<>> \in Seq(Chars)
  BY DEF StringInit
<1> QED
  BY <1>1, NoStringOf DEF StrInv

LEMMA CallsKeep ==
  ASSUME StrInv, NEW t, NEW text \in Seq(Chars), Calls(t, text), Kept(str, t, Chars, said, text, TRUE)
  PROVE  StrInv'
<1>1. /\ str' = t /\ said' = (IF t.refused = str.refused THEN text ELSE said) /\ sure' = sure
      /\ said \in Seq(Chars) /\ sure \in BOOLEAN
  BY DEF StrInv, Calls, Obtained
<1>2. t \in Str(Chars)
  BY DEF Kept
<1>3. ASSUME sure PROVE Holds(t, said') /\ Lost(t) = 0
  BY <1>1, <1>3 DEF Kept, StrInv
<1>4. said' \in Seq(Chars)
  BY <1>1
<1>5. (sure => Holds(str, said) /\ Lost(str) = 0)'
  <2>1. (sure => Holds(str, said) /\ Lost(str) = 0)' <=> (sure => Holds(t, said') /\ Lost(t) = 0)
    BY <1>1 DEF Holds, Lost, Owned
  <2> QED
    BY <1>3, <2>1
<1> QED
  BY <1>1, <1>2, <1>4, <1>5 DEF StrInv

LEMMA UpsetsKeep ==
  ASSUME StrInv, NEW t, NEW text \in Seq(Chars), NEW fresh \in BOOLEAN, Upsets(t, text, fresh),
         Kept(str, t, Chars, said, text, t.refused = str.refused /\ fresh)
  PROVE  StrInv'
<1>1. /\ str' = t /\ said' = (IF t.refused = str.refused THEN text ELSE said)
      /\ sure' = (sure /\ t.refused = str.refused /\ fresh)
      /\ said \in Seq(Chars) /\ sure \in BOOLEAN
  BY DEF StrInv, Upsets, Obtained
<1>2. t \in Str(Chars)
  BY DEF Kept
<1>3. ASSUME sure' PROVE Holds(t, said') /\ Lost(t) = 0
  BY <1>1, <1>3 DEF Kept, StrInv
<1>4. said' \in Seq(Chars) /\ sure' \in BOOLEAN
  BY <1>1
<1>5. (sure => Holds(str, said) /\ Lost(str) = 0)'
  <2>1. (sure => Holds(str, said) /\ Lost(str) = 0)' <=> (sure' => Holds(t, said') /\ Lost(t) = 0)
    BY <1>1 DEF Holds, Lost, Owned
  <2> QED
    BY <1>3, <2>1
<1> QED
  BY <1>1, <1>2, <1>4, <1>5 DEF StrInv

LEMMA TextsType == Texts \subseteq Seq(Chars)
<1> SUFFICES ASSUME NEW x \in Texts PROVE x \in Seq(Chars)
  OBVIOUS
<1>1. PICK m \in 0 .. 2 : x \in [1 .. m -> Chars]
  BY DEF Texts, BoundedSeq, SeqOf
<1>2. m \in Nat
  OBVIOUS
<1> QED
  BY <1>1, <1>2

LEMMA StringStep == StrInv /\ StringNext => StrInv'
<1> SUFFICES ASSUME StrInv, StringNext PROVE StrInv'
  OBVIOUS
<1>0. str \in Str(Chars) /\ said \in Seq(Chars) /\ <<>> \in Seq(Chars)
  BY DEF StrInv
<1>e. 0 .. 2 \subseteq Nat /\ TRUE \in BOOLEAN
  OBVIOUS
<1>1. CASE CallNew
  <2>1. PICK n \in 0 .. 2 : \E t \in TstrNew(str, n) : Calls(t, <<>>)
    BY <1>1 DEF CallNew
  <2>2. PICK t \in TstrNew(str, n) : Calls(t, <<>>)
    BY <2>1
  <2>3. str.data = "null" /\ n \in Nat
    BY <1>1, <1>e DEF CallNew, Unowned
  <2>4. Kept(str, t, Chars, said, <<>>, TRUE)
    BY <1>0, <2>3, NewOf
  <2> QED
    BY <1>0, <2>2, <2>4, CallsKeep
<1>2. CASE CallFromCstr
  <2>1. PICK x \in Texts : \E t \in TstrFromCstr(str, x) : Upsets(t, x, TRUE)
    BY <1>2 DEF CallFromCstr
  <2>2. PICK t \in TstrFromCstr(str, x) : Upsets(t, x, TRUE)
    BY <2>1
  <2>3. str.data = "null" /\ x \in Seq(Chars)
    BY <1>2, TextsType DEF CallFromCstr, Unowned
  <2>4. Kept(str, t, Chars, said, x, t.refused = str.refused)
    BY <1>0, <2>3, FromCstrOf
  <2>5. Kept(str, t, Chars, said, x, t.refused = str.refused /\ TRUE)
    BY <2>4 DEF Kept
  <2> QED
    BY <1>e, <2>2, <2>3, <2>5, UpsetsKeep
<1>3. CASE CallFromSlice
  <2>1. PICK x \in Texts : \E t \in TstrFromSlice(str, x) : Upsets(t, x, x # <<>>)
    BY <1>3 DEF CallFromSlice
  <2>2. PICK t \in TstrFromSlice(str, x) : Upsets(t, x, x # <<>>)
    BY <2>1
  <2>3. str.data = "null" /\ x \in Seq(Chars) /\ (x # <<>>) \in BOOLEAN
    BY <1>3, TextsType DEF CallFromSlice, Unowned
  <2>4. Kept(str, t, Chars, said, x, t.refused = str.refused /\ x # <<>>)
    BY <1>0, <2>3, FromSliceOf
  <2> QED
    BY <2>2, <2>3, <2>4, UpsetsKeep
<1>4. CASE CallPush
  <2>1. PICK c \in Chars : \E t \in TstrPush(str, c) : Upsets(t, Append(said, c), str.alloc > 0)
    BY <1>4 DEF CallPush
  <2>2. PICK t \in TstrPush(str, c) : Upsets(t, Append(said, c), str.alloc > 0)
    BY <2>1
  <2>3. Append(said, c) \in Seq(Chars) /\ (str.alloc > 0) \in BOOLEAN
    BY <1>0
  <2>4. Kept(str, t, Chars, said, Append(said, c), t.refused = str.refused /\ str.alloc > 0)
    BY <1>0, PushOf
  <2> QED
    BY <2>2, <2>3, <2>4, UpsetsKeep
<1>5. CASE CallPushSlice
  <2>1. PICK x \in Texts : \E t \in TstrPushslice(str, x) : Calls(t, said \o x)
    BY <1>5 DEF CallPushSlice
  <2>2. PICK t \in TstrPushslice(str, x) : Calls(t, said \o x)
    BY <2>1
  <2>3. x \in Seq(Chars)
    BY TextsType
  <2>4. said \o x \in Seq(Chars)
    BY <1>0, <2>3, ConcatProperties
  <2>5. Kept(str, t, Chars, said, said \o x, TRUE)
    BY <1>0, <2>3, PushsliceOf
  <2> QED
    BY <2>2, <2>4, <2>5, CallsKeep
<1>6. CASE CallRepeat
  <2>1. PICK x \in Texts, times \in 0 .. 2 :
          \E t \in TstrRepeat(str, x, times) : Calls(t, said \o FlattenSeq(RunOf(x, times)))
    BY <1>6 DEF CallRepeat
  <2>2. PICK t \in TstrRepeat(str, x, times) : Calls(t, said \o FlattenSeq(RunOf(x, times)))
    BY <2>1
  <2>3. x \in Seq(Chars) /\ times \in Nat
    BY <1>e, TextsType
  <2> DEFINE more == FlattenSeq(RunOf(x, times))
  <2>4. Kept(str, t, Chars, said, said \o more, TRUE) /\ more \in Seq(Chars)
    BY <1>0, <2>3, RepeatOf
  <2>5. Calls(t, said \o more)
    BY <2>2
  <2> HIDE DEF more
  <2>6. said \o more \in Seq(Chars)
    BY <1>0, <2>4, ConcatProperties
  <2> QED
    BY <2>4, <2>5, <2>6, CallsKeep
<1>7. CASE CallReserve
  <2>1. PICK n \in 0 .. 2 : \E t \in TstrReserve(str, n) : Calls(t, said)
    BY <1>7 DEF CallReserve
  <2>2. PICK t \in TstrReserve(str, n) : Calls(t, said)
    BY <2>1
  <2>3. Kept(str, t, Chars, said, said, TRUE)
    BY <1>0, <1>e, ReserveOf
  <2> QED
    BY <1>0, <2>2, <2>3, CallsKeep
<1>8. CASE CallPop
  <2> DEFINE new == IF said = <<>> THEN said ELSE Front(said)
  <2>1. Calls(TstrPop(str), new)
    BY <1>8 DEF CallPop
  <2>2. Kept(str, TstrPop(str), Chars, said, new, TRUE)
    BY <1>0, PopOf
  <2>3. new \in Seq(Chars)
    <3>1. CASE said = <<>>
      BY <1>0, <3>1
    <3>2. CASE said # <<>>
      <4>1. Front(said) \in Seq(Chars)
        BY <1>0, <3>2, FrontProperties
      <4> QED
        BY <3>2, <4>1
    <3> QED
      BY <3>1, <3>2
  <2> HIDE DEF new
  <2> QED
    BY <2>1, <2>2, <2>3, CallsKeep
<1>9. CASE CallClear
  <2>1. Calls(TstrClear(str), <<>>)
    BY <1>9 DEF CallClear
  <2>2. Kept(str, TstrClear(str), Chars, said, <<>>, TRUE)
    BY <1>0, ClearOf
  <2> QED
    BY <1>0, <2>1, <2>2, CallsKeep
<1>10. CASE CallFit
  <2> DEFINE fresh == str.data # "null" \/ str.alloc = str.len + 1
  <2>1. PICK t \in TstrFit(str) : Upsets(t, said, fresh)
    BY <1>10 DEF CallFit
  <2>2. Kept(str, t, Chars, said, said, t.refused = str.refused /\ fresh)
    BY <1>0, FitOf
  <2>3. fresh \in BOOLEAN
    OBVIOUS
  <2> HIDE DEF fresh
  <2> QED
    BY <1>0, <2>1, <2>2, <2>3, UpsetsKeep
<1>11. CASE CallTrim
  <2>1. PICK set \in SUBSET Chars : Calls(TstrTrim(str, set), Trimmed(said, set))
    BY <1>11 DEF CallTrim
  <2>2. Kept(str, TstrTrim(str, set), Chars, said, Trimmed(said, set), TRUE) /\ Trimmed(said, set) \in Seq(Chars)
    BY <1>0, TrimOf
  <2> QED
    BY <2>1, <2>2, CallsKeep
<1>12. CASE CallFree
  <2>1. Calls(TstrFree(str), <<>>)
    BY <1>12 DEF CallFree
  <2>2. Kept(str, TstrFree(str), Chars, said, <<>>, TRUE)
    BY <1>0, FreeOf
  <2> QED
    BY <1>0, <2>1, <2>2, CallsKeep
<1> QED
  BY <1>1, <1>2, <1>3, <1>4, <1>5, <1>6, <1>7, <1>8, <1>9, <1>10, <1>11, <1>12 DEF StringNext

LEMMA StringStutter == StrInv /\ UNCHANGED stringVars => StrInv'
BY DEF StrInv, stringVars, Holds, Lost, Owned

LEMMA StringHolds == StrInv => StringTypeOK /\ TextKept
<1> SUFFICES ASSUME StrInv PROVE StringTypeOK /\ TextKept
  OBVIOUS
<1>1. /\ str.data \in {"null", "live", "stale"} /\ str.len \in Nat /\ str.alloc \in Nat /\ str.mem \in Seq(StrBytes(Chars))
      /\ str.blocks \in Int /\ str.refused \in Nat /\ Lost(str) = str.blocks - Owned(str) /\ Owned(str) \in {0, 1}
      /\ Lost(str) \in 0 .. str.refused
  BY StrLoose, StrFields DEF StrInv
<1>2. StringTypeOK
  <2>1. str.blocks \in Nat
    BY <1>1
  <2> QED
    BY <1>1, <2>1 DEF StringTypeOK, StrInv, StrBytes
<1>3. str.blocks - (IF str.data = "live" THEN 1 ELSE 0) \in 0 .. str.refused
  BY <1>1 DEF Owned
<1>4. ASSUME sure
      PROVE  /\ str.defined /\ str.data # "stale" /\ TstrText(str) = said
             /\ str.data = "live" => str.blocks = 1 /\ str.mem[str.len + 1] = NUL
             /\ str.data = "null" => str.blocks = 0 /\ said = <<>>
  <2>1. str \in Str(Chars) /\ said \in Seq(Chars) /\ Holds(str, said) /\ Lost(str) = 0
    BY <1>4 DEF StrInv
  <2>2. TstrText(str) = said
    BY <2>1, TextOf
  <2>3. /\ str.defined /\ str.data # "stale" /\ (str.data = "null" => said = <<>>)
        /\ str.data = "live" => str.mem[str.len + 1] = NUL
    BY <2>1, HoldsLive
  <2>4. (str.data = "live" => str.blocks = 1) /\ (str.data = "null" => str.blocks = 0)
    BY <1>1, <2>1 DEF Owned
  <2> QED
    BY <2>2, <2>3, <2>4
<1> QED
  BY <1>2, <1>3, <1>4 DEF TextKept

\* The fields of a string are in their types after every sequence of calls.
THEOREM StringTypes == StringSpec => []StringTypeOK
<1>1. StringInit => StrInv
  BY StringInitial
<1>2. StrInv /\ [StringNext]_stringVars => StrInv'
  BY StringStep, StringStutter
<1>3. StrInv => StringTypeOK
  BY StringHolds
<1> QED
  BY <1>1, <1>2, <1>3, PTL DEF StringSpec

\* For every alphabet and every bound: a string holds the text its calls asked
\* for, terminated, in one block, unless memory was refused where its caller is
\* not told; and a block is lost for a refusal only.
THEOREM TextIsKept == StringSpec => []TextKept
<1>1. StringInit => StrInv
  BY StringInitial
<1>2. StrInv /\ [StringNext]_stringVars => StrInv'
  BY StringStep, StringStutter
<1>3. StrInv => TextKept
  BY StringHolds
<1> QED
  BY <1>1, <1>2, <1>3, PTL DEF StringSpec

\* The copy of a string holds its text.
LEMMA CloneOf ==
  ASSUME NEW C, NEW s \in Str(C), NEW t \in TstrClone(s), NEW old \in Seq(C), Holds(s, old)
  PROVE  /\ t \in Str(C) /\ t.refused \in Nat
         /\ t.refused = 0 => Holds(t, old)
<1> DEFINE v == [NoString EXCEPT !.len = s.len, !.alloc = s.alloc]
           b == SubSeq(s.mem, 1, s.alloc)
           w == TstrBlock(v, b)
<1>1. /\ s.len \in Nat /\ s.alloc \in Nat /\ s.mem \in Seq(StrBytes(C)) /\ s.data \in {"null", "live", "stale"}
      /\ Slack \in Nat
  BY StrLoose, StrFields, SlackAssumption
<1>2. /\ s.len = Len(old) /\ s.data # "stale" /\ (s.data = "null" => s.len = 0 /\ s.alloc = 0 /\ old = <<>>)
      /\ s.data = "live" => /\ s.len + 1 <= s.alloc /\ s.alloc <= Len(s.mem)
                            /\ \A i \in 1 .. s.len : s.mem[i] = old[i]
                            /\ s.mem[s.len + 1] = NUL
  BY HoldsLive
<1>3. \/ t = NoString /\ s.alloc = 0
      \/ s.data = "live" /\ (t = w \/ t \in TstrRefused(v))
  BY <1>1, <1>2 DEF TstrClone
<1>n. /\ NoString \in Str(C) /\ Holds(NoString, <<>>) /\ NoString.refused = 0 /\ NoString.data = "null"
  BY NoStringOf
<1>d. NoString.defined = TRUE
  BY DEF NoString
<1>4. CASE t = NoString /\ s.alloc = 0
  <2>1. old = <<>>
    BY <1>1, <1>2, <1>4
  <2> QED
    BY <1>4, <1>n, <2>1
<1>5. CASE s.data = "live" /\ (t = w \/ t \in TstrRefused(v))
  <2>1. v = Sized(NoString, s.len, s.alloc)
    BY DEF Sized
  <2> DEFINE l == s.len
             a == s.alloc
  <2>2. l \in Nat /\ a \in Nat /\ v = Sized(NoString, l, a) /\ NoString.data # "live"
    BY <1>1, <1>n, <2>1
  <2> HIDE DEF v, l, a
  <2>3. /\ v \in Str(C) /\ v.data = NoString.data /\ v.len = l /\ v.alloc = a
        /\ v.refused = NoString.refused /\ v.defined = NoString.defined
    BY <1>n, <2>2, SizedOf
  <2>4. b \in Seq(StrBytes(C)) /\ Len(b) = a /\ \A i \in 1 .. a : b[i] = s.mem[i]
    <3> DEFINE m == s.mem
    <3>1. m \in Seq(StrBytes(C)) /\ a \in Nat /\ a <= Len(m) /\ 1 \in Nat \ {0} /\ 1 <= a + 1 /\ b = SubSeq(m, 1, a)
      BY <1>1, <1>2, <1>5 DEF a
    <3> HIDE DEF m, b
    <3>2. SubSeq(m, 1, a) \in Seq(StrBytes(C)) /\ Len(SubSeq(m, 1, a)) = a - 1 + 1
          /\ \A i \in 1 .. a - 1 + 1 : SubSeq(m, 1, a)[i] = m[1 + i - 1]
      BY <3>1, Cut
    <3>3. SubSeq(m, 1, a) \in Seq(StrBytes(C)) /\ Len(SubSeq(m, 1, a)) = a
          /\ \A i \in 1 .. a : SubSeq(m, 1, a)[i] = m[i]
      BY <3>1, <3>2
    <3> QED
      BY <3>1, <3>3 DEF m
  <2> HIDE DEF b
  <2>5. /\ w \in Str(C) /\ w.data = "live" /\ w.len = v.len /\ w.alloc = v.alloc
        /\ w.refused = v.refused /\ w.defined = v.defined
        /\ \A i \in 1 .. Len(b) : w.mem[i] = b[i]
    <3>1. v.data # "live" /\ v.alloc <= Len(b) + Slack
      BY <1>1, <1>n, <2>2, <2>3, <2>4
    <3> QED
      BY <2>3, <2>4, <3>1, PlacedOf
  <2> HIDE DEF w
  <2>6. Holds(w, old)
    <3>1. \A i \in 1 .. a : w.mem[i] = s.mem[i]
      BY <2>4, <2>5
    <3>2. l + 1 \in 1 .. a /\ \A i \in 1 .. l : i \in 1 .. a
      BY <1>1, <1>2, <1>5 DEF l, a
    <3>3. w.mem[l + 1] = NUL /\ \A i \in 1 .. l : w.mem[i] = old[i]
      BY <1>2, <1>5, <3>1, <3>2 DEF l
    <3>4. w.defined
      BY <1>d, <2>3, <2>5, Zenon
    <3>5. l \in Nat /\ w.data = "live" /\ w.len = l /\ Len(old) = l /\ l + 1 <= w.alloc
      BY <1>2, <1>5, <2>2, <2>3, <2>5 DEF l, a
    <3> QED
      BY ONLY <3>3, <3>4, <3>5, HoldsIntro
  <2>7. t \in TstrRefused(v) => t \in Str(C) /\ t.refused = 1
    BY <1>n, <2>3, RefusedOf
  <2>8. w.refused = 0
    BY <1>n, <2>3, <2>5
  <2> QED
    BY <1>5, <2>5, <2>6, <2>7, <2>8
<1> QED
  BY <1>3, <1>4, <1>5

-----------------------------------------------------------------------------
(* The lines of a text, one character at a time.                           *)

Acc(C) == [lines : Seq(Seq(C)), piece : Seq(C)]
NoLines == [lines |-> <<>>, piece |-> <<>>]

LEMMA ExtendType ==
  ASSUME NEW C, NEW a \in Acc(C), NEW c \in C
  PROVE  /\ Extend(a, c) \in Acc(C)
         /\ Extend(a, c).lines = IF c = NL THEN Append(a.lines, Append(a.piece, c)) ELSE a.lines
         /\ Extend(a, c).piece = IF c \in {NL, Hard} THEN <<>> ELSE Append(a.piece, c)
<1>1. a.lines \in Seq(Seq(C)) /\ a.piece \in Seq(C) /\ <<>> \in Seq(C)
  BY DEF Acc
<1>2. Append(a.piece, c) \in Seq(C)
  BY <1>1
<1>3. Append(a.lines, Append(a.piece, c)) \in Seq(Seq(C))
  BY <1>1, <1>2
<1>4. CASE c = NL
  BY <1>1, <1>3, <1>4 DEF Extend, Acc
<1>5. CASE c # NL
  <2> DEFINE p == IF c = Hard THEN <<>> ELSE Append(a.piece, c)
  <2>1. p \in Seq(C)
    BY <1>1, <1>2
  <2>2. Extend(a, c) = [a EXCEPT !.piece = p]
    BY <1>5 DEF Extend
  <2> HIDE DEF p
  <2>3. Extend(a, c) \in Acc(C) /\ Extend(a, c).lines = a.lines /\ Extend(a, c).piece = p
    BY <2>1, <2>2 DEF Acc
  <2> QED
    BY <1>5, <2>3 DEF p
<1> QED
  BY <1>4, <1>5

LEMMA LinesIterate ==
  ASSUME NEW C, NEW s \in Seq(C)
  PROVE  \E f \in [0 .. Len(s) -> Acc(C)] :
           /\ f[0] = NoLines
           /\ \A k \in 1 .. Len(s) : f[k] = Extend(f[k - 1], s[k])
           /\ LinesOf(s) = f[Len(s)]
<1> DEFINE step == [k \in 1 .. Len(s) |-> [a \in Acc(C) |-> Extend(a, s[k])]]
           Solves(g) == g = [n \in 0 .. Len(s) |-> IF n = 0 THEN [lines |-> <<>>, piece |-> <<>>] ELSE Extend(g[n - 1], s[n])]
           D == CHOOSE g : Solves(g)
<1>1. \A k \in 1 .. Len(s) : \A a \in Acc(C) : step[k][a] = Extend(a, s[k])
  OBVIOUS
<1>2. \A k \in 1 .. Len(s) : \A a \in Acc(C) : step[k][a] \in Acc(C)
  <2> SUFFICES ASSUME NEW k \in 1 .. Len(s), NEW a \in Acc(C) PROVE step[k][a] \in Acc(C)
    OBVIOUS
  <2>1. s[k] \in C
    OBVIOUS
  <2>2. Extend(a, s[k]) \in Acc(C)
    BY <2>1, ExtendType
  <2> QED
    BY <1>1, <2>2
<1>0. NoLines \in Acc(C) /\ Len(s) \in Nat
  <2>1. <<>> \in Seq(C) /\ <<>> \in Seq(Seq(C))
    OBVIOUS
  <2> QED
    BY <2>1 DEF NoLines, Acc
<1> HIDE DEF step
<1>3. PICK f \in [0 .. Len(s) -> Acc(C)] : Iterates(f, NoLines, step, Len(s))
  BY <1>0, <1>2, Iteration
<1>4. \A k \in 1 .. Len(s) : f[k] = Extend(f[k - 1], s[k])
  <2> SUFFICES ASSUME NEW k \in 1 .. Len(s) PROVE f[k] = Extend(f[k - 1], s[k])
    OBVIOUS
  <2>1. k - 1 \in 0 .. Len(s)
    OBVIOUS
  <2>2. f[k - 1] \in Acc(C)
    BY <2>1
  <2>3. f[k] = step[k][f[k - 1]]
    BY <1>3 DEF Iterates
  <2> QED
    BY <2>2, <2>3, <1>1
<1>5. f[0] = NoLines
  BY <1>3 DEF Iterates
<1>6. Solves(f)
  <2>1. \A n \in 0 .. Len(s) : f[n] = IF n = 0 THEN NoLines ELSE Extend(f[n - 1], s[n])
    BY <1>4, <1>5
  <2> QED
    BY <2>1 DEF NoLines
<1>7. Solves(D)
  BY <1>6
<1>8. D[0] = NoLines /\ \A k \in 1 .. Len(s) : D[k] = Extend(D[k - 1], s[k])
  <2> HIDE DEF D
  <2> QED
    BY <1>7, <1>0 DEF NoLines
<1>9. LinesOf(s) = D[Len(s)]
  BY DEF LinesOf
<1> HIDE DEF D
<1>10. \A k \in 0 .. Len(s) : f[k] = D[k]
  <2>1. StepsAlike(f, D, Len(s))
    BY <1>4, <1>8 DEF StepsAlike
  <2>2. f[0] = D[0] /\ Len(s) \in Nat
    BY <1>0, <1>5, <1>8
  <2> QED
    BY ONLY <2>1, <2>2, IterationUnique, Zenon
<1> QED
  BY <1>0, <1>4, <1>5, <1>9, <1>10

LEMMA LinesType ==
  ASSUME NEW C, NEW s \in Seq(C)
  PROVE  LinesOf(s) \in Acc(C)
<1> QED
  BY LinesIterate

LEMMA LinesEmpty == LinesOf(<<>>) = NoLines
<1>1. <<>> \in Seq({}) /\ Len(<<>>) = 0
  OBVIOUS
<1> QED
  BY <1>1, LinesIterate

LEMMA LinesAppend ==
  ASSUME NEW C, NEW s \in Seq(C), NEW c \in C
  PROVE  LinesOf(Append(s, c)) = Extend(LinesOf(s), c)
<1> DEFINE t == Append(s, c)
           n == Len(s)
<1>1. t \in Seq(C) /\ Len(t) = n + 1 /\ t[n + 1] = c /\ n \in Nat /\ \A k \in 1 .. n : t[k] = s[k]
  BY AppendProperties
<1> HIDE DEF t
<1>2. PICK f \in [0 .. Len(s) -> Acc(C)] :
        /\ f[0] = NoLines
        /\ \A k \in 1 .. Len(s) : f[k] = Extend(f[k - 1], s[k])
        /\ LinesOf(s) = f[Len(s)]
  BY LinesIterate
<1>3. PICK g \in [0 .. Len(t) -> Acc(C)] :
        /\ g[0] = NoLines
        /\ \A k \in 1 .. Len(t) : g[k] = Extend(g[k - 1], t[k])
        /\ LinesOf(t) = g[Len(t)]
  BY <1>1, LinesIterate
<1>4. StepsAlike(f, g, n)
  <2> SUFFICES ASSUME NEW k \in 1 .. n, f[k - 1] = g[k - 1] PROVE f[k] = g[k]
    BY DEF StepsAlike
  <2>1. k \in 1 .. Len(t) /\ t[k] = s[k]
    BY <1>1
  <2> QED
    BY <2>1, <1>2, <1>3
<1>5. f[0] = g[0] /\ n \in Nat
  BY <1>1, <1>2, <1>3
<1> HIDE DEF n
<1>6. \A k \in 0 .. n : f[k] = g[k]
  BY ONLY <1>4, <1>5, IterationUnique, Zenon
<1>7. g[n + 1] = Extend(g[n], c)
  <2>1. n + 1 \in 1 .. Len(t) /\ (n + 1) - 1 = n
    BY <1>1
  <2> QED
    BY <2>1, <1>1, <1>3
<1>8. g[n] = LinesOf(s) /\ g[n + 1] = LinesOf(t)
  <2>1. n \in 0 .. n
    BY <1>1
  <2> QED
    BY <2>1, <1>1, <1>2, <1>3, <1>6 DEF n
<1> QED
  BY <1>7, <1>8 DEF t

-----------------------------------------------------------------------------
(* What lv_fgetc has left of the text f: the rest of its store, then left. *)

Bytes == 0 .. 255
Unread(st, at, left) == Len(left) + (st.len - at)
Fed(f, st, at, left) ==
  /\ st \in Str(Bytes) /\ at \in Nat /\ left \in Seq(Bytes)
  /\ \E held \in Seq(Bytes) : Holds(st, held)
  /\ at <= st.len /\ st.len <= BUFSIZE
  /\ st.data = "live" => st.alloc = BUFSIZE + 1
  /\ Unread(st, at, left) <= Len(f)
  /\ \A i \in 1 .. Len(left) : left[i] = f[(Len(f) - Len(left)) + i]
  /\ \A i \in 1 .. st.len - at : st.mem[at + i] = f[(Len(f) - Unread(st, at, left)) + i]

\* What a call answers when u bytes were unread.
Answer(f, g, u) ==
  /\ Fed(f, g.st, g.at, g.left) /\ g.failed \in BOOLEAN
  /\ g.c # EOF => /\ ~g.failed /\ g.st.data = "live" /\ u >= 1
                  /\ Unread(g.st, g.at, g.left) = u - 1 /\ g.c = f[(Len(f) - u) + 1]
  /\ g.c = EOF => g.st.data = "null" /\ g.st.alloc = 0 /\ Unread(g.st, g.at, g.left) = u

LEMMA FedFields ==
  ASSUME NEW f \in Seq(Bytes), NEW st, NEW at, NEW left, Fed(f, st, at, left)
  PROVE  /\ st \in Str(Bytes) /\ at \in Nat /\ left \in Seq(Bytes) /\ Len(left) \in Nat /\ Len(f) \in Nat
         /\ st.len \in Nat /\ st.alloc \in Nat /\ st.data \in {"null", "live"} /\ at <= st.len /\ st.len <= BUFSIZE
         /\ st.data = "null" => st.len = 0 /\ st.alloc = 0
         /\ st.data = "live" => st.alloc > 0
         /\ Unread(st, at, left) \in Nat /\ Unread(st, at, left) <= Len(f)
         /\ Unread(st, at, left) = Len(left) + (st.len - at)
<1>1. PICK held \in Seq(Bytes) : Holds(st, held)
  BY DEF Fed
<1>2. st \in Str(Bytes) /\ at \in Nat /\ left \in Seq(Bytes) /\ Len(left) \in Nat /\ Len(f) \in Nat
  BY DEF Fed
<1>3. st.len \in Nat /\ st.alloc \in Nat /\ st.data \in {"null", "live", "stale"}
  BY <1>2, StrLoose, StrFields
<1>4. /\ st.data # "stale" /\ (st.data = "null" => st.len = 0 /\ st.alloc = 0)
      /\ st.data = "live" => st.len + 1 <= st.alloc
  BY <1>1, <1>2, HoldsLive
<1>5. at <= st.len /\ st.len <= BUFSIZE /\ Unread(st, at, left) <= Len(f)
  BY DEF Fed
<1> QED
  BY <1>2, <1>3, <1>4, <1>5 DEF Unread

LEMMA FedFreed ==
  ASSUME NEW f \in Seq(Bytes), NEW st \in Str(Bytes), NEW held \in Seq(Bytes), Holds(st, held),
         NEW left \in Seq(Bytes), Len(left) <= Len(f),
         \A i \in 1 .. Len(left) : left[i] = f[(Len(f) - Len(left)) + i],
         NEW failed \in BOOLEAN
  PROVE  Answer(f, Got(TstrFree(st), 0, left, EOF, failed), Len(left))
<1> DEFINE t == TstrFree(st)
           g == Got(t, 0, left, EOF, failed)
<1>1. Kept(st, t, Bytes, held, <<>>, TRUE) /\ t.refused = st.refused /\ t.data = "null" /\ t.len = 0 /\ t.alloc = 0
  BY FreeOf
<1>2. g.st = t /\ g.at = 0 /\ g.left = left /\ g.c = EOF /\ g.failed = failed
  BY DEF Got
<1> HIDE DEF g, t
<1>3. t \in Str(Bytes) /\ Holds(t, <<>>) /\ <<>> \in Seq(Bytes)
  BY <1>1 DEF Kept
<1>4. Unread(t, 0, left) = Len(left) /\ Len(left) \in Nat /\ 1 .. t.len - 0 = {} /\ 0 <= BUFSIZE
  BY <1>1, BufferAssumption DEF Unread
<1>5. Fed(f, t, 0, left)
  <2>1. \E h \in Seq(Bytes) : Holds(t, h)
    BY <1>3
  <2>2. /\ 0 <= t.len /\ t.len <= BUFSIZE /\ (t.data = "live" => t.alloc = BUFSIZE + 1) /\ 0 \in Nat
        /\ Unread(t, 0, left) <= Len(f)
    BY <1>1, <1>4
  <2>3. \A i \in 1 .. t.len - 0 : t.mem[0 + i] = f[(Len(f) - Unread(t, 0, left)) + i]
    BY <1>4
  <2> QED
    BY <1>3, <2>1, <2>2, <2>3 DEF Fed
<1> QED
  BY <1>1, <1>2, <1>4, <1>5 DEF Answer, g, t

LEMMA FromStoreOf ==
  ASSUME NEW f \in Seq(Bytes), NEW st, NEW at, NEW left, Fed(f, st, at, left), st.len = 0 \/ at < st.len
  PROVE  LET g == FromStore(st, at, left)
         IN  Answer(f, g, Unread(st, at, left)) /\ ~g.failed /\ (g.c = EOF => st.len = 0 /\ g.left = left)
<1> DEFINE g == FromStore(st, at, left)
           u == Unread(st, at, left)
           n == Len(f)
<1>1. /\ st \in Str(Bytes) /\ at \in Nat /\ left \in Seq(Bytes) /\ Len(left) \in Nat /\ n \in Nat
      /\ st.len \in Nat /\ st.alloc \in Nat /\ st.data \in {"null", "live"} /\ at <= st.len /\ st.len <= BUFSIZE
      /\ st.data = "null" => st.len = 0 /\ st.alloc = 0
      /\ u \in Nat /\ u <= n /\ u = Len(left) + (st.len - at)
  BY FedFields
<1>2. PICK held \in Seq(Bytes) : Holds(st, held)
  BY DEF Fed
<1>3. CASE st.len = 0
  <2>1. at = 0 /\ u = Len(left)
    BY <1>1, <1>3
  <2>2. g = Got(TstrFree(st), 0, left, EOF, FALSE)
    BY <1>3, <2>1 DEF FromStore
  <2>3. /\ Len(left) <= Len(f) /\ FALSE \in BOOLEAN
        /\ \A i \in 1 .. Len(left) : left[i] = f[(Len(f) - Len(left)) + i]
    BY <1>1, <2>1 DEF Fed
  <2>4. Answer(f, Got(TstrFree(st), 0, left, EOF, FALSE), Len(left))
    BY <1>1, <1>2, <2>3, FedFreed
  <2>5. ~g.failed /\ g.left = left
    BY <2>2 DEF Got
  <2> QED
    BY <1>3, <2>1, <2>2, <2>4, <2>5
<1>4. CASE at < st.len
  <2>0. st.len # 0
    BY <1>1, <1>4
  <2>1. g = Got(st, at + 1, left, st.mem[at + 1], FALSE)
    BY <2>0 DEF FromStore
  <2> HIDE DEF g
  <2>2. g.st = st /\ g.at = at + 1 /\ g.left = left /\ g.c = st.mem[at + 1] /\ g.failed = FALSE
    BY <2>1 DEF Got
  <2>3. \A i \in 1 .. st.len - at : st.mem[at + i] = f[(n - u) + i]
    BY DEF Fed
  <2> HIDE DEF u, n
  <2>4. g.c = f[(n - u) + 1] /\ g.c \in Bytes /\ u >= 1
    <3>1. 1 \in 1 .. st.len - at /\ (n - u) + 1 \in 1 .. n /\ u >= 1
      BY <1>1, <1>4
    <3>2. f[(n - u) + 1] \in Bytes
      BY <3>1, ElementOfSeq DEF n
    <3> QED
      BY <2>2, <2>3, <3>1, <3>2
  <2>5. g.c # EOF
    <3>1. \A c \in Bytes : c # EOF
      BY DEF Bytes, EOF
    <3> QED
      BY <2>4, <3>1
  <2>6. Unread(st, at + 1, left) = u - 1
    <3>1. Unread(st, at + 1, left) = Len(left) + (st.len - (at + 1))
      BY DEF Unread
    <3> QED
      BY <1>1, <3>1
  <2>7. Fed(f, st, at + 1, left)
    <3>1. \A i \in 1 .. st.len - (at + 1) : st.mem[(at + 1) + i] = f[(n - (u - 1)) + i]
      <4> SUFFICES ASSUME NEW i \in 1 .. st.len - (at + 1) PROVE st.mem[(at + 1) + i] = f[(n - (u - 1)) + i]
        OBVIOUS
      <4>1. i + 1 \in 1 .. st.len - at /\ at + (i + 1) = (at + 1) + i /\ (n - u) + (i + 1) = (n - (u - 1)) + i
        BY <1>1
      <4> QED
        BY <2>3, <4>1
    <3>2. at + 1 \in Nat /\ at + 1 <= st.len /\ u - 1 <= Len(f)
      BY <1>1, <1>4 DEF n
    <3> QED
      BY <2>6, <3>1, <3>2 DEF Fed, n
  <2>8. st.data = "live"
    BY <1>1, <1>4
  <2>9. Answer(f, g, u)
    BY <2>2, <2>4, <2>5, <2>6, <2>7, <2>8 DEF Answer, n
  <2> QED
    BY <2>2, <2>5, <2>9 DEF g, u
<1> QED
  BY <1>1, <1>3, <1>4

\* readbuf on a store that is used up.
LEMMA ReadOf ==
  ASSUME NEW f \in Seq(Bytes), NEW st, NEW at, Fed(f, st, at, rest), st.len = at, st.data = "live", NEW g \in Read(st)
  PROVE  /\ Answer(f, g, Unread(st, at, rest))
         /\ g.c = EOF /\ ~g.failed => Unread(st, at, rest) = 0
<1> DEFINE c == TstrClear(st)
           n == Len(f)
           m == Len(rest)
<1>1. /\ st \in Str(Bytes) /\ at \in Nat /\ rest \in Seq(Bytes) /\ m \in Nat /\ n \in Nat
      /\ st.len \in Nat /\ st.alloc = BUFSIZE + 1
      /\ Unread(st, at, rest) = m /\ m <= n
  <2>1. Unread(st, at, rest) = Len(rest) + (st.len - at)
    BY FedFields
  <2> QED
    BY <2>1, FedFields DEF Fed
<1>2. PICK held \in Seq(Bytes) : Holds(st, held)
  BY DEF Fed
<1>3. \A i \in 1 .. m : rest[i] = f[(n - m) + i]
  BY DEF Fed
<1>4. c \in Str(Bytes) /\ Holds(c, <<>>) /\ c.data = "live" /\ c.alloc = BUFSIZE + 1
  <2>1. Kept(st, c, Bytes, held, <<>>, TRUE) /\ c.refused = st.refused /\ c.data = st.data /\ c.alloc = st.alloc
    BY <1>1, <1>2, ClearOf
  <2> QED
    BY <1>1, <1>2, <2>1 DEF Kept
<1>5. BUFSIZE \in Nat /\ BUFSIZE >= 1 /\ <<>> \in Seq(Bytes) /\ Len(<<>>) = 0
  BY BufferAssumption
<1>6. c.len = 0
  BY <1>4, <1>5 DEF Holds
<1>7. \/ \E k \in Chunks : \E t \in TstrPushslice(c, SubSeq(rest, 1, k)) :
           g = FromStore(t, 0, SubSeq(rest, k + 1, Len(rest)))
      \/ g = Got(TstrFree(c), 0, rest, EOF, TRUE)
  <2>1. \/ g \in UNION {Filled(c, k) : k \in Chunks}
        \/ g \in (IF errors < MaxErrors THEN {Got(TstrFree(c), 0, rest, EOF, TRUE)} ELSE {})
    BY DEF Read
  <2> HIDE DEF c
  <2>2. ASSUME NEW k \in Chunks, g \in Filled(c, k)
        PROVE  \E t \in TstrPushslice(c, SubSeq(rest, 1, k)) : g = FromStore(t, 0, SubSeq(rest, k + 1, Len(rest)))
    BY <2>2 DEF Filled
  <2>3. g \in UNION {Filled(c, k) : k \in Chunks} => \E k \in Chunks : g \in Filled(c, k)
    OBVIOUS
  <2> QED
    BY <2>1, <2>2, <2>3
<1> HIDE DEF c
<1>8. CASE g = Got(TstrFree(c), 0, rest, EOF, TRUE)
  <2>1. g.failed = TRUE
    BY <1>8 DEF Got
  <2>2. Answer(f, Got(TstrFree(c), 0, rest, EOF, TRUE), Len(rest))
    BY <1>1, <1>3, <1>4, <1>5, FedFreed
  <2> QED
    BY <1>1, <1>8, <2>1, <2>2
<1>9. ASSUME NEW k \in Chunks,
             NEW t \in TstrPushslice(c, SubSeq(rest, 1, k)),
             g = FromStore(t, 0, SubSeq(rest, k + 1, Len(rest)))
      PROVE  /\ Answer(f, g, m)
             /\ g.c = EOF /\ ~g.failed => m = 0
  <2> DEFINE x == SubSeq(rest, 1, k)
             y == SubSeq(rest, k + 1, Len(rest))
  <2>1. k \in Nat /\ k <= BUFSIZE /\ k <= m /\ (k = 0 => m = 0)
    <3>1. Min({BUFSIZE, Len(rest)}) = IF BUFSIZE <= m THEN BUFSIZE ELSE m
      <4>1. BUFSIZE \in Int /\ m \in Int
        BY <1>1, <1>5
      <4> HIDE DEF m
      <4>2. Min({BUFSIZE, m}) = IF BUFSIZE <= m THEN BUFSIZE ELSE m
        BY <4>1, MinOfTwo
      <4> QED
        BY <4>2 DEF m
    <3>2. rest = <<>> => m = 0
      BY <1>5
    <3> QED
      BY <1>1, <1>5, <3>1, <3>2 DEF Chunks
  <2>2. x \in Seq(Bytes) /\ Len(x) = k /\ \A i \in 1 .. k : x[i] = rest[i]
    <3>1. k \in 0 .. Len(rest)
      BY <1>1, <2>1
    <3> QED
      BY <1>1, <3>1, Prefix
  <2>3. y \in Seq(Bytes) /\ Len(y) = m - k /\ \A i \in 1 .. m - k : y[i] = rest[k + i]
    <3> DEFINE from == k + 1
    <3>1. from \in Nat \ {0} /\ m \in Nat /\ m <= Len(rest) /\ from <= m + 1 /\ y = SubSeq(rest, from, m)
      BY <1>1, <2>1
    <3> HIDE DEF from, m, y
    <3>2. y \in Seq(Bytes) /\ Len(y) = m - from + 1 /\ \A i \in 1 .. m - from + 1 : y[i] = rest[from + i - 1]
      BY <1>1, <3>1, Cut
    <3>3. m - from + 1 = m - k /\ \A i \in Int : from + i - 1 = k + i
      BY <1>1, <2>1 DEF from
    <3>4. y \in Seq(Bytes) /\ Len(y) = m - k
      BY <3>2, <3>3
    <3>5. ASSUME NEW i \in 1 .. m - k PROVE y[i] = rest[k + i]
      <4>1. i \in 1 .. m - from + 1 /\ from + i - 1 = k + i
        BY <3>3
      <4> QED
        BY <3>2, <4>1
    <3> QED
      BY <3>4, <3>5
  <2>4. t = TstrJoin(c, x)
    <3>1. c.len + Len(x) + 1 <= c.alloc
      BY <1>4, <1>5, <1>6, <2>1, <2>2
    <3> HIDE DEF x
    <3>2. t \in TstrPushslice(c, x)
      BY DEF x
    <3> QED
      BY <3>1, <3>2 DEF TstrPushslice
  <2>5. g = FromStore(t, 0, y)
    BY <1>9
  <2> HIDE DEF x, y
  <2>6. t \in Str(Bytes) /\ Holds(t, x) /\ t.data = "live" /\ t.alloc = BUFSIZE + 1 /\ t.len = k
    <3>1. c.len + Len(x) + 1 <= c.alloc
      BY <1>4, <1>5, <1>6, <2>1, <2>2
    <3>2. Kept(c, t, Bytes, <<>>, <<>> \o x, TRUE) /\ t.refused = c.refused
      BY <1>4, <1>5, <2>2, <2>4, <3>1, FullJoin
    <3>3. <<>> \o x = x
      BY <2>2, ConcatEmptySeq
    <3>4. x \in Seq(StrBytes(Bytes))
      BY <2>2, BytesOf
    <3>5. t.data = c.data /\ t.alloc = c.alloc /\ t.len = c.len + Len(x)
      BY <1>4, <2>4, <3>4, JoinOf
    <3>6. t \in Str(Bytes) /\ Holds(t, x)
      BY <1>4, <3>2, <3>3 DEF Kept
    <3> QED
      BY <1>4, <1>6, <2>1, <2>2, <3>5, <3>6
  <2>7. \A i \in 1 .. k : t.mem[i] = x[i]
    BY <2>6 DEF Holds
  <2>8. Unread(t, 0, y) = m
    BY <1>1, <2>1, <2>3, <2>6 DEF Unread
  <2> HIDE DEF m, n
  <2>9. \A i \in 1 .. Len(y) : y[i] = f[(n - Len(y)) + i]
    <3> SUFFICES ASSUME NEW i \in 1 .. m - k PROVE y[i] = f[(n - (m - k)) + i]
      BY <2>3
    <3>1. k + i \in 1 .. m /\ (n - m) + (k + i) = (n - (m - k)) + i
      BY <1>1, <2>1
    <3> QED
      BY <1>3, <2>3, <3>1
  <2>10. \A i \in 1 .. t.len - 0 : t.mem[0 + i] = f[(n - m) + i]
    <3> SUFFICES ASSUME NEW i \in 1 .. k PROVE t.mem[i] = f[(n - m) + i]
      BY <2>1, <2>6
    <3>1. i \in 1 .. m
      BY <1>1, <2>1
    <3> QED
      BY <1>3, <2>2, <2>7, <3>1
  <2>11. Fed(f, t, 0, y)
    <3>1. \E h \in Seq(Bytes) : Holds(t, h)
      BY <2>2, <2>6
    <3>2. 0 \in Nat /\ 0 <= t.len /\ t.len <= BUFSIZE /\ m <= Len(f)
      BY <1>1, <2>1, <2>6 DEF n
    <3> QED
      BY <2>3, <2>6, <2>8, <2>9, <2>10, <3>1, <3>2 DEF Fed, n
  <2>12. Answer(f, g, Unread(t, 0, y)) /\ ~g.failed /\ (g.c = EOF => t.len = 0 /\ g.left = y)
    <3> DEFINE o == 0
    <3>1. Fed(f, t, o, y) /\ (t.len = 0 \/ o < t.len) /\ g = FromStore(t, o, y)
      BY <2>1, <2>5, <2>6, <2>11
    <3> HIDE DEF o
    <3>2. Answer(f, g, Unread(t, o, y)) /\ ~g.failed /\ (g.c = EOF => t.len = 0 /\ g.left = y)
      BY <3>1, FromStoreOf
    <3> QED
      BY <3>2 DEF o
  <2> QED
    BY <2>1, <2>6, <2>8, <2>12
<1> QED
  BY <1>1, <1>7, <1>8, <1>9

LEMMA FgetcOf ==
  ASSUME NEW f \in Seq(Bytes), Fed(f, store, offset, rest), NEW g \in Fgetc
  PROVE  /\ Answer(f, g, Unread(store, offset, rest))
         /\ g.c = EOF /\ ~g.failed => store.data = "null" \/ Unread(store, offset, rest) = 0
<1> DEFINE u == Unread(store, offset, rest)
<1>1. /\ store \in Str(Bytes) /\ offset \in Nat /\ rest \in Seq(Bytes) /\ Len(rest) \in Nat /\ Len(f) \in Nat
      /\ store.len \in Nat /\ store.alloc \in Nat /\ store.data \in {"null", "live"} /\ offset <= store.len
      /\ store.data = "null" => store.len = 0 /\ store.alloc = 0
      /\ store.data = "live" => store.alloc > 0
      /\ u \in Nat /\ u <= Len(f) /\ u = Len(rest) + (store.len - offset)
  BY FedFields
<1>2. BUFSIZE \in Nat /\ <<>> \in Seq(Bytes) /\ Len(<<>>) = 0
  BY BufferAssumption
<1>3. PICK t \in (IF store.alloc = 0 THEN TstrNew(store, BUFSIZE) ELSE {store}) :
        g \in (IF t.data = "null" THEN {Got(t, offset, rest, EOF, FALSE)}
               ELSE IF t.len = offset THEN Read(t)
               ELSE {FromStore(t, offset, rest)})
  BY DEF Fgetc
<1>4. Fed(f, t, offset, rest) /\ Unread(t, offset, rest) = u /\ (t.data = "null" => store.data = "null")
  <2>1. CASE store.alloc # 0
    BY <1>3, <2>1
  <2>2. CASE store.alloc = 0
    <3>1. store.data = "null" /\ store.len = 0 /\ offset = 0
      BY <1>1, <2>2
    <3>2. PICK held \in Seq(Bytes) : Holds(store, held)
      BY DEF Fed
    <3>3. t \in TstrNew(store, BUFSIZE)
      BY <1>3, <2>2
    <3>4. Kept(store, t, Bytes, held, <<>>, TRUE) /\ (t.data = "live" => t.alloc = BUFSIZE + 1)
      BY <1>1, <1>2, <3>1, <3>3, NewOf
    <3>5. held = <<>>
      BY <1>1, <3>1, <3>2, HoldsLive
    <3>6. t \in Str(Bytes) /\ Holds(t, <<>>)
      BY <3>2, <3>4, <3>5 DEF Kept
    <3>7. t.len = 0
      BY <1>2, <3>6 DEF Holds
    <3>8. Unread(t, offset, rest) = u
      BY <3>1, <3>7 DEF Unread
    <3> HIDE DEF u
    <3>9. Fed(f, t, offset, rest)
      <4>1. \E h \in Seq(Bytes) : Holds(t, h)
        BY <1>2, <3>6
      <4>2. offset <= t.len /\ t.len <= BUFSIZE /\ offset \in Nat
        BY <1>2, <3>1, <3>7
      <4>3. \A i \in 1 .. t.len - offset : t.mem[offset + i] = f[(Len(f) - u) + i]
        BY <3>1, <3>7
      <4>4. \A i \in 1 .. Len(rest) : rest[i] = f[(Len(f) - Len(rest)) + i]
        BY DEF Fed
      <4> QED
        BY <1>1, <3>4, <3>6, <3>8, <4>1, <4>2, <4>3, <4>4 DEF Fed
    <3> QED
      BY <3>1, <3>8, <3>9
  <2> QED
    BY <2>1, <2>2
<1>5. t.data \in {"null", "live"} /\ offset <= t.len /\ t.len \in Nat /\ (t.data = "null" => t.alloc = 0)
  BY <1>4, FedFields
<1> HIDE DEF u
<1>6. CASE t.data = "null"
  <2>1. g = Got(t, offset, rest, EOF, FALSE)
    BY <1>3, <1>6
  <2>2. g.st = t /\ g.at = offset /\ g.left = rest /\ g.c = EOF /\ g.failed = FALSE
    BY <2>1 DEF Got
  <2>3. Answer(f, g, u)
    BY <1>4, <1>5, <1>6, <2>2 DEF Answer
  <2> QED
    BY <1>4, <1>6, <2>3 DEF u
<1>7. CASE t.data = "live" /\ t.len = offset
  <2>1. g \in Read(t)
    BY <1>3, <1>7
  <2>2. Answer(f, g, Unread(t, offset, rest)) /\ (g.c = EOF /\ ~g.failed => Unread(t, offset, rest) = 0)
    BY <1>4, <1>7, <2>1, ReadOf
  <2> QED
    BY <1>4, <2>2 DEF u
<1>8. CASE t.data = "live" /\ t.len # offset
  <2>1. g = FromStore(t, offset, rest)
    BY <1>3, <1>8
  <2>2. offset < t.len /\ t.len # 0
    BY <1>1, <1>5, <1>8
  <2>3. Answer(f, g, Unread(t, offset, rest)) /\ ~g.failed /\ (g.c = EOF => t.len = 0 /\ g.left = rest)
    BY <1>4, <2>1, <2>2, FromStoreOf
  <2> QED
    BY <1>4, <2>2, <2>3 DEF u
<1> QED
  BY <1>5, <1>6, <1>7, <1>8

-----------------------------------------------------------------------------
(* The invariant of the line reader.                                       *)

\* What is taken of the text f when u bytes are unread.
Eaten(f, u) == SubSeq(f, 1, Len(f) - u)
\* The line so far, of the text f when the store is st.
Piece(f, st, u) == IF st.data = "null" THEN <<>> ELSE LinesOf(Eaten(f, u)).piece
LineInv(f, st, at, left, o, lines, up, rd) ==
  /\ f \in Seq(Bytes) /\ Fed(f, st, at, left) /\ up \in BOOLEAN
  /\ o \in Str(Bytes) /\ o.data # "stale" /\ (o.alloc = 0 => o.data = "null")
  /\ rd = "reading" => o.alloc > 0
  /\ rd = "ended" => st.data = "null" /\ st.alloc = 0 /\ o.data = "null" /\ o.alloc = 0
  /\ ~up => /\ rd # "undefined"
            /\ st.data = "null" => Unread(st, at, left) \in {0, Len(f)}
            /\ lines = LinesOf(Eaten(f, Unread(st, at, left))).lines
            /\ Holds(o, Piece(f, st, Unread(st, at, left)))
LInv == LineInv(file, store, offset, rest, out, given, upset, reader)

LEMMA EatenType ==
  ASSUME NEW f \in Seq(Bytes), NEW u \in 0 .. Len(f)
  PROVE  /\ Eaten(f, u) \in Seq(Bytes) /\ LinesOf(Eaten(f, u)) \in Acc(Bytes)
         /\ LinesOf(Eaten(f, u)).lines \in Seq(Seq(Bytes)) /\ LinesOf(Eaten(f, u)).piece \in Seq(Bytes)
         /\ u = Len(f) => LinesOf(Eaten(f, u)) = NoLines
<1> DEFINE n == Len(f) - u
<1>1. n \in 0 .. Len(f)
  OBVIOUS
<1>2. Eaten(f, u) = SubSeq(f, 1, n)
  BY DEF Eaten
<1>3. u = Len(f) => n = 0
  OBVIOUS
<1> HIDE DEF n
<1>4. Eaten(f, u) \in Seq(Bytes) /\ Len(Eaten(f, u)) = n
  BY <1>1, <1>2, Prefix
<1>5. LinesOf(Eaten(f, u)) \in Acc(Bytes)
  BY <1>4, LinesType
<1>6. n = 0 => Eaten(f, u) = <<>>
  BY <1>4, EmptySeq
<1> QED
  BY <1>3, <1>4, <1>5, <1>6, LinesEmpty DEF Acc

LEMMA EatenNext ==
  ASSUME NEW f \in Seq(Bytes), NEW u \in 1 .. Len(f)
  PROVE  LinesOf(Eaten(f, u - 1)) = Extend(LinesOf(Eaten(f, u)), f[(Len(f) - u) + 1])
<1> DEFINE n == Len(f) - u
<1>1. n \in Nat /\ n + 1 <= Len(f) /\ n \in 0 .. Len(f) /\ n + 1 = Len(f) - (u - 1) /\ n + 1 \in 1 .. Len(f)
  OBVIOUS
<1>2. Eaten(f, u) = SubSeq(f, 1, n) /\ Eaten(f, u - 1) = SubSeq(f, 1, n + 1)
  BY <1>1 DEF Eaten
<1> HIDE DEF n
<1>3. SubSeq(f, 1, n + 1) = Append(SubSeq(f, 1, n), f[n + 1])
  BY <1>1, TakeNext
<1>4. SubSeq(f, 1, n) \in Seq(Bytes) /\ f[n + 1] \in Bytes
  BY <1>1, Prefix
<1>5. LinesOf(Append(SubSeq(f, 1, n), f[n + 1])) = Extend(LinesOf(SubSeq(f, 1, n)), f[n + 1])
  BY <1>4, LinesAppend
<1> QED
  BY <1>2, <1>3, <1>5 DEF n

LEMMA PieceType ==
  ASSUME NEW f \in Seq(Bytes), NEW u \in 0 .. Len(f), NEW st
  PROVE  Piece(f, st, u) \in Seq(Bytes)
<1>1. <<>> \in Seq(Bytes)
  OBVIOUS
<1> QED
  BY <1>1, EatenType DEF Piece

LEMMA LinesStart == LinesInit => LInv
<1> SUFFICES ASSUME LinesInit PROVE LInv
  OBVIOUS
<1> DEFINE z == 0
           u == Len(file)
<1>1. /\ file \in Seq(Bytes) /\ rest = file /\ store = NoString /\ offset = z /\ out = NoString /\ given = <<>>
      /\ upset = FALSE /\ reader = "idle"
  BY FilesAssumption DEF LinesInit, Bytes
<1>2. /\ NoString \in Str(Bytes) /\ Holds(NoString, <<>>) /\ NoString.data = "null" /\ NoString.len = 0
      /\ NoString.alloc = 0
  BY NoStringOf
<1>3. u \in Nat /\ u \in 0 .. u /\ <<>> \in Seq(Bytes) /\ BUFSIZE \in Nat
  BY <1>1, BufferAssumption
<1>4. Unread(store, offset, rest) = u
  BY <1>1, <1>2, <1>3 DEF Unread
<1>5. LinesOf(Eaten(file, u)) = NoLines
  BY <1>1, <1>3, EatenType
<1>6. Fed(file, store, offset, rest)
  <2>1. \E h \in Seq(Bytes) : Holds(store, h)
    BY <1>1, <1>2, <1>3
  <2>2. \A i \in 1 .. Len(rest) : rest[i] = file[(Len(file) - Len(rest)) + i]
    <3> SUFFICES ASSUME NEW i \in 1 .. u PROVE rest[i] = file[(u - u) + i]
      BY <1>1
    <3>1. (u - u) + i = i
      BY <1>3
    <3> QED
      BY <1>1, <3>1
  <2>3. \A i \in 1 .. store.len - offset : store.mem[offset + i] = file[(Len(file) - u) + i]
    BY <1>1, <1>2
  <2>4. offset \in Nat /\ offset <= store.len /\ store.len <= BUFSIZE
    BY <1>1, <1>2, <1>3
  <2> QED
    BY <1>1, <1>2, <1>3, <1>4, <2>1, <2>2, <2>3, <2>4 DEF Fed
<1> HIDE DEF z, u
<1>7. given = LinesOf(Eaten(file, u)).lines /\ Holds(out, Piece(file, store, u))
  BY <1>1, <1>2, <1>5 DEF NoLines, Piece
<1> QED
  BY <1>1, <1>2, <1>4, <1>6, <1>7 DEF LInv, LineInv, u

\* What the fields of the invariant give, in one place.
LEMMA LineFields ==
  ASSUME LInv
  PROVE  LET u == Unread(store, offset, rest)
         IN  /\ file \in Seq(Bytes) /\ Fed(file, store, offset, rest) /\ upset \in BOOLEAN
             /\ u \in 0 .. Len(file) /\ Len(file) \in Nat
             /\ out \in Str(Bytes) /\ out.data # "stale" /\ (out.alloc = 0 => out.data = "null")
             /\ out.refused \in Nat /\ out.alloc \in Nat
             /\ Piece(file, store, u) \in Seq(Bytes)
             /\ ~upset => given = LinesOf(Eaten(file, u)).lines /\ Holds(out, Piece(file, store, u))
<1> DEFINE u == Unread(store, offset, rest)
<1>1. file \in Seq(Bytes) /\ Fed(file, store, offset, rest) /\ upset \in BOOLEAN
      /\ out \in Str(Bytes) /\ out.data # "stale" /\ (out.alloc = 0 => out.data = "null")
      /\ (~upset => given = LinesOf(Eaten(file, u)).lines /\ Holds(out, Piece(file, store, u)))
  BY DEF LInv, LineInv
<1>2. u \in Nat /\ u <= Len(file) /\ Len(file) \in Nat
  BY <1>1, FedFields
<1> HIDE DEF u
<1>3. u \in 0 .. Len(file)
  BY <1>2
<1>4. Piece(file, store, u) \in Seq(Bytes)
  BY <1>1, <1>3, PieceType
<1>5. out.refused \in Nat /\ out.alloc \in Nat
  BY <1>1, StrLoose, StrFields
<1> QED
  BY <1>1, <1>2, <1>3, <1>4, <1>5 DEF u

\* The character that lv_fgetc gives is the next of the text, and the line so
\* far is that of the characters before it.
LEMMA NextChar ==
  ASSUME LInv, NEW g \in Fgetc, g.c # EOF
  PROVE  LET u == Unread(store, offset, rest)
             a == LinesOf(Eaten(file, u))
         IN  /\ Fed(file, g.st, g.at, g.left) /\ ~g.failed /\ g.st.data = "live" /\ g.c \in Bytes
             /\ a \in Acc(Bytes) /\ LinesOf(Eaten(file, Unread(g.st, g.at, g.left))) = Extend(a, g.c)
             /\ ~upset => given = a.lines /\ Holds(out, a.piece)
<1> DEFINE u == Unread(store, offset, rest)
           a == LinesOf(Eaten(file, u))
           c == file[(Len(file) - u) + 1]
<1>1. /\ file \in Seq(Bytes) /\ Fed(file, store, offset, rest)
      /\ u \in 0 .. Len(file) /\ Len(file) \in Nat
      /\ ~upset => given = a.lines /\ Holds(out, Piece(file, store, u))
  BY LineFields
<1>2. Answer(file, g, u)
  BY <1>1, FgetcOf
<1>3. /\ Fed(file, g.st, g.at, g.left) /\ ~g.failed /\ g.st.data = "live" /\ u >= 1
      /\ Unread(g.st, g.at, g.left) = u - 1 /\ g.c = c
  BY <1>2 DEF Answer
<1>4. ~upset /\ store.data = "null" => u \in {0, Len(file)}
  BY DEF LInv, LineInv
<1> HIDE DEF u
<1>5. c \in Bytes
  <2>1. (Len(file) - u) + 1 \in 1 .. Len(file)
    BY <1>1, <1>3
  <2> QED
    BY <1>1, <2>1, ElementOfSeq
<1>6. LinesOf(Eaten(file, u - 1)) = Extend(a, c) /\ a \in Acc(Bytes)
  <2>1. u \in 1 .. Len(file)
    BY <1>1, <1>3
  <2> QED
    BY <1>1, <2>1, EatenNext, EatenType
<1>7. ASSUME ~upset PROVE Holds(out, a.piece)
  <2>1. CASE store.data = "null"
    <3>1. u = Len(file)
      BY <1>3, <1>4, <1>7, <2>1
    <3>2. a = NoLines
      BY <1>1, <3>1, EatenType
    <3> QED
      BY <1>1, <1>7, <2>1, <3>2 DEF Piece, NoLines
  <2>2. CASE store.data # "null"
    BY <1>1, <1>7, <2>2 DEF Piece
  <2> QED
    BY <2>1, <2>2
<1> HIDE DEF a, c
<1> QED
  BY <1>1, <1>3, <1>5, <1>6, <1>7 DEF u, a

\* An outcome of a turn of the loop, with the line so far it leaves.
LEMMA TurnKeeps ==
  ASSUME LInv, NEW g \in Fgetc, Took(g), NEW o \in Str(Bytes), out' = o, o.data # "stale",
         o.alloc = 0 => o.data = "null", upset' \in BOOLEAN,
         reader' = "reading" => o.alloc > 0,
         reader' = "ended" => g.st.data = "null" /\ g.st.alloc = 0 /\ o.data = "null" /\ o.alloc = 0,
         ~upset' =>
           LET w == Unread(g.st, g.at, g.left)
           IN  /\ reader' # "undefined"
               /\ g.st.data = "null" => w \in {0, Len(file)}
               /\ given' = LinesOf(Eaten(file, w)).lines
               /\ Holds(o, Piece(file, g.st, w)),
         Fed(file, g.st, g.at, g.left)
  PROVE  LInv'
<1>1. store' = g.st /\ offset' = g.at /\ rest' = g.left /\ file' = file
  BY DEF Took
<1>2. file \in Seq(Bytes)
  BY LineFields
<1>3. LineInv(file, g.st, g.at, g.left, o, given', upset', reader')
  BY <1>2 DEF LineInv
<1>4. LInv' <=> LineInv(file', store', offset', rest', out', given', upset', reader')
  BY DEF LInv, LineInv, Fed, Holds, Unread, Piece, Eaten
<1> QED
  BY <1>1, <1>3, <1>4

LEMMA NewData ==
  ASSUME NEW s, NEW n, NEW t \in TstrNew(s, n), Emptied(s).data = "null", Emptied(s) \in Str(Bytes), n \in Nat
  PROVE  t.data # "stale"
<1> DEFINE e == Emptied(s)
           v == [e EXCEPT !.alloc = n + 1]
           b == TstrBlock(v, RunOf(NUL, n + 1))
<1>1. t = b \/ t \in TstrRefused(e)
  BY DEF TstrNew
<1>2. e.data = "null" /\ e \in Str(Bytes) /\ e \in StrOver(Bytes)
  BY DEF Str
<1> HIDE DEF e
<1>3. v \in StrOver(Bytes)
  BY <1>2 DEF StrOver
<1> HIDE DEF v
<1>4. b.data = "live"
  BY <1>3 DEF TstrBlock, StrOver
<1>5. t \in TstrRefused(e) => t.data = e.data
  BY <1>2, RefusedOf
<1> QED
  BY <1>1, <1>2, <1>4, <1>5

LEMMA CallKeeps ==
  ASSUME LInv, Call
  PROVE  LInv'
<1> DEFINE u == Unread(store, offset, rest)
           p == Piece(file, store, u)
<1>1. PICK o \in (IF out.alloc = 0 THEN TstrNew(out, BUFSIZE) ELSE {out}) :
        /\ out' = o
        /\ reader' = IF out.alloc = 0 /\ o.data = "null" THEN "idle" ELSE "reading"
  BY DEF Call
<1>2. file' = file /\ rest' = rest /\ store' = store /\ offset' = offset /\ given' = given /\ upset' = upset
  BY DEF Call
<1>3. /\ file \in Seq(Bytes) /\ Fed(file, store, offset, rest) /\ upset \in BOOLEAN
      /\ out \in Str(Bytes) /\ out.data # "stale" /\ (out.alloc = 0 => out.data = "null")
      /\ out.refused \in Nat /\ out.alloc \in Nat
      /\ p \in Seq(Bytes) /\ (~upset => given = LinesOf(Eaten(file, u)).lines /\ Holds(out, p))
  BY LineFields
<1>4. ~upset => (store.data = "null" => u \in {0, Len(file)})
  BY DEF LInv, LineInv
<1>5. BUFSIZE \in Nat /\ BUFSIZE + 1 > 0
  BY BufferAssumption
<1> HIDE DEF u, p
<1>6. /\ o \in Str(Bytes) /\ o.data # "stale" /\ (o.alloc = 0 => o.data = "null") /\ (reader' = "reading" => o.alloc > 0)
      /\ ~upset => Holds(o, p)
  <2>1. CASE out.alloc # 0
    BY <1>1, <1>3, <2>1
  <2>2. CASE out.alloc = 0
    <3>1. o \in TstrNew(out, BUFSIZE) /\ out.data = "null"
      BY <1>1, <1>3, <2>2
    <3>2. Kept(out, o, Bytes, p, <<>>, TRUE) /\ (o.data = "live" => o.alloc = BUFSIZE + 1)
      BY <1>3, <1>5, <3>1, NewOf
    <3>3. Holds(out, p) => p = <<>>
      BY <1>3, <3>1, HoldsLive
    <3>4. o \in Str(Bytes) /\ (~upset => Holds(o, p))
      BY <1>3, <3>2, <3>3 DEF Kept
    <3>5. o.data \in {"null", "live"} /\ o.alloc \in Nat
      <4>1. o.data \in {"null", "live", "stale"} /\ o.alloc \in Nat
        BY <3>4, StrLoose, StrFields
      <4>2. o.data # "stale"
        <5>1. Emptied(out).data = "null" /\ Emptied(out) \in Str(Bytes)
          BY <1>3, <3>1, EmptiedOf
        <5> QED
          BY <1>5, <3>1, <5>1, NewData
      <4> QED
        BY <4>1, <4>2
    <3>6. reader' = "reading" => o.data # "null"
      BY <1>1, <2>2
    <3> QED
      BY <1>5, <3>2, <3>4, <3>5, <3>6
  <2> QED
    BY <2>1, <2>2
<1>7. reader' \in {"idle", "reading"}
  BY <1>1
<1>8. LineInv(file, store, offset, rest, o, given, upset, reader')
  <2>1. reader' # "ended" /\ reader' # "undefined"
    BY <1>7
  <2> QED
    BY <1>3, <1>4, <1>6, <2>1 DEF LineInv, u, p
<1>9. LInv' <=> LineInv(file', store', offset', rest', out', given', upset', reader')
  BY DEF LInv, LineInv, Fed, Holds, Unread, Piece, Eaten
<1> QED
  BY <1>1, <1>2, <1>8, <1>9

LEMMA TakeCharKeeps ==
  ASSUME LInv, TakeChar
  PROVE  LInv'
<1>1. PICK g \in Fgetc :
        /\ reader = "reading" /\ g.c \notin {EOF, Hard, NL} /\ Took(g)
        /\ \E o \in TstrPush(out, g.c) :
             out' = o /\ Pushed(o) /\ upset' = (upset \/ o.refused > out.refused)
        /\ given' = given
  BY DEF TakeChar
<1>2. PICK o \in TstrPush(out, g.c) : out' = o /\ Pushed(o) /\ upset' = (upset \/ o.refused > out.refused)
  BY <1>1
<1> DEFINE u == Unread(store, offset, rest)
           a == LinesOf(Eaten(file, u))
           w == Unread(g.st, g.at, g.left)
           p == a.piece
           c == g.c
<1>3. g.c # EOF
  BY <1>1
<1>4. /\ Fed(file, g.st, g.at, g.left) /\ ~g.failed /\ g.st.data = "live" /\ c \in Bytes
      /\ a \in Acc(Bytes) /\ LinesOf(Eaten(file, w)) = Extend(a, c)
      /\ ~upset => given = a.lines /\ Holds(out, p)
  BY <1>3, NextChar
<1>5. /\ out \in Str(Bytes) /\ out.data # "stale" /\ out.refused \in Nat /\ upset \in BOOLEAN /\ out.alloc > 0
  <2>1. out.alloc > 0
    BY <1>1 DEF LInv, LineInv
  <2> QED
    BY <2>1, LineFields
<1>6. p \in Seq(Bytes)
  BY <1>4 DEF Acc
<1>7. Extend(a, c).lines = a.lines /\ Extend(a, c).piece = Append(p, c)
  <2> HIDE DEF a, c
  <2>1. Extend(a, c).lines = (IF c = NL THEN Append(a.lines, Append(a.piece, c)) ELSE a.lines)
        /\ Extend(a, c).piece = IF c \in {NL, Hard} THEN <<>> ELSE Append(a.piece, c)
    BY <1>4, ExtendType
  <2> QED
    BY <1>1, <2>1 DEF c
<1> HIDE DEF c
<1>o. o \in TstrPush(out, c)
  BY <1>2 DEF c
<1> HIDE DEF p
<1>8. /\ Kept(out, o, Bytes, p, Append(p, c), o.refused = out.refused /\ out.alloc > 0)
      /\ o.data # "stale" /\ o.alloc > 0
  BY <1>4, <1>5, <1>6, <1>o, PushOf
<1>9. o \in Str(Bytes) /\ o.refused \in {out.refused, out.refused + 1}
  BY <1>8 DEF Kept
<1>10. reader' \in {"reading", "undefined"}
  BY <1>2 DEF Pushed
<1>11. ASSUME ~upset'
       PROVE  reader' # "undefined" /\ given' = Extend(a, c).lines /\ Holds(o, Extend(a, c).piece)
  <2>1. ~upset /\ o.refused = out.refused
    <3>1. ~upset /\ ~(o.refused > out.refused)
      BY <1>2, <1>11, Zenon
    <3> QED
      BY <3>1, <1>5, <1>9
  <2>2. Holds(o, Append(p, c))
    BY <1>4, <1>5, <1>8, <2>1 DEF Kept
  <2>3. o.defined
    BY <2>2 DEF Holds
  <2>4. reader' = "reading"
    BY <1>2, <2>3 DEF Pushed
  <2> QED
    BY <1>1, <1>4, <1>7, <2>1, <2>2, <2>4
<1>12. upset' \in BOOLEAN
  BY <1>2, <1>5
<1> HIDE DEF a, u
<1> DEFINE P == Piece(file, g.st, w)
<1>13. P = Extend(a, c).piece
  BY <1>4 DEF Piece
<1> HIDE DEF w, P
<1>14. ~upset' => reader' # "undefined" /\ given' = LinesOf(Eaten(file, w)).lines /\ Holds(o, P)
  BY <1>4, <1>11, <1>13
<1>15. reader' # "ended" /\ o.alloc # 0
  BY <1>8, <1>10
<1>16. g.st.data # "null"
  BY <1>4
<1> QED
  BY <1>1, <1>2, <1>4, <1>8, <1>9, <1>12, <1>14, <1>15, <1>16, TurnKeeps DEF w, P

LEMMA TakeLineKeeps ==
  ASSUME LInv, TakeLine
  PROVE  LInv'
<1> DEFINE c == NL
           u == Unread(store, offset, rest)
           a == LinesOf(Eaten(file, u))
           p == a.piece
<1>1. PICK g \in Fgetc :
        /\ reader = "reading" /\ g.c = c /\ Took(g)
        /\ \E o \in TstrPush(out, c) : \E line \in TstrClone(o) :
             /\ out' = TstrClear(o) /\ reader' = IF o.defined THEN "idle" ELSE "undefined"
             /\ upset' = (upset \/ o.refused > out.refused \/ line.refused > 0)
             /\ given' = IF line.data = "live" THEN Append(given, TstrText(line)) ELSE given
  BY DEF TakeLine
<1>2. PICK o \in TstrPush(out, c) : \E line \in TstrClone(o) :
        /\ out' = TstrClear(o) /\ reader' = IF o.defined THEN "idle" ELSE "undefined"
        /\ upset' = (upset \/ o.refused > out.refused \/ line.refused > 0)
        /\ given' = IF line.data = "live" THEN Append(given, TstrText(line)) ELSE given
  BY <1>1
<1>3. PICK line \in TstrClone(o) :
        /\ out' = TstrClear(o) /\ reader' = IF o.defined THEN "idle" ELSE "undefined"
        /\ upset' = (upset \/ o.refused > out.refused \/ line.refused > 0)
        /\ given' = IF line.data = "live" THEN Append(given, TstrText(line)) ELSE given
  BY <1>2
<1> DEFINE w == Unread(g.st, g.at, g.left)
<1>4. /\ Fed(file, g.st, g.at, g.left) /\ g.st.data = "live" /\ c \in Bytes
      /\ a \in Acc(Bytes) /\ LinesOf(Eaten(file, w)) = Extend(a, c)
      /\ ~upset => given = a.lines /\ Holds(out, p)
  <2>1. g.c # EOF /\ g.c = c
    BY <1>1 DEF NL, EOF
  <2> QED
    BY <2>1, NextChar
<1>5. /\ out \in Str(Bytes) /\ out.data # "stale" /\ out.refused \in Nat /\ upset \in BOOLEAN /\ out.alloc > 0
  <2>1. out.alloc > 0
    BY <1>1 DEF LInv, LineInv
  <2> QED
    BY <2>1, LineFields
<1>6. p \in Seq(Bytes)
  BY <1>4 DEF Acc
<1>7. Extend(a, c).lines = Append(a.lines, Append(p, c)) /\ Extend(a, c).piece = <<>>
  <2> HIDE DEF a, c
  <2>1. Extend(a, c).lines = (IF c = NL THEN Append(a.lines, Append(a.piece, c)) ELSE a.lines)
        /\ Extend(a, c).piece = IF c \in {NL, Hard} THEN <<>> ELSE Append(a.piece, c)
    BY <1>4, ExtendType
  <2> QED
    BY <2>1 DEF c
<1> HIDE DEF c, p
<1>8. /\ Kept(out, o, Bytes, p, Append(p, c), o.refused = out.refused /\ out.alloc > 0)
      /\ o.data # "stale" /\ o.alloc > 0
  BY <1>2, <1>4, <1>5, <1>6, PushOf
<1>9. o \in Str(Bytes) /\ o.refused \in {out.refused, out.refused + 1}
  BY <1>8 DEF Kept
<1> DEFINE text == Append(p, c)
           e == TstrClear(o)
<1>10. text \in Seq(Bytes) /\ text # <<>> /\ <<>> \in Seq(Bytes)
  <2>1. text \in Seq(Bytes) /\ Len(text) = Len(p) + 1
    BY <1>4, <1>6, AppendProperties
  <2>2. Len(p) + 1 # 0 /\ Len(<<>>) = 0 /\ <<>> \in Seq(Bytes)
    BY <1>6
  <2> HIDE DEF text
  <2> QED
    BY <2>1, <2>2
<1> HIDE DEF text
<1>11. /\ Kept(o, e, Bytes, text, <<>>, TRUE) /\ e.refused = o.refused /\ e.data = o.data /\ e.alloc = o.alloc
  BY <1>9, <1>10, ClearOf
<1>12. out' = e
  BY <1>3
<1> HIDE DEF e
<1>13. e \in Str(Bytes) /\ e.data # "stale" /\ (e.alloc = 0 => e.data = "null")
  BY <1>8, <1>11 DEF Kept
<1>14. reader' \in {"idle", "undefined"}
  BY <1>3
<1>15. upset' \in BOOLEAN
  BY <1>3, <1>5
<1>16. ASSUME ~upset'
       PROVE  reader' # "undefined" /\ given' = Extend(a, c).lines /\ Holds(e, Extend(a, c).piece)
  <2>1. ~upset /\ o.refused = out.refused /\ ~(line.refused > 0)
    <3>1. ~upset /\ ~(o.refused > out.refused) /\ ~(line.refused > 0)
      BY <1>3, <1>16, Zenon
    <3> QED
      BY <3>1, <1>5, <1>9
  <2>2. Holds(o, text)
    BY <1>4, <1>5, <1>8, <2>1 DEF Kept, text
  <2>3. reader' = "idle"
    BY <1>3, <2>2 DEF Holds
  <2>4. Holds(e, <<>>)
    BY <1>11, <2>2 DEF Kept
  <2>5. line \in Str(Bytes) /\ line.refused \in Nat /\ (line.refused = 0 => Holds(line, text))
    BY <1>3, <1>9, <1>10, <2>2, CloneOf
  <2>6. Holds(line, text)
    BY <2>1, <2>5
  <2>7. line.data = "live"
    <3>1. line.data # "null" /\ line.data # "stale"
      BY <1>10, <2>5, <2>6, HoldsLive
    <3>2. line.data \in {"null", "live", "stale"}
      BY <2>5, StrLoose, StrFields
    <3> QED
      BY <3>1, <3>2
  <2>8. TstrText(line) = text
    BY <1>10, <2>5, <2>6, TextOf
  <2>9. given' = Append(a.lines, text)
    BY <1>3, <1>4, <2>1, <2>7, <2>8
  <2> QED
    BY <1>7, <2>3, <2>4, <2>9 DEF text
<1> HIDE DEF a, u
<1> DEFINE P == Piece(file, g.st, w)
<1>17. P = Extend(a, c).piece
  BY <1>4 DEF Piece
<1> HIDE DEF w, P
<1>18. ~upset' => reader' # "undefined" /\ given' = LinesOf(Eaten(file, w)).lines /\ Holds(e, P)
  BY <1>4, <1>16, <1>17
<1>19. reader' # "ended" /\ reader' # "reading"
  BY <1>14
<1>20. g.st.data # "null"
  BY <1>4
<1> QED
  BY <1>1, <1>4, <1>12, <1>13, <1>15, <1>18, <1>19, <1>20, TurnKeeps DEF w, P

LEMMA TakeEndKeeps ==
  ASSUME LInv, TakeEnd
  PROVE  LInv'
<1> DEFINE u == Unread(store, offset, rest)
           a == LinesOf(Eaten(file, u))
           p == Piece(file, store, u)
           e == TstrFree(out)
<1>1. PICK g \in Fgetc :
        /\ reader = "reading" /\ g.c \in {EOF, Hard} /\ Took(g)
        /\ out' = e /\ reader' = (IF g.c = EOF THEN "ended" ELSE "idle")
        /\ upset' = (upset \/ g.failed) /\ given' = given
  BY DEF TakeEnd, Dropped
<1> DEFINE w == Unread(g.st, g.at, g.left)
<1>2. /\ file \in Seq(Bytes) /\ Fed(file, store, offset, rest) /\ upset \in BOOLEAN
      /\ u \in 0 .. Len(file) /\ Len(file) \in Nat
      /\ out \in Str(Bytes) /\ out.data # "stale" /\ p \in Seq(Bytes)
      /\ ~upset => given = a.lines /\ Holds(out, p)
  BY LineFields
<1>3. ~upset => (store.data = "null" => u \in {0, Len(file)})
  BY DEF LInv, LineInv
<1>4. Answer(file, g, u) /\ (g.c = EOF /\ ~g.failed => store.data = "null" \/ u = 0)
  BY <1>2, FgetcOf
<1> HIDE DEF p, e
<1>5. /\ Kept(out, e, Bytes, p, <<>>, TRUE) /\ e.refused = out.refused
      /\ e.data = "null" /\ e.alloc = 0
  BY <1>2, FreeOf DEF e
<1>6. e \in Str(Bytes) /\ (~upset => Holds(e, <<>>))
  BY <1>2, <1>5 DEF Kept
<1>7. upset' \in BOOLEAN /\ g.failed \in BOOLEAN
  BY <1>1, <1>2, <1>4 DEF Answer
<1>8. ~upset' => ~upset /\ ~g.failed
  BY <1>1
<1>9. Fed(file, g.st, g.at, g.left)
  BY <1>4 DEF Answer
<1>10. reader' # "reading" /\ reader' # "undefined"
  BY <1>1
<1>11. reader' = "ended" => g.st.data = "null" /\ g.st.alloc = 0
  BY <1>1, <1>4 DEF Answer
<1>12. ASSUME ~upset'
       PROVE  /\ g.st.data = "null" => w \in {0, Len(file)}
              /\ given' = LinesOf(Eaten(file, w)).lines
              /\ Holds(e, Piece(file, g.st, w))
  <2>1. CASE g.c = EOF
    <3>1. g.st.data = "null" /\ w = u
      BY <1>4, <2>1 DEF Answer
    <3>2. u \in {0, Len(file)}
      BY <1>3, <1>4, <1>8, <1>12, <2>1
    <3>3. Piece(file, g.st, w) = <<>>
      BY <3>1 DEF Piece
    <3> QED
      BY <1>1, <1>2, <1>6, <1>8, <1>12, <3>1, <3>2, <3>3
  <2>2. CASE g.c # EOF
    <3> DEFINE c == g.c
    <3>1. /\ g.st.data = "live" /\ c \in Bytes
          /\ a \in Acc(Bytes) /\ LinesOf(Eaten(file, w)) = Extend(a, c)
      BY <2>2, NextChar
    <3>2. c = Hard
      BY <1>1, <2>2
    <3> HIDE DEF c, a, w
    <3>3. Extend(a, c).lines = (IF c = NL THEN Append(a.lines, Append(a.piece, c)) ELSE a.lines)
          /\ Extend(a, c).piece = IF c \in {NL, Hard} THEN <<>> ELSE Append(a.piece, c)
      BY <3>1, ExtendType
    <3>4. Extend(a, c).lines = a.lines /\ Extend(a, c).piece = <<>>
      BY <3>2, <3>3 DEF Hard, NL
    <3>5. Piece(file, g.st, w) = <<>>
      BY <3>1, <3>4 DEF Piece
    <3>6. g.st.data # "null" /\ given' = a.lines
      BY <1>1, <1>2, <1>8, <1>12, <3>1 DEF a
    <3> QED
      BY <1>6, <1>8, <1>12, <3>1, <3>4, <3>5, <3>6
  <2> QED
    BY <2>1, <2>2
<1> DEFINE P == Piece(file, g.st, w)
<1>13. ~upset' => /\ g.st.data = "null" => w \in {0, Len(file)}
                  /\ given' = LinesOf(Eaten(file, w)).lines
                  /\ Holds(e, P)
  BY <1>12
<1> HIDE DEF w, P, a, u
<1>14. e.data # "stale" /\ e.data = "null"
  BY <1>5
<1>15. Took(g) /\ out' = e
  BY <1>1
<1> QED
  BY <1>5, <1>6, <1>7, <1>9, <1>10, <1>11, <1>13, <1>14, <1>15, TurnKeeps DEF w, P

LEMMA LinesStep == LInv /\ LinesNext => LInv'
BY CallKeeps, TakeCharKeeps, TakeLineKeeps, TakeEndKeeps DEF LinesNext, Take

LEMMA LinesStutter == LInv /\ UNCHANGED linesVars => LInv'
<1> SUFFICES ASSUME LInv, UNCHANGED linesVars PROVE LInv'
  OBVIOUS
<1>1. /\ file' = file /\ rest' = rest /\ store' = store /\ offset' = offset /\ out' = out /\ given' = given
      /\ upset' = upset /\ reader' = reader
  BY DEF linesVars
<1>2. LInv' <=> LineInv(file', store', offset', rest', out', given', upset', reader')
  BY DEF LInv, LineInv, Fed, Holds, Unread, Piece, Eaten
<1> QED
  BY <1>1, <1>2 DEF LInv

LEMMA LinesHold == LInv => LinesTypeOK /\ LinesExact /\ EndReleases
<1> SUFFICES ASSUME LInv PROVE LinesTypeOK /\ LinesExact /\ EndReleases
  OBVIOUS
<1> DEFINE u == Unread(store, offset, rest)
           p == Piece(file, store, u)
<1>1. /\ file \in Seq(Bytes) /\ Fed(file, store, offset, rest) /\ upset \in BOOLEAN
      /\ u \in 0 .. Len(file) /\ Len(file) \in Nat
      /\ out \in Str(Bytes) /\ out.data # "stale" /\ p \in Seq(Bytes)
      /\ ~upset => given = LinesOf(Eaten(file, u)).lines /\ Holds(out, p)
  BY LineFields
<1>2. /\ store \in Str(Bytes) /\ offset \in Nat /\ store.len \in Nat /\ store.data \in {"null", "live"}
      /\ offset <= store.len /\ store.len <= BUFSIZE /\ Len(rest) \in Nat
      /\ u = Len(rest) + (store.len - offset)
  BY <1>1, FedFields
<1>3. \A s \in {store, out} : s \in Str(Bytes) /\ s.data # "stale"
  BY <1>1, <1>2
<1>4. \A s \in {store, out} : s.len \in Nat /\ s.blocks \in Nat /\ s.data \in {"null", "live"}
                              /\ (s.data = "null" => s.blocks <= s.refused)
  <2> SUFFICES ASSUME NEW s \in Str(Bytes), s.data # "stale"
               PROVE  s.len \in Nat /\ s.blocks \in Nat /\ s.data \in {"null", "live"}
                      /\ (s.data = "null" => s.blocks <= s.refused)
    BY <1>3
  <2>1. /\ s.data \in {"null", "live", "stale"} /\ s.len \in Nat /\ s.blocks \in Int /\ s.refused \in Nat
        /\ Owned(s) \in {0, 1} /\ Lost(s) = s.blocks - Owned(s) /\ Lost(s) \in 0 .. s.refused
    BY StrLoose, StrFields
  <2>2. s.data = "null" => Owned(s) = 0
    BY DEF Owned
  <2> QED
    BY <2>1, <2>2
<1>5. LinesTypeOK
  <2>1. offset \in 0 .. BUFSIZE
    BY <1>2, BufferAssumption
  <2> QED
    BY <1>2, <1>4, <2>1 DEF LinesTypeOK
<1>6. Consumed = Eaten(file, u)
  <2>1. Len(file) - Len(rest) - (store.len - offset) = Len(file) - u
    BY <1>1, <1>2
  <2> HIDE DEF u
  <2> QED
    BY <2>1 DEF Consumed, Eaten
<1>7. LinesExact
  <2> SUFFICES ASSUME ~upset
               PROVE  /\ reader # "undefined" /\ given = LinesOf(Eaten(file, u)).lines
                      /\ TstrText(out) = IF store.data = "null" THEN <<>> ELSE LinesOf(Eaten(file, u)).piece
    BY <1>6 DEF LinesExact
  <2>1. reader # "undefined"
    BY DEF LInv, LineInv
  <2> HIDE DEF u
  <2>2. TstrText(out) = p
    <3> HIDE DEF p
    <3> QED
      BY <1>1, TextOf
  <2>3. p = IF store.data = "null" THEN <<>> ELSE LinesOf(Eaten(file, u)).piece
    BY DEF Piece
  <2> HIDE DEF p
  <2> QED
    BY <1>1, <2>1, <2>2, <2>3
<1>8. EndReleases
  <2> SUFFICES ASSUME reader = "ended"
               PROVE  /\ store.data = "null" /\ store.alloc = 0 /\ store.blocks <= store.refused
                      /\ out.data = "null" /\ out.alloc = 0 /\ out.blocks <= out.refused
    BY DEF EndReleases
  <2>1. store.data = "null" /\ store.alloc = 0 /\ out.data = "null" /\ out.alloc = 0
    BY DEF LInv, LineInv
  <2> QED
    BY <1>4, <2>1
<1> QED
  BY <1>5, <1>7, <1>8

\* The place in the store and the two statics are what the code takes them for,
\* whatever read gives and whenever memory is refused (lv_fgetc.c, get_next_line.c).
THEOREM LinesTypes == LinesSpec => []LinesTypeOK
<1>1. LInv /\ [LinesNext]_linesVars => LInv'
  BY LinesStep, LinesStutter
<1> QED
  BY <1>1, LinesStart, LinesHold, PTL DEF LinesSpec

\* For every file, every buffer size and every way read cuts the file up, the
\* lines given are those of the bytes read, in order, and the line begun is kept
\* for the next call, unless a read failed or memory was refused.
THEOREM LinesAreExact == LinesSpec => []LinesExact
<1>1. LInv /\ [LinesNext]_linesVars => LInv'
  BY LinesStep, LinesStutter
<1> QED
  BY <1>1, LinesStart, LinesHold, PTL DEF LinesSpec

\* At the end of the file both statics are free, whatever happened before.
THEOREM EndIsReleased == LinesSpec => []EndReleases
<1>1. LInv /\ [LinesNext]_linesVars => LInv'
  BY LinesStep, LinesStutter
<1> QED
  BY <1>1, LinesStart, LinesHold, PTL DEF LinesSpec

-----------------------------------------------------------------------------
(* The library: one client, the others at rest.                            *)

LibraryInv == Inv /\ ArenaInv /\ StrInv /\ LInv

LEMMA LibraryInitial == LibraryInit => LibraryInv
BY InitInv, ArenaInitial, StringInitial, LinesStart DEF LibraryInit, LibraryInv

LEMMA VectorStutter == Inv /\ UNCHANGED vars => Inv'
BY StepInv

LEMMA ArenaStutter == ArenaInv /\ UNCHANGED arenaVars => ArenaInv'
BY ArenaStep

LEMMA LibraryStep == LibraryInv /\ [LibraryNext]_libraryVars => LibraryInv'
<1> SUFFICES ASSUME LibraryInv, [LibraryNext]_libraryVars PROVE LibraryInv'
  OBVIOUS
<1>1. Inv /\ ArenaInv /\ StrInv /\ LInv
  BY DEF LibraryInv
<1>2. /\ Next \/ UNCHANGED vars
      /\ ArenaNext \/ UNCHANGED arenaVars
      /\ StringNext \/ UNCHANGED stringVars
      /\ LinesNext \/ UNCHANGED linesVars
  BY DEF LibraryNext, Others, libraryVars
<1>3. Inv'
  BY <1>1, <1>2, StepInv
<1>4. ArenaInv'
  BY <1>1, <1>2, ArenaStep
<1>5. StrInv'
  BY <1>1, <1>2, StringStep, StringStutter
<1>6. LInv'
  BY <1>1, <1>2, LinesStep, LinesStutter
<1> QED
  BY <1>3, <1>4, <1>5, <1>6 DEF LibraryInv

LEMMA LibraryAlways == LibrarySpec => []LibraryInv
BY LibraryInitial, LibraryStep, PTL DEF LibrarySpec

\* The types of the four clients, whichever of them runs.
THEOREM LibraryTypes == LibrarySpec => []TypesOK
<1>1. LibraryInv => TypesOK
  BY StringHolds, LinesHold DEF LibraryInv, TypesOK, Inv, ArenaInv
<1> QED
  BY <1>1, LibraryAlways, PTL

\* Every safety invariant of the containers and of the line reader is one of
\* the library that they make.
THEOREM LibraryIsSafe ==
  LibrarySpec => [](SoundUse /\ NoStaleSlots /\ GrantsApart /\ GrantsFit /\ ArenaAccounts
                    /\ TextKept /\ LinesExact /\ EndReleases)
<1>1. LibraryInv => SoundUse /\ NoStaleSlots /\ GrantsApart /\ GrantsFit /\ ArenaAccounts
                    /\ TextKept /\ LinesExact /\ EndReleases
  BY GrantsInside, StringHolds, LinesHold DEF LibraryInv, Inv, ArenaInv
<1> QED
  BY <1>1, LibraryAlways, PTL
=============================================================================
