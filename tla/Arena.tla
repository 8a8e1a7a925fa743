-------------------------------- MODULE Arena --------------------------------
(***************************************************************************)
(* llv/src/alloc/lv_arena.c over lv_alloc_align: requests served from a    *)
(* chain of pools, all released when the program exits. A pool is an       *)
(* aligned block, so places in it are counted from its start. The static   *)
(* current only shortens the walk to the last arena, and is left out.      *)
(***************************************************************************)
EXTENDS Integers, Sequences, FiniteSets

CONSTANTS
  Align,          \* DEF_ALIGN
  Header,         \* sizeof(void *), kept before a block
  DefaultPool,    \* DEFAULT_ARENA_SIZE
  Requests,       \* sizes asked for
  Tabs,           \* addresses malloc returns, as far as they matter
  MaxGrants,      \* bound on the requests served
  MaxRefusals,    \* bound on the refusals of malloc
  MallocMayFail   \* whether malloc may refuse

ASSUME AlignAssumption == Align \in Nat \ {0} /\ Header \in 1 .. Align
ASSUME PoolAssumption == DefaultPool \in Nat /\ DefaultPool >= 2 * Align
ASSUME RequestAssumption == Requests \subseteq Nat \ {0} /\ Tabs \subseteq Nat

VARIABLES
  chain,          \* the arenas: the size of the pool, its offset, and how far
                  \* its block begins before it
  grants,         \* what was handed out: pool, first place, first place after
  refusals,       \* refusals so far
  structs, pools, \* t_arena blocks and pools allocated and not freed
  stored,         \* lv_free_arena's store points to the chain
  arenaStatus     \* "running", "undefined" or "exited"

arenaVars == <<chain, grants, refusals, structs, pools, stored, arenaStatus>>

ArenaInit ==
  /\ chain = <<>> /\ grants = {} /\ refusals = 0
  /\ structs = 0 /\ pools = 0 /\ stored = FALSE /\ arenaStatus = "running"

-----------------------------------------------------------------------------
(* lv_alloc_align: malloc gives BlockBytes(size) bytes at tab.             *)

Padding(x) == (-x) % Align      \* -x & (Align - 1)
Aligned(tab) == tab + Header + Padding(tab + Header)
BlockBytes(size) == Header + (Align - 1) + size

Running == arenaStatus = "running"
Forgotten == chain # <<>> /\ ~stored
Newest == Len(chain)

PoolSize(size) == IF 2 * size > DefaultPool THEN 2 * size ELSE DefaultPool
NewArena(size, tab) == [size |-> PoolSize(size), offset |-> 0, lead |-> Aligned(tab) - tab]

Start(a) == a.offset + Header + Padding(a.offset + Header)
\* Mutant: the padding is not counted.
FitsBare(a, size) == a.offset + size <= a.size
\* The bytes of the header before the base are not counted.
Fits(a, size) == a.offset + Padding(a.offset + Header) + size <= a.size

\* Mutant: the offset does not cover the padding.
ServedShort(a, size) == [a EXCEPT !.offset = a.offset + size]
Served(a, size) == [a EXCEPT !.offset = a.offset + Padding(a.offset + Header) + size]
Grant(i, a, size) == [pool |-> i, from |-> Start(a), to |-> Start(a) + size]

\* lv_arena(size): the last arena has room,
ServeHere(size) ==
  /\ Running /\ chain # <<>> /\ stored /\ Fits(chain[Newest], size)
  /\ chain' = [chain EXCEPT ![Newest] = Served(chain[Newest], size)]
  /\ grants' = grants \union {Grant(Newest, chain[Newest], size)}
  /\ UNCHANGED <<refusals, structs, pools, stored, arenaStatus>>

NeedsArena(size) == Running /\ (chain = <<>> \/ (stored /\ ~Fits(chain[Newest], size)))

\* or a new one serves it, put behind the last; the first one is stored,
ServeNew(size) ==
  \E tab \in Tabs :
    LET a == NewArena(size, tab)
    IN  /\ NeedsArena(size)
        /\ chain' = Append(chain, Served(a, size))
        /\ grants' = grants \union {Grant(Newest + 1, a, size)}
        /\ structs' = structs + 1 /\ pools' = pools + 1 /\ stored' = TRUE
        /\ UNCHANGED <<refusals, arenaStatus>>

\* or malloc refuses the t_arena, or the pool and the t_arena is forgotten,
ServeRefused(size) ==
  /\ NeedsArena(size) /\ MallocMayFail /\ refusals < MaxRefusals
  /\ refusals' = refusals + 1 /\ structs' \in {structs, structs + 1}
  /\ UNCHANGED <<chain, grants, pools, stored, arenaStatus>>

\* or the arenas have been freed, and are used all the same.
ServeFreed ==
  /\ Running /\ Forgotten
  /\ arenaStatus' = "undefined" /\ UNCHANGED <<chain, grants, refusals, structs, pools, stored>>

\* Mutant: the walk stops before the last arena.
FreedShort == IF chain = <<>> THEN 0 ELSE Len(chain) - 1
FreedArenas == Len(chain)
Release ==
  IF stored
  THEN structs' = structs - FreedArenas /\ pools' = pools - FreedArenas /\ stored' = FALSE
  ELSE UNCHANGED <<structs, pools, stored>>

\* lv_free_arena(NULL), called by the program,
FreeArena == Running /\ Release /\ UNCHANGED <<chain, grants, refusals, arenaStatus>>

\* or by exit: the handler is called with NULL.
Exit == Running /\ Release /\ arenaStatus' = "exited" /\ UNCHANGED <<chain, grants, refusals>>

ArenaNext ==
  \/ \E size \in Requests :
       Cardinality(grants) < MaxGrants /\ (ServeHere(size) \/ ServeNew(size) \/ ServeRefused(size))
  \/ ServeFreed
  \/ FreeArena
  \/ Exit

ArenaSpec == ArenaInit /\ [][ArenaNext]_arenaVars

-----------------------------------------------------------------------------
(* Properties.                                                             *)

ArenaType == [size : Nat, offset : Nat, lead : Nat]
GrantType == [pool : Nat \ {0}, from : Nat, to : Nat]

\* The types of the arenas. An offset never leaves its pool.
ArenaTypeOK ==
  /\ chain \in Seq(ArenaType) /\ grants \in SUBSET GrantType
  /\ structs \in Int /\ pools \in Int /\ refusals \in Nat /\ stored \in BOOLEAN
  /\ \A i \in 1 .. Len(chain) : chain[i].offset <= chain[i].size

\* What lv_arena hands out never overlaps, over any sequence of requests and
\* however many pools they take (lv_arena.c:27-39).
GrantsApart ==
  \A g, h \in grants : g # h /\ g.pool = h.pool => g.to <= h.from \/ h.to <= g.from

\* A grant begins after the header and ends in its pool or the header's bytes
\* past it, as far as the pool's block reaches unless malloc has returned a
\* multiple of the alignment (lv_arena.c:30, lv_alloc.c:17).
GrantsFit ==
  \A g \in grants :
    LET a == chain[g.pool]
    IN  /\ g.pool \in 1 .. Len(chain) /\ Header <= g.from /\ g.to <= a.size + Header
        /\ a.lead < Align => a.lead + g.to <= BlockBytes(a.size)

\* The arenas lv_free_arena would free.
Live == IF stored THEN Len(chain) ELSE 0

\* Every pool can still be freed until it is, and then no other is; the only
\* t_arena that is lost is one whose pool was refused (lv_arena.c:13).
ArenaAccounts == pools = Live /\ structs - Live \in 0 .. refusals
=============================================================================
