----------------------------- MODULE MCLibrary ------------------------------
(***************************************************************************)
(* The containers and the line reader of llv, each checked on its own: a   *)
(* behaviour is that of one client, the others stay in their first state.  *)
(***************************************************************************)
EXTENDS Vector, Arena, Lines

CONSTANT MaxFile        \* longest file to read

VARIABLE client
libraryVars == <<client, vars, arenaVars, stringVars, linesVars>>

TwoValues == {"a", "b"}
LibraryFiles == BoundedSeq({1, NL, Hard}, MaxFile)

LibraryInit ==
  /\ client \in {"vector", "arena", "string", "lines"}
  /\ Init /\ ArenaInit /\ StringInit
  /\ LinesInit /\ (client # "lines" => file = <<>>)

Others(mine) == UNCHANGED <<client, mine>>
LibraryNext ==
  \/ client = "vector" /\ Next /\ Others(<<arenaVars, stringVars, linesVars>>)
  \/ client = "arena" /\ ArenaNext /\ Others(<<vars, stringVars, linesVars>>)
  \/ client = "string" /\ StringNext /\ Others(<<vars, arenaVars, linesVars>>)
  \/ client = "lines" /\ LinesNext /\ Others(<<vars, arenaVars, stringVars>>)

LibrarySpec == LibraryInit /\ [][LibraryNext]_libraryVars /\ WF_linesVars(client = "lines" /\ Take)

\* The types of the vector, the arenas, a string and the two statics.
TypesOK == TypeOK /\ ArenaTypeOK /\ StringTypeOK /\ LinesTypeOK
=============================================================================
