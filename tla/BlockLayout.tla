----------------------------- MODULE BlockLayout -----------------------------
(***************************************************************************)
(* Where the blocks of the storage core lie in the file.  The header and   *)
(* the table come first, then betweenSpace unused bytes, then the blocks   *)
(* up to fileSize.  A new index gets a block at the end, a dead index      *)
(* keeps the place of its block.  expandIndexes (zgdb.c) copies the blocks *)
(* behind the table to the end of the file one by one, until the room they *)
(* leave is enough for the new indexes.                                    *)
(*                                                                         *)
(* Two things break the layout.  expandIndexes moves header.size bytes of  *)
(* a document whose reused block has more: from then on the blocks are no  *)
(* longer tight.  And a toast writes its header and capacity further bytes *)
(* of zeros, so that in a reused block it clears the header behind it.     *)
(* What the server makes of a living document without a header, or of the  *)
(* middle of a block, is not modelled: behaviours end there, unless the    *)
(* header is the parent's, which the ADD that cleared it writes back.      *)
(***************************************************************************)
EXTENDS ZgdbStoreInv

CONSTANTS
    HEADER_SIZE,  \* sizeof(zgdbHeader)
    INDEX_SIZE,   \* sizeof(zgdbIndex)
    REQ_SIZE      \* reqSize of expandIndexes

ASSUME LayoutAssumption ==
    /\ HEADER_SIZE \in Nat
    /\ INDEX_SIZE \in Nat \ {0}
    /\ REQ_SIZE \in Nat \ {0}

VARIABLES
    offset,        \* where the table says the block of an index begins
    size,          \* how many bytes expandIndexes takes a block to have
    fileSize,      \* header.fileSize
    betweenSpace,  \* header.betweenSpace
    nextBlock,     \* the local of expandIndexes
    freeSize,      \* its local currentFreeSize
    cleared,       \* the indexes whose block's header was overwritten
    tight          \* no block has lost its spare bytes (not in the code)

walk       == <<nextBlock, freeSize>>
layout     == <<offset, size, fileSize, betweenSpace, walk, cleared, tight>>
layoutVars == <<vars, layout>>

\* The indexes that own a block: dead ones keep theirs.
Owners == {i \in Indexes : flag[i] # "NEW"}

\* One past the last index of the table.
TableEnd == HEADER_SIZE + indexCount * INDEX_SIZE

\* Behind a block, as far as its capacity goes.
End(i) == offset[i] + block[i].capacity

LayoutInit ==
    /\ Init
    /\ fileSize = HEADER_SIZE + INDEX_INITIAL_CAPACITY * INDEX_SIZE + 1
    /\ offset = [i \in 0 .. INDEX_INITIAL_CAPACITY - 1 |->
                    IF i = 0 THEN fileSize - 1 ELSE 0]
    /\ size = [i \in 0 .. INDEX_INITIAL_CAPACITY - 1 |->
                  IF i = 0 THEN 1 ELSE 0]
    /\ betweenSpace = 0
    /\ nextBlock = 0
    /\ freeSize = 0
    /\ cleared = {}
    /\ tight = TRUE

-----------------------------------------------------------------------------
(* createDocument and createNewToast.                                      *)

\* The index that gets a block in this step, and how.
Placed   == {i \in Indexes : flag[i] # "ALIVE" /\ flag'[i] = "ALIVE"}
Appended == {i \in Placed : flag[i] = "NEW"}
Reused   == Placed \ Appended

\* header.size of a document, the capacity of a toast.
SizeOf(i) ==
    IF block'[i].blockType = "DOCUMENT" THEN call.docSize
    ELSE block'[i].capacity

\* The blocks that begin in the sizeof(toast) bytes behind toast i.
Behind(i) ==
    {j \in Owners : offset[j] \in End(i) .. End(i) + TOAST_HEADER - 1}

\* Mutant: fileSize grows although a block is reused.
GrownAlways == {fileSize + block'[i].capacity : i \in Placed}

Grown == {fileSize + block'[i].capacity : i \in Appended}

\* The document whose whole header is written from an earlier copy.
Rewritten ==
    CASE pc = "linkSon" -> {call.parent}
      [] pc = "unlink"  -> {IF IsFirstSon THEN call.parent ELSE call.prev}
      [] OTHER          -> {}

Place ==
    /\ offset' = [i \in Indexes |->
                     IF i \in Appended THEN fileSize ELSE offset[i]]
    /\ size' = [i \in Indexes |-> IF i \in Placed THEN SizeOf(i) ELSE size[i]]
    /\ fileSize' = IF Grown = {} THEN fileSize ELSE CHOOSE s \in Grown : TRUE
    /\ cleared' = (cleared \ (Placed \cup Rewritten)) \cup
          UNION {Behind(i) : i \in {j \in Reused :
                                       block'[j].blockType = "TOAST"}}
    /\ UNCHANGED <<betweenSpace, tight>>

\* The search and the requests do not meet a cleared header; ADD still has
\* that of the parent in memory.
HeadersIntact ==
    \A i \in cleared :
        flag[i] = "ALIVE" => pc \in {"document", "linkSon"} /\ i = call.parent

\* Any step but the expansion; StartCreate may start one.
Step ==
    /\ HeadersIntact
    /\ pc # "expand"
    /\ Next
    /\ Place
    /\ nextBlock' = IF pc' = "expand" THEN TableEnd + betweenSpace ELSE 0
    /\ freeSize' = IF pc' = "expand" THEN betweenSpace ELSE 0

-----------------------------------------------------------------------------
(* expandIndexes.                                                          *)

RoomWanted == freeSize < REQ_SIZE

\* Mutant: updateOffset is forgotten.
OffsetKept(i) == offset

OffsetUpdated(i) == [offset EXCEPT ![i] = fileSize]

\* The block at nextBlock, in use or dead.
MoveBlock ==
    /\ HeadersIntact
    /\ pc = "expand"
    /\ RoomWanted
    /\ \E i \in Owners \ cleared :
          /\ offset[i] = nextBlock
          /\ offset' = OffsetUpdated(i)
          /\ fileSize' = fileSize + size[i]
          /\ nextBlock' = nextBlock + size[i]
          /\ freeSize' = freeSize + size[i]
          /\ tight' = (tight /\ size[i] = block[i].capacity)
    /\ UNCHANGED <<vars, size, betweenSpace, cleared>>

\* A cleared header reads as that of a document of index 0 and of size 0:
\* the loop moves nothing and stays where it is.
MoveNothing ==
    /\ HeadersIntact
    /\ pc = "expand"
    /\ RoomWanted
    /\ \E i \in cleared : offset[i] = nextBlock
    /\ offset' = OffsetUpdated(0)
    /\ tight' = FALSE
    /\ UNCHANGED <<vars, size, fileSize, betweenSpace, walk, cleared>>

NewIndexes == freeSize \div INDEX_SIZE

\* Mutant: the room is not divided.
RoomUndivided == freeSize

RoomLeft == freeSize % INDEX_SIZE

\* The room becomes new indexes, whose offset is 0.
EndExpand ==
    /\ HeadersIntact
    /\ ~ RoomWanted
    /\ NewIndexes \in ExpandCounts
    /\ ExpandIndexes(NewIndexes)
    /\ betweenSpace' = RoomLeft
    /\ offset' = [i \in 0 .. indexCount' - 1 |->
                     IF i < indexCount THEN offset[i] ELSE 0]
    /\ size' = [i \in 0 .. indexCount' - 1 |->
                   IF i < indexCount THEN size[i] ELSE 0]
    /\ nextBlock' = 0
    /\ freeSize' = 0
    /\ UNCHANGED <<fileSize, cleared, tight>>

Expand == MoveBlock \/ MoveNothing \/ EndExpand

LayoutNext == Step \/ Expand

LayoutSpec == LayoutInit /\ [][LayoutNext]_layoutVars /\ WF_layoutVars(Expand)

-----------------------------------------------------------------------------
(* Properties.                                                             *)

\* Every variable has its type; offsets and sizes cover the table.
LayoutTypeOK ==
    /\ offset \in [Indexes -> Nat]
    /\ size \in [Indexes -> Nat]
    /\ fileSize \in Nat
    /\ betweenSpace \in 0 .. INDEX_SIZE - 1
    /\ nextBlock \in Nat
    /\ freeSize \in Nat
    /\ cleared \in SUBSET Indexes
    /\ tight \in BOOLEAN

\* The blocks of the owners, each with its place and its capacity, fill the
\* bytes first .. end - 1 without a gap and without an overlap.
Tiles(owners, place, capacity, first, end) ==
    /\ \A i \in owners : first <= place[i] /\ place[i] + capacity[i] <= end
    /\ \A i, j \in owners :
          i # j => \/ place[i] + capacity[i] <= place[j]
                   \/ place[j] + capacity[j] <= place[i]
    /\ \A b \in first .. end - 1 :
          \E i \in owners : place[i] <= b /\ b < place[i] + capacity[i]

Capacities == [i \in Indexes |-> block[i].capacity]

\* Where the blocks begin: behind those an expansion has moved away.
BlocksFrom == IF pc = "expand" THEN nextBlock ELSE TableEnd + betweenSpace

\* Every byte from betweenSpace to fileSize belongs to the block of exactly
\* one index, alive or dead, after any number of allocations, reuses, moves
\* and expansions: no block reaches into another or into the table.
BlocksTileTheFile ==
    tight => Tiles(Owners, offset, Capacities, BlocksFrom, fileSize)

\* expandIndexes finds a block wherever it looks for one, its own copies
\* included, and stops.
ExpansionEnds ==
    (pc = "expand" /\ tight /\ cleared = {}) ~> (pc # "expand" \/ ~ tight)

\* The inductive invariant: the room an expansion has gained lies between the
\* table and the block it looks at next.
WalkKeepsTrack == pc = "expand" => nextBlock = TableEnd + freeSize

LayoutInv == IInv /\ LayoutTypeOK /\ WalkKeepsTrack /\ BlocksTileTheFile

\* zgdbindex.h:11: an alive index is attached to an existing block.
AliveIndexesHaveBlocks == \A i \in Indexes : flag[i] = "ALIVE" => i \notin cleared
=============================================================================
