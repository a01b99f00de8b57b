----------------------------- MODULE ZgdbCrash -----------------------------
(***************************************************************************)
(* The storage core when the server dies without finish(): it is killed,   *)
(* the client closes the connection before the answer is sent (SIGPIPE in  *)
(* send), or ADD, JOIN or PARENT name a document that does not exist and   *)
(* the NULL head of an empty result list is dereferenced.                  *)
(*                                                                         *)
(* What survives: the flags, which live in a shared mapping of the file;   *)
(* and of what went through stdio, everything up to the last fseeko, which *)
(* flushes.  The last write of a step stays in the buffer until the next   *)
(* step seeks.  The free list exists in the file only as finish() left it, *)
(* at offset header.fileSize, until a block is appended over it.           *)
(***************************************************************************)
EXTENDS ZgdbStoreInv

CONSTANTS MaxSessions,    \* bound on the sessions of a behaviour
          MaxFreeNodes    \* bound on the length of a damaged free list

VARIABLES
    disk,     \* block headers and header.nodes as far as they are flushed
    image,    \* the list at header.fileSize and whether it is still a list
    sessions  \* sessions begun

crashVars == <<vars, disk, image, sessions>>

CrashInit ==
    /\ Init
    /\ disk = [block |-> block, nodes |-> nodes]
    /\ image = [intact |-> FALSE, nodes |-> <<>>]
    /\ sessions = 1

\* The link written last by these steps is still in the buffer after them,
\* and so is the header saved last by those that count documents.
BufferedLink == LinkSon \/ Unlink

Flush ==
    disk' = [block |-> IF BufferedLink THEN block ELSE block',
             nodes |-> nodes]

\* header.fileSize grows: a new index gets a block, or blocks are moved.
FileGrows ==
    \/ indexCount' # indexCount
    \/ \E i \in Indexes : flag[i] = "NEW" /\ flag'[i] = "ALIVE"

TrackImage ==
    image' = IF pc' = "closed" THEN [intact |-> TRUE, nodes |-> savedList']
             ELSE IF FileGrows THEN [intact |-> FALSE, nodes |-> <<>>]
             ELSE image

\* After a restart from a stale list the links may become circular, and a
\* deletion that follows them frees for ever: the bound cuts that off.
Bounded ==
    /\ Len(freeList.nodes) <= MaxFreeNodes
    /\ pc = "closed" => sessions < MaxSessions

Normal ==
    /\ Bounded
    /\ Next
    /\ Flush
    /\ TrackImage
    /\ sessions' = IF pc = "closed" THEN sessions + 1 ELSE sessions

\* The flags when the step in progress has already stored its own.
TornFlags ==
    IF pc = "del"
    THEN [flag EXCEPT ![call.target] = IF @ = "ALIVE" THEN "DEAD" ELSE @]
    ELSE IF pc \in {"subtree", "toasts"}
    THEN [flag EXCEPT ![call.temp] = IF @ = "ALIVE" THEN "DEAD" ELSE @]
    ELSE flag

\* When the list in the file is no longer intact, init() reads a count and
\* nodes from whatever lies there, or leaves them uninitialised: nothing can
\* be said of such a restart, and it is left out.
Crash ==
    /\ pc # "closed"
    /\ image.intact
    /\ flag' \in {flag, TornFlags}
    /\ block' = disk.block
    /\ nodes' = disk.nodes
    /\ savedList' = image.nodes
    /\ freeList' = EmptyList
    /\ stack' = <<>>
    /\ Goto("closed", NoCall)
    /\ UNCHANGED <<indexCount, disk, image, sessions>>

CrashNext == Normal \/ Crash

CrashSpec == CrashInit /\ [][CrashNext]_crashVars

-----------------------------------------------------------------------------
\* Whatever list a restart finds, an index it offers as new never had a block
\* and is offered once: only dead blocks can be given out while in use.
NewIndexesStayUnused ==
    \A k \in 1 .. Len(freeList.nodes) :
        freeList.nodes[k].blockSize = 0 =>
            /\ flag[freeList.nodes[k].indexOrder] = "NEW"
            /\ \A m \in 1 .. Len(freeList.nodes) :
                  freeList.nodes[m] = freeList.nodes[k] => m = k

\* zgdbindex.h:10-13: an index is new, attached to an existing block, or dead
\* and reusable; what the restored list offers for use is not in use.
OfferedIndexesAreReusable ==
    \A k \in 1 .. Len(freeList.nodes) :
        flag[freeList.nodes[k].indexOrder] # "ALIVE"
-----------------------------------------------------------------------------
(* The inductive invariant behind NewIndexesStayUnused.  A crash may leave *)
(* links that are out of date and a list that offers blocks in use, but    *)
(* what is named anywhere, in memory or in the file, has been attached to  *)
(* a block once, and only a new index is listed with size 0.               *)

Used == {i \in Indexes : flag[i] # "NEW"}

\* The headers that have a size and name only indexes of U.
BlocksOver(U) ==
    {h \in Block :
        /\ h.capacity # 0
        /\ {h.indexSon, h.indexBrother, h.firstToastIndex, h.nextToastIndex}
              \subseteq U}

\* A list of indexes of I: new ones are outside of U and listed once.
KnownNodes(I, U) ==
    {s \in Seq(Node) :
        \A k \in 1 .. Len(s) :
            /\ s[k].indexOrder \in I
            /\ s[k].blockSize = 0 <=> s[k].indexOrder \notin U
            /\ s[k].blockSize = 0 =>
                  \A m \in 1 .. Len(s) : s[m] = s[k] => m = k}

\* A list in memory, whose search looks at its ends and at a counter.
KnownLists(I, U) ==
    {list \in [nodes : KnownNodes(I, U), indexesCount : Nat,
               newIndexesCount : Int] :
        Sorted(list.nodes) /\ list.indexesCount = Len(list.nodes)}

TableIsTyped ==
    /\ indexCount \in Nat
    /\ flag \in [Indexes -> Flags]
    /\ 0 \in Used

BlocksNameUsed(b) ==
    /\ b \in [Indexes -> Block]
    /\ \A i \in Used : b[i] \in BlocksOver(Used)

CallNamesUsed ==
    /\ call \in Call
    /\ stack \in Seq(Used)
    /\ pc # "load" =>
          {call.parent, call.target, call.toastIndex, call.temp, call.tail,
           call.prev} \subseteq Used
    /\ pc \in {"expand", "toast", "document", "linkSon", "walk", "unlink",
               "del", "subtree", "toasts"} => call.header \in BlocksOver(Used)
    /\ pc \in {"expand", "toast", "document"} => call.docSize # 0
    /\ pc = "toast" => call.toastSize # 0

ListsAreKnown ==
    /\ freeList \in KnownLists(Indexes, Used)
    /\ savedList \in KnownNodes(Indexes, Used)
    /\ pc \notin {"closed", "load"} => savedList = <<>>
    /\ pc = "closed" => freeList = EmptyList

\* What init() has still to read is not listed yet.
UnreadIsNotListed ==
    pc = "load" =>
        /\ call.temp \in 1 .. Len(savedList)
        /\ \A k \in call.temp .. Len(savedList) :
              savedList[k].blockSize = 0 => ~ Offers(freeList, savedList[k])

MemoryInv ==
    /\ TableIsTyped
    /\ BlocksNameUsed(block)
    /\ CallNamesUsed
    /\ ListsAreKnown
    /\ UnreadIsNotListed

DiskInv ==
    /\ BlocksNameUsed(disk.block)
    /\ image.nodes \in KnownNodes(Indexes, Used)

CrashInv == MemoryInv /\ DiskInv
=============================================================================
