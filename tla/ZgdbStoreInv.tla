---------------------------- MODULE ZgdbStoreInv ----------------------------
(***************************************************************************)
(* What the storage core promises: its type invariant, the invariants that *)
(* tie the index table, the free list and the links of the blocks          *)
(* together, and the properties of its steps.                              *)
(***************************************************************************)
EXTENDS ZgdbStore

\* Every variable has its type; the table and the block headers cover
\* exactly the indexes the header counts.
TypeOK ==
    /\ indexCount \in Nat \ {0}
    /\ flag \in [Indexes -> Flags]
    /\ block \in [Indexes -> Block]
    /\ nodes \in Int
    /\ savedList \in Seq(Node)
    /\ freeList \in FreeIndexesList
    /\ pc \in Steps
    /\ call \in Call
    /\ stack \in Seq(Nat)

-----------------------------------------------------------------------------
(* The free list.  Between finish() and init() it lies in the file, and    *)
(* while init() reads it back the part not read yet still does.            *)

UnreadFrom ==
    IF pc = "closed" THEN 1
    ELSE IF pc = "load" THEN call.temp
    ELSE Len(savedList) + 1

Unread == UnreadFrom .. Len(savedList)

ListedNodes == {freeList.nodes[k] : k \in 1 .. Len(freeList.nodes)}

UnreadNodes == {savedList[k] : k \in Unread}

FreeNodeOf(i) ==
    [indexOrder |-> i,
     blockSize  |-> IF flag[i] = "NEW" THEN 0 ELSE block[i].capacity]

\* The list in memory is sorted, free of duplicates and counted right
\* whatever the order of inserts and takes, so that looking at its two ends
\* (findRelevantIndex) finds the largest dead block and a new index.
FreeListWellFormed == WellFormedList(freeList)

\* An index the list offers is not alive and carries the capacity of its
\* dead block, or 0 when it is new: no block in use is ever handed out again.
FreeIndexesAreUnused ==
    \A n \in ListedNodes \cup UnreadNodes :
        /\ n.indexOrder \in Indexes
        /\ flag[n.indexOrder] # "ALIVE"
        /\ n = FreeNodeOf(n.indexOrder)

\* Every index that is not alive is on offer: deletes, expansions, finish()
\* and init() lose none.
NoIndexLost ==
    \A i \in Indexes :
        flag[i] # "ALIVE" => FreeNodeOf(i) \in ListedNodes \cup UnreadNodes

\* createDocument never dereferences the NULL of findRelevantIndex: the
\* expansion it does first leaves enough indexes for a toast and a document.
CreateFindsIndex ==
    /\ pc = "toast" => HasRelevantIndex(freeList, call.toastSize)
    /\ pc = "document" => HasRelevantIndex(freeList, call.docSize)

\* The only NULL dereference is in an UPDATE, and only once no new index is
\* left and no dead block is large enough.
AbortsOnlyWhenExhausted ==
    pc = "aborted" => /\ freeList.newIndexesCount = 0
                      /\ \A i \in Indexes : flag[i] # "NEW"

-----------------------------------------------------------------------------
(* The document tree.  A link is a field of a live document's header, or a *)
(* place where a running deletion keeps a document it still has to visit.  *)

LiveDocuments ==
    {i \in Indexes : flag[i] = "ALIVE" /\ block[i].blockType = "DOCUMENT"}

LiveToasts ==
    {i \in Indexes : flag[i] = "ALIVE" /\ block[i].blockType = "TOAST"}

\* Links about to be overwritten, which a document taken over or given up
\* by the running request duplicates.
StaleSons == IF pc = "linkSon" THEN {call.parent} ELSE {}
StaleBrothers == IF pc = "del" THEN {call.target} ELSE {}

\* The document the running request has not linked yet or has just unlinked.
Unlinked == IF pc \in {"linkSon", "del"} THEN {call.target} ELSE {}

DocumentLinks ==
    ({"son"} \X (LiveDocuments \ StaleSons))
    \cup ({"brother"} \X (LiveDocuments \ StaleBrothers))
    \cup ({"stack"} \X (1 .. Len(stack)))
    \cup ({"next"} \X (IF pc = "subtree" THEN {0} ELSE {}))

DocumentAt(link) ==
    CASE link[1] = "son"     -> block[link[2]].indexSon
      [] link[1] = "brother" -> block[link[2]].indexBrother
      [] link[1] = "stack"   -> stack[link[2]]
      [] link[1] = "next"    -> call.temp

\* A link names a live document other than the root, or nothing: no request
\* follows a link into a dead block or a toast.
LinksNameLiveDocuments ==
    \A l \in DocumentLinks :
        DocumentAt(l) # 0 => DocumentAt(l) \in LiveDocuments \ {0}

\* No two links name the same document: no document has two places in the
\* tree, and a deletion visits none twice.
LinksAreUnique ==
    \A l, m \in DocumentLinks :
        DocumentAt(l) = DocumentAt(m) /\ DocumentAt(l) # 0 => l = m

\* Every live document but the root is named by a link: deletions leave no
\* document behind that is alive and in no tree.
NoDocumentLost ==
    \A d \in LiveDocuments \ ({0} \cup Unlinked) :
        \E l \in DocumentLinks : DocumentAt(l) = d

\* Between requests the live documents are those a search can reach from the
\* root, and header.nodes counts them.
TreeIsWhole ==
    pc \in {"idle", "closed"} =>
        /\ LiveDocuments = Reachable
        /\ nodes = Cardinality(LiveDocuments)

-----------------------------------------------------------------------------
(* The toasts.  Those of deleted descendants stay alive and unlinked, so   *)
(* here only the links are constrained.                                    *)

\* The toasts the running request holds and no block links to (any more).
HeldToast ==
    IF pc \in {"document", "linkToast"} THEN call.toastIndex
    ELSE IF pc = "subtree" THEN call.header.firstToastIndex
    ELSE IF pc = "toasts" THEN call.temp
    ELSE 0

ToastLinks ==
    ({"first"} \X LiveDocuments) \cup ({"next"} \X LiveToasts)
    \cup {<<"held", 0>>}

ToastAt(link) ==
    CASE link[1] = "first" -> block[link[2]].firstToastIndex
      [] link[1] = "next"  -> block[link[2]].nextToastIndex
      [] link[1] = "held"  -> HeldToast

\* A document's chain of toasts consists of live toasts.
ToastLinksNameLiveToasts ==
    \A l \in ToastLinks : ToastAt(l) # 0 => ToastAt(l) \in LiveToasts

\* No toast belongs to two chains: freeing the chain of one document takes
\* no text away from another.
ToastLinksAreUnique ==
    \A l, m \in ToastLinks :
        ToastAt(l) = ToastAt(m) /\ ToastAt(l) # 0 => l = m

-----------------------------------------------------------------------------
(* Steps.                                                                  *)

CapacitiesKept ==
    \A i \in Indexes :
        flag[i] # "NEW" => block'[i].capacity = block[i].capacity

RoomGiven ==
    \A i \in Indexes :
        pc = "document" /\ flag[i] # "ALIVE" /\ flag'[i] = "ALIVE" =>
            block'[i].capacity >= call.docSize

OwnersKept ==
    \A i \in Indexes :
        flag[i] = "ALIVE" /\ flag'[i] = "ALIVE" =>
            /\ block'[i].blockType = block[i].blockType
            /\ block'[i].firstToastIndex = block[i].firstToastIndex

\* The capacity recorded for a block never changes, whatever uses the block
\* next, so the list of empty indexes and the block's header go on agreeing
\* on its room; and a document is only given a block that has the room it
\* asked for, although findRelevantIndex looks at the two ends of the list
\* only.  Of what is written into a toast this says nothing: the zeros of
\* createDocument reach past the room (zgdb.c:163, see BlockLayout).
BlocksKeepCapacity == [][CapacitiesKept /\ RoomGiven]_vars

\* A block in use is never given to someone else: until it dies it keeps its
\* type and, if it is a document, its toasts.
LiveBlocksKeepOwner == [][OwnersKept]_vars

\* Every request the server has begun ends: the loops over brothers, the
\* subtree and the toasts terminate.  In a run of several sessions it also
\* says that readFreeList ends.
RequestsEnd ==
    pc \notin {"idle", "closed", "aborted"} ~>
        pc \in {"idle", "closed", "aborted"}

-----------------------------------------------------------------------------
(* The inductive invariant.  Besides the invariants above it says what the *)
(* running request knows: how its locals are related to the file.          *)

\* The saved list is in the file while no list is in memory, and the part
\* not read yet shares no index with the part that is in memory again.
SavedListIsDisjoint ==
    /\ pc = "closed" => freeList = EmptyList
    /\ pc = "load" => call.temp \in 1 .. Len(savedList)
    /\ \A k, l \in Unread :
          savedList[k].indexOrder = savedList[l].indexOrder => k = l
    /\ \A n \in ListedNodes, k \in Unread :
          n.indexOrder # savedList[k].indexOrder

BlocksHaveRoom == \A i \in Indexes : flag[i] # "NEW" => block[i].capacity > 0

RootIsAlive == 0 \in LiveDocuments

\* The copy of the parent's header stays up to date until it is written back,
\* and the new indexes createDocument counted on are still there.
CreateKeepsTrack ==
    /\ pc \in {"expand", "toast", "document", "linkSon"} =>
          /\ call.parent \in LiveDocuments
          /\ call.header = block[call.parent]
          /\ call.docSize > 0
    /\ pc \in {"expand", "toast"} => call.toastIndex = 0
    /\ pc = "toast" => call.toastSize > 0 /\ freeList.newIndexesCount >= 2
    /\ pc = "document" => freeList.newIndexesCount >= 1
    /\ pc = "linkSon" => call.target \in LiveDocuments \ {0, call.parent}

\* A deletion's target is alive and its header up to date where it is used;
\* the walk is still in front of the target, one behind its predecessor.
DeleteKeepsTrack ==
    /\ pc \in {"walk", "unlink", "del"} =>
          /\ call.target \in LiveDocuments \ {0, call.parent}
          /\ call.parent \in LiveDocuments
          /\ call.header.capacity = block[call.target].capacity
          /\ call.header.indexSon = block[call.target].indexSon
          /\ call.header.firstToastIndex = block[call.target].firstToastIndex
    /\ pc = "walk" =>
          /\ call.temp \in LiveDocuments \ {0}
          /\ call.target \in BrothersFrom(call.temp)
          /\ call.tail \in LiveDocuments \ {call.target}
          /\ \/ block[call.parent].indexSon = call.temp
             \/ block[call.tail].indexBrother = call.temp
    /\ pc = "unlink" =>
          /\ call.tail = call.target
          /\ \/ block[call.parent].indexSon = call.target
             \/ /\ call.prev \in LiveDocuments \ {call.target}
                /\ block[call.prev].indexBrother = call.target
    /\ pc \in {"subtree", "toasts"} => call.temp # 0

\* The toast to be extended is alive; a NULL was for want of a new index.
GrowKeepsTrack ==
    /\ pc = "linkToast" => call.target \in LiveToasts
    /\ pc = "aborted" => freeList.newIndexesCount = 0

\* No link names the document not linked yet or just unlinked.
UnlinkedIsNotLinked ==
    \A l \in DocumentLinks :
        DocumentAt(l) # 0 => DocumentAt(l) \notin Unlinked

SpaceInv ==
    /\ FreeListWellFormed
    /\ FreeIndexesAreUnused
    /\ NoIndexLost
    /\ SavedListIsDisjoint
    /\ BlocksHaveRoom

TreeInv ==
    /\ RootIsAlive
    /\ LinksNameLiveDocuments
    /\ LinksAreUnique
    /\ NoDocumentLost
    /\ UnlinkedIsNotLinked

ToastInv == ToastLinksNameLiveToasts /\ ToastLinksAreUnique

RequestInv == CreateKeepsTrack /\ DeleteKeepsTrack /\ GrowKeepsTrack

IInv == TypeOK /\ SpaceInv /\ TreeInv /\ ToastInv /\ RequestInv

-----------------------------------------------------------------------------
(* The tree as a whole, while a request is running.  With IInv these parts *)
(* are inductive, and they say what IInv leaves open: that the links of    *)
(* the live documents form no ring beside the tree.                        *)

\* The iterator stacks documents and leaves an empty stack behind.
StackHoldsDocuments ==
    /\ \A k \in 1 .. Len(stack) : stack[k] # 0
    /\ pc # "subtree" => stack = <<>>

CountsDocuments == nodes = Cardinality(LiveDocuments)

\* Documents that are in no tree any more and that the running deletion has
\* still to visit.
Doomed ==
    IF pc = "del" THEN {call.target}
    ELSE IF pc = "subtree"
    THEN {call.temp} \cup {stack[k] : k \in 1 .. Len(stack)}
    ELSE {}

\* Where the links of a document lead; those of an unlinked target's brother
\* link are not the deletion's.
LinkedFrom(d) ==
    ({block[d].indexSon}
        \cup (IF d \in StaleBrothers THEN {} ELSE {block[d].indexBrother}))
    \ {0}

\* From the root and the doomed documents the links lead to every live
\* document but the one that is not linked yet.
NoDocumentCutOff ==
    \A S \in SUBSET Indexes :
        (/\ {0} \cup Doomed \subseteq S
         /\ \A d \in S \cap LiveDocuments : LinkedFrom(d) \subseteq S)
        => \A d \in LiveDocuments :
              d \in S \/ (pc = "linkSon" /\ d = call.target)

\* A new document has no sons and stands before the sons of its parent.
NewDocumentComesFirst ==
    pc = "linkSon" =>
        /\ block[call.target].indexSon = 0
        /\ block[call.target].indexBrother = block[call.parent].indexSon

TargetIsChild ==
    pc \in {"walk", "unlink"} =>
        call.parent \in Reachable /\ call.target \in Children(call.parent)

WholeInv ==
    /\ StackHoldsDocuments
    /\ CountsDocuments
    /\ NoDocumentCutOff
    /\ NewDocumentComesFirst
    /\ TargetIsChild
=============================================================================
