----------------------------- MODULE ZgdbStore -----------------------------
(***************************************************************************)
(* The storage core of the ZGDB server (zgdbServer/zgdb): the index table, *)
(* the block headers the indexes lead to, the list of free indexes, and    *)
(* the requests that change them: ADD (createDocument), DELETE             *)
(* (deleteDocument), and an UPDATE that makes a text outgrow its toast     *)
(* (updateElement).  The server is one sequential process, so pc says what *)
(* it is about to do; a request runs in steps, one for each write of the   *)
(* file's structure and one for each iteration of a loop.                  *)
(*                                                                         *)
(* An index is the number of a slot of the table; index 0 belongs to the   *)
(* root document, and 0 in a link means "none".  Abstracted: offsets (an   *)
(* alive or dead index owns one block, wherever expandIndexes moves it),   *)
(* names, elements and the chunks of a text.  Sizes are small numbers.     *)
(***************************************************************************)
EXTENDS FreeList

CONSTANTS
    INDEX_INITIAL_CAPACITY,  \* indexes a fresh file has (zgdb.h)
    EXPAND_THRESHOLD,        \* INDEX_INITIAL_CAPACITY / 8 in the code
    ExpandCounts,            \* how many indexes an expansion may yield
    DocumentSizes,           \* bytes a new document asks for
    ToastSizes,              \* bytes a new document's texts ask for
    TOAST_HEADER,            \* sizeof(toast)
    GrowSizes,               \* bytes of the chunks a longer text adds
    MaxIndexCount            \* bound: no request expands the table beyond

\* createDocument may take two indexes from the list and expands the table
\* when newIndexesCount <= EXPAND_THRESHOLD: it relies on a threshold of at
\* least 1, on a block never being empty and on an expansion that adds some.
ASSUME ConstantsAssumption ==
    /\ INDEX_INITIAL_CAPACITY \in Nat \ {0}
    /\ EXPAND_THRESHOLD \in Nat \ {0}
    /\ ExpandCounts \subseteq Nat
    /\ \A n \in ExpandCounts : n >= 2
    /\ DocumentSizes \subseteq Nat \ {0}
    /\ ToastSizes \subseteq Nat \ {0}
    /\ TOAST_HEADER \in Nat
    /\ GrowSizes \subseteq Nat \ {0}
    /\ MaxIndexCount \in Nat

VARIABLES
    indexCount,  \* header.indexCount: the indexes are 0 .. indexCount - 1
    flag,        \* the flag of every index in the mmapped table
    block,       \* the header of the block every index leads to
    nodes,       \* header.nodes: how many documents the file says it has
    savedList,   \* the list finish() wrote, until init() has read it back
    freeList,    \* the free list in memory
    pc,          \* what the server does next
    call,        \* arguments and locals of the request being executed
    stack        \* the stack of the document iterator

file   == <<indexCount, flag, block, nodes, savedList>>
locals == <<pc, call, stack>>
vars   == <<indexCount, flag, block, nodes, savedList, freeList, pc, call,
            stack>>

Flags == {"NEW", "ALIVE", "DEAD"}

BlockTypes == {"NONE", "DOCUMENT", "TOAST"}

\* documentHeader and toast, as far as they carry structure; a field that
\* one of the two does not have is 0 in it.
Block ==
    [blockType : BlockTypes, capacity : Nat, indexSon : Nat,
     indexBrother : Nat, firstToastIndex : Nat, nextToastIndex : Nat]

NoBlock ==
    [blockType |-> "NONE", capacity |-> 0, indexSon |-> 0,
     indexBrother |-> 0, firstToastIndex |-> 0, nextToastIndex |-> 0]

\* Mutant: the older sons are not linked behind the new one.
DocumentBlockAlone(capacity, brother, toast) ==
    [NoBlock EXCEPT !.blockType = "DOCUMENT", !.capacity = capacity,
                    !.firstToastIndex = toast]

DocumentBlock(capacity, brother, toast) ==
    [NoBlock EXCEPT !.blockType = "DOCUMENT", !.capacity = capacity,
                    !.indexBrother = brother, !.firstToastIndex = toast]

ToastBlock(capacity) ==
    [NoBlock EXCEPT !.blockType = "TOAST", !.capacity = capacity]

Steps == {"idle", "expand", "toast", "document", "linkSon",
          "walk", "unlink", "del", "subtree", "toasts", "linkToast",
          "closed", "load", "aborted"}

Call ==
    [parent : Nat, target : Nat, header : Block, docSize : Nat,
     toastSize : Nat, toastIndex : Nat, temp : Nat, tail : Nat, prev : Nat]

NoCall ==
    [parent |-> 0, target |-> 0, header |-> NoBlock, docSize |-> 0,
     toastSize |-> 0, toastIndex |-> 0, temp |-> 0, tail |-> 0, prev |-> 0]

Indexes == 0 .. indexCount - 1

-----------------------------------------------------------------------------
(* What a search (findIf0) can find: the documents the links lead to from  *)
(* the root.  A link leads out of every set that has the root and not the  *)
(* document.  The list of brothers is the least set closed under its link. *)

Reachable ==
    {d \in Indexes : \A S \in SUBSET (Indexes \ {d}) :
        0 \in S => \E x \in S :
            ~ ({block[x].indexSon, block[x].indexBrother} \ {0} \subseteq S)}

BrothersFrom(first) ==
    {d \in Indexes : \A S \in SUBSET Indexes :
        (/\ {first} \ {0} \subseteq S
         /\ \A x \in S : {block[x].indexBrother} \ {0} \subseteq S)
        => d \in S}

Children(p) == BrothersFrom(block[p].indexSon)

-----------------------------------------------------------------------------
(* init() on a path where no file exists: a table of new indexes, the root *)
(* document behind it attached to index 0, and the other indexes free.     *)

Init ==
    /\ indexCount = INDEX_INITIAL_CAPACITY
    /\ flag = [i \in 0 .. INDEX_INITIAL_CAPACITY - 1 |->
                  IF i = 0 THEN "ALIVE" ELSE "NEW"]
    /\ block = [i \in 0 .. INDEX_INITIAL_CAPACITY - 1 |->
                  IF i = 0 THEN DocumentBlock(1, 0, 0) ELSE NoBlock]
    /\ nodes = 1
    /\ savedList = <<>>
    /\ freeList = InsertNewIndexes(EmptyList, 1, INDEX_INITIAL_CAPACITY - 1)
    /\ pc = "idle"
    /\ call = NoCall
    /\ stack = <<>>

-----------------------------------------------------------------------------
(* Taking an index: findRelevantIndex, the header written at the dead      *)
(* block's offset or at the end of the file, attachIndexToBlock.           *)

Taken(reqSize) == RelevantIndex(freeList, reqSize)

\* Mutant: a reused block is given the size that was asked for.
CapacityAsAsked(reqSize, newCapacity) == newCapacity

\* A reused block keeps its capacity, a new one gets the one asked for.
CapacityFor(reqSize, newCapacity) ==
    IF Taken(reqSize).blockSize = 0 THEN newCapacity
    ELSE Taken(reqSize).blockSize

\* Mutant: nextToastIndex is not reset in a reused block.
AttachWithOldNext(reqSize, header) ==
    LET taken == Taken(reqSize) IN
    /\ freeList' = WithoutRelevantIndex(freeList, reqSize)
    /\ flag' = [flag EXCEPT ![taken.indexOrder] = "ALIVE"]
    /\ block' = [block EXCEPT ![taken.indexOrder] =
                    [header EXCEPT !.nextToastIndex =
                        block[taken.indexOrder].nextToastIndex]]

Attach(reqSize, header) ==
    LET taken == Taken(reqSize) IN
    /\ freeList' = WithoutRelevantIndex(freeList, reqSize)
    /\ flag' = [flag EXCEPT ![taken.indexOrder] = "ALIVE"]
    /\ block' = [block EXCEPT ![taken.indexOrder] = header]

\* Mutant: the index is killed but not listed.
KillOnly(i, size) ==
    /\ flag' = [flag EXCEPT ![i] = IF @ = "ALIVE" THEN "DEAD" ELSE @]
    /\ UNCHANGED freeList

\* killIndex and insertDeadIndex; the result of killIndex is ignored.
Free(i, size) ==
    /\ flag' = [flag EXCEPT ![i] = IF @ = "ALIVE" THEN "DEAD" ELSE @]
    /\ freeList' = InsertDeadIndex(freeList, i, size)

Goto(step, newCall) ==
    /\ pc' = step
    /\ call' = IF step = "idle" THEN NoCall ELSE newCall

-----------------------------------------------------------------------------
(* ADD: createDocument with a parent that the search has found.            *)

AllocationStep(toastSize) == IF toastSize # 0 THEN "toast" ELSE "document"

\* Mutant: the table is expanded only when no new index is left.
NeedsExpansionWhenEmpty == freeList.newIndexesCount = 0

NeedsExpansion == freeList.newIndexesCount <= EXPAND_THRESHOLD

StartCreate(p, docSize, toastSize) ==
    /\ pc = "idle"
    /\ NeedsExpansion =>
          \A n \in ExpandCounts : indexCount + n <= MaxIndexCount
    /\ Goto(IF NeedsExpansion THEN "expand" ELSE AllocationStep(toastSize),
            [NoCall EXCEPT !.parent = p, !.header = block[p],
                           !.docSize = docSize, !.toastSize = toastSize])
    /\ UNCHANGED <<file, freeList, stack>>

\* Mutant: createIndexes does not count the indexes it adds.
CountUnchanged(n) == indexCount

ExpandedCount(n) == indexCount + n

\* The blocks behind the table are moved to the end of the file, and the
\* room they leave becomes n new indexes.
ExpandIndexes(n) ==
    /\ pc = "expand"
    /\ indexCount' = ExpandedCount(n)
    /\ flag' = [i \in 0 .. indexCount + n - 1 |->
                   IF i < indexCount THEN flag[i] ELSE "NEW"]
    /\ block' = [i \in 0 .. indexCount + n - 1 |->
                   IF i < indexCount THEN block[i] ELSE NoBlock]
    /\ freeList' = InsertNewIndexes(freeList, indexCount, n)
    /\ Goto(AllocationStep(call.toastSize), call)
    /\ UNCHANGED <<nodes, savedList, stack>>

CreateToast ==
    /\ pc = "toast"
    /\ HasRelevantIndex(freeList, call.toastSize)
    /\ Attach(call.toastSize,
              ToastBlock(CapacityFor(call.toastSize,
                                     call.toastSize + TOAST_HEADER)))
    /\ Goto("document", [call EXCEPT
                            !.toastIndex = Taken(call.toastSize).indexOrder])
    /\ UNCHANGED <<indexCount, nodes, savedList, stack>>

CreateDocument ==
    /\ pc = "document"
    /\ HasRelevantIndex(freeList, call.docSize)
    /\ Attach(call.docSize,
              DocumentBlock(CapacityFor(call.docSize, call.docSize),
                            call.header.indexSon, call.toastIndex))
    /\ nodes' = nodes + 1
    /\ Goto("linkSon", [call EXCEPT
                           !.target = Taken(call.docSize).indexOrder])
    /\ UNCHANGED <<indexCount, savedList, stack>>

\* The parent's header, as it was read at the start, with its new first son.
LinkSon ==
    /\ pc = "linkSon"
    /\ block' = [block EXCEPT ![call.parent] =
                    [call.header EXCEPT !.indexSon = call.target]]
    /\ Goto("idle", call)
    /\ UNCHANGED <<indexCount, flag, nodes, savedList, freeList, stack>>

-----------------------------------------------------------------------------
(* DELETE: deleteDocument with a document d the search has found as a      *)
(* child of p, or as the root (p = d = 0).  header is the copy of d's      *)
(* header the search made; tail and prev are the last two entries of the   *)
(* result list pList, temp is tempIndex.                                   *)

StartDelete(p, d) ==
    /\ pc = "idle"
    /\ Goto(IF block[p].indexSon = 0 THEN "unlink" ELSE "walk",
            [NoCall EXCEPT !.parent = p, !.target = d, !.header = block[d],
                           !.temp = block[p].indexSon, !.tail = p])
    /\ UNCHANGED <<file, freeList, stack>>

\* Mutant: the brother is always read from the first son.
WalkFromFirstSon ==
    LET brother == block[block[call.parent].indexSon].indexBrother IN
    /\ pc = "walk"
    /\ Goto(IF call.temp = call.target \/ brother = 0
            THEN "unlink" ELSE "walk",
            [call EXCEPT !.prev = call.tail, !.tail = call.temp,
                         !.temp = brother])
    /\ UNCHANGED <<file, freeList, stack>>

WalkSiblings ==
    LET brother == block[call.temp].indexBrother IN
    /\ pc = "walk"
    /\ Goto(IF call.temp = call.target \/ brother = 0
            THEN "unlink" ELSE "walk",
            [call EXCEPT !.prev = call.tail, !.tail = call.temp,
                         !.temp = brother])
    /\ UNCHANGED <<file, freeList, stack>>

\* Mutant: every deleted document is taken for the first son.
AlwaysFirstSon == TRUE

IsFirstSon == block[call.parent].indexSon = call.tail

Unlink ==
    LET brother == block[call.tail].indexBrother IN
    /\ pc = "unlink"
    /\ block' = IF IsFirstSon
                THEN [block EXCEPT ![call.parent].indexSon = brother]
                ELSE [block EXCEPT ![call.prev].indexBrother = brother]
    /\ Goto("del", call)
    /\ UNCHANGED <<indexCount, flag, nodes, savedList, freeList, stack>>

\* Where deleteDocument goes after del(doc) and after the subtree.
AfterSubtree(c) ==
    LET toast == c.header.firstToastIndex IN
    Goto(IF toast # 0 THEN "toasts" ELSE "idle", [c EXCEPT !.temp = toast])

\* Mutant: only the document itself is deleted.
AfterTargetSkipped == AfterSubtree(call)

AfterTarget ==
    IF call.header.indexSon # 0
    THEN Goto("subtree", [call EXCEPT !.temp = call.header.indexSon])
    ELSE AfterSubtree(call)

\* del(doc): the root is left alone.
DeleteTarget ==
    /\ pc = "del"
    /\ IF call.target # 0
       THEN Free(call.target, call.header.capacity) /\ nodes' = nodes - 1
       ELSE UNCHANGED <<flag, freeList, nodes>>
    /\ AfterTarget
    /\ UNCHANGED <<indexCount, block, savedList, stack>>

\* Mutant: the son is visited next although it is pushed as well.
NextDocSonFirst(h) ==
    IF h.indexSon # 0 THEN h.indexSon
    ELSE IF h.indexBrother # 0 THEN h.indexBrother
    ELSE IF stack # <<>> THEN Last(stack)
    ELSE 0

\* nextDoc: brothers first, a son is pushed when there is a brother as well;
\* 0 when the iterator stops.
NextDoc(h) ==
    IF h.indexBrother # 0 THEN h.indexBrother
    ELSE IF h.indexSon # 0 THEN h.indexSon
    ELSE IF stack # <<>> THEN Last(stack)
    ELSE 0

\* Mutant: the son is not pushed.
NextStackUnpushed(h) ==
    IF h.indexBrother = 0 /\ h.indexSon = 0 /\ stack # <<>>
    THEN Front(stack) ELSE stack

NextStack(h) ==
    IF h.indexBrother # 0 /\ h.indexSon # 0 THEN Append(stack, h.indexSon)
    ELSE IF h.indexBrother = 0 /\ h.indexSon = 0 /\ stack # <<>>
    THEN Front(stack)
    ELSE stack

\* forEachDocument(file, del, child): one document of the subtree.
DeleteDescendant ==
    LET h == block[call.temp] IN
    /\ pc = "subtree"
    /\ Free(call.temp, h.capacity)
    /\ nodes' = nodes - 1
    /\ stack' = NextStack(h)
    /\ IF NextDoc(h) # 0
       THEN Goto("subtree", [call EXCEPT !.temp = NextDoc(h)])
       ELSE AfterSubtree(call)
    /\ UNCHANGED <<indexCount, block, savedList>>

\* One toast of the deleted document's own chain.
DeleteToast ==
    LET next == block[call.temp].nextToastIndex IN
    /\ pc = "toasts"
    /\ Free(call.temp, block[call.temp].capacity)
    /\ Goto(IF next # 0 THEN "toasts" ELSE "idle", [call EXCEPT !.temp = next])
    /\ UNCHANGED <<indexCount, block, nodes, savedList, stack>>

-----------------------------------------------------------------------------
(* UPDATE of a text that still lies in the first toast of document d and   *)
(* whose new chunks do not fit there: updateElement asks createNewToast    *)
(* for a toast of the first one's capacity plus the new chunks, and makes  *)
(* it the first toast's successor.  createNewToast never expands the table *)
(* and does not check the result of findRelevantIndex.                     *)

GrowSize(d, extra) == block[block[d].firstToastIndex].capacity + extra

GrowText(d, extra) ==
    LET size == GrowSize(d, extra) IN
    /\ pc = "idle"
    /\ HasRelevantIndex(freeList, size)
    /\ Attach(size, ToastBlock(CapacityFor(size, size)))
    /\ Goto("linkToast", [NoCall EXCEPT
                             !.target = block[d].firstToastIndex,
                             !.toastIndex = Taken(size).indexOrder])
    /\ UNCHANGED <<indexCount, nodes, savedList, stack>>

\* findRelevantIndex returns NULL, which createNewToast dereferences.
GrowTextAborts(d, extra) ==
    /\ pc = "idle"
    /\ ~ HasRelevantIndex(freeList, GrowSize(d, extra))
    /\ Goto("aborted", [NoCall EXCEPT !.target = d])
    /\ UNCHANGED <<file, freeList, stack>>

LinkToast ==
    /\ pc = "linkToast"
    /\ block' = [block EXCEPT ![call.target].nextToastIndex = call.toastIndex]
    /\ Goto("idle", call)
    /\ UNCHANGED <<indexCount, flag, nodes, savedList, freeList, stack>>

-----------------------------------------------------------------------------
(* A session ends with finish() and the next one starts with init(), which *)
(* rebuilds the list node by node (readFreeList).  temp is the position.   *)
(* Nothing reads the saved list again once it has been read.               *)

Finish ==
    /\ pc = "idle"
    /\ savedList' = freeList.nodes
    /\ freeList' = EmptyList
    /\ Goto("closed", NoCall)
    /\ UNCHANGED <<indexCount, flag, block, nodes, stack>>

Load(position) ==
    IF position <= Len(savedList)
    THEN /\ Goto("load", [NoCall EXCEPT !.temp = position])
         /\ UNCHANGED savedList
    ELSE /\ Goto("idle", NoCall)
         /\ savedList' = <<>>

Open ==
    /\ pc = "closed"
    /\ Load(1)
    /\ UNCHANGED <<indexCount, flag, block, nodes, freeList, stack>>

LoadNode ==
    LET node == savedList[call.temp] IN
    /\ pc = "load"
    /\ freeList' =
          IF node.blockSize = 0
          THEN InsertNewIndex(freeList, node.indexOrder)
          ELSE InsertDeadIndex(freeList, node.indexOrder, node.blockSize)
    /\ Load(call.temp + 1)
    /\ UNCHANGED <<indexCount, flag, block, nodes, stack>>

-----------------------------------------------------------------------------
\* A client's request reaches the store.
Command ==
    \/ \E p \in Reachable, docSize \in DocumentSizes,
          toastSize \in ToastSizes \cup {0} :
              StartCreate(p, docSize, toastSize)
    \/ \E p \in Reachable : \E d \in Children(p) : StartDelete(p, d)
    \/ \E d \in Reachable, extra \in GrowSizes :
          /\ block[d].firstToastIndex # 0
          /\ GrowText(d, extra) \/ GrowTextAborts(d, extra)

Request == Command \/ Finish \/ Open

\* What the server does once it has a request, without waiting for anyone.
Execute ==
    \/ \E n \in ExpandCounts : ExpandIndexes(n)
    \/ CreateToast \/ CreateDocument \/ LinkSon
    \/ WalkSiblings \/ Unlink
    \/ DeleteTarget \/ DeleteDescendant \/ DeleteToast
    \/ LinkToast
    \/ LoadNode

Next == Request \/ Execute

Spec == Init /\ [][Next]_vars
=============================================================================
