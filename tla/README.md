# Verification of ZGDB Network

TLA+ models of the document database in this repository (a file-backed store
behind a TCP server, `src/zgdbServer`, and the ZPath client, `src/zpathClient`),
TLC runs that check them on small instances, and proofs that TLAPS checks.

## The system

A client turns a ZPath query into XML and sends it over TCP. The server
(`zgdbServer/main.c`) accepts one connection at a time, reads one XML document,
executes it on the database file (`xml/zgdbXmlRequest.c`), sends the answer,
and saves and closes the file when the client has closed. It is one process with
one thread: what is hard inside it is not interleaving but *long histories*: every
request reads and rewrites links in a file, reuses blocks that earlier requests
gave up, and may be the last one before the process dies. Between it and its
clients lies a network that may cut a message and a client that may die at any
step.

| Component | State | Operations | Code |
|---|---|---|---|
| Index table, layout of the file | flag and offset of every index, in a shared mapping of the file | `createIndexes`, `attachIndexToBlock`, `killIndex`, `updateOffset`, `expandIndexes`, which moves blocks to make room | `zgdb/index/zgdbindex.c`, `zgdb/zgdb.c` |
| Free index list | sorted doubly linked list and two counters, in memory; written by `finish()` | `insertNewIndex`, `insertDeadIndex`, `findRelevantIndex`, `writeFreelist`, `readFreeList` | `zgdb/index/list/freelist.c`, `zgdb/format/zgdbfile.c` |
| Document blocks | header (capacity, first son, brother, first toast) and elements | `createDocument`, `deleteDocument`, `updateElement` | `zgdb/zgdb.c`, `zgdb/data/zgdbdata.c` |
| Toasts | chain of blocks with the long texts of a document | `createNewToast`, `writeElement`, `readElement`, `updateElement` | the same |
| Document iterator | the next entry and a stack of sons still to visit | `nextDoc`, `push`, `pop` | `zgdb/data/iterator`, `zgdb/data/treestack` |
| Search | context list, depth, result lists | `findIf0`, `calculatePredicate`, `join`, `parent` | `zgdb/zgdb.c`, `zgdb/data/filter`, `zgdb/data/result` |
| XML requests | the decoded path, predicate chain and schema | `createPathFromXml`, `createPredicateFromXml`, `executeXxxFromXml`, the answer | `xml/zgdbXmlRequest.c` |
| Server loop, wire | the connection, the size of the message, `buf` | `init`, `accept`, `recv`, `send`, `finish` | `main.c`, `zpathClient/main.c` |
| ZPath client | AST; the parser's `aStep`, `isFirstPred`, `symbolValue` | semantic actions of the grammar, `zpathToXml`, `printAnswer` | `zpathClient` |

How they interact: a request searches (read only), then runs `createDocument`,
`deleteDocument` or `updateElement` on the *copy of a header* that the search
returned. These take indexes from the free list, write blocks, and give indexes
back. The free list refers to indexes and to the capacities of their dead blocks;
links in headers and toasts refer to indexes; nothing ever checks that a link
leads to a live block of the right type. `finish()` and `init()` move the free
list to the file and back.

What is hard, and what makes each part correct:

- *Space.* No block in use may be handed out again; every index that is not in use
  must be on offer; list, header and next owner must agree on the capacity of a block,
  and a document must not be given too small a one; the list must stay sorted and
  counted, because `findRelevantIndex` looks at its two ends only.
- *Tree.* Links must form one tree of live documents, and stay so in every
  intermediate state of an ADD or a DELETE: the deletion kills a document and goes
  on along its links, which the iterator has read before.
- *Texts.* A toast belongs to one document; a text reads back as it was written,
  though its chunks lie between those of others and are re-linked by every growth.
- *Allocation.* `createDocument` and `createNewToast` dereference the result of
  `findRelevantIndex` without checking it.
- *Sessions and crashes.* The free list survives only through `finish()`; the flags
  are in a shared mapping, the blocks go through stdio's buffer.
- *Layout.* Blocks must not overlap, and `expandIndexes`, which steps from header
  to header, must find one wherever it looks, its own copies included.
- *Requests.* What the user typed must be what the core is asked to do, through two
  programs that agree on XML by names only; the answer must say what was done.
- *Wire.* `recv` may return a part of a message, nothing or an error; a client may
  be silent or dead; what one client has done must be saved before the next.
- *Termination.* Loops along brothers, subtrees, toast chains, and blocks.

`PROJECT.json` lists every component, and under "hazards" each of these at its
line of code.

## Modules

| Module | What it models |
|---|---|
| `FreeList` | the free list as a sequence of nodes with the two counters of the code; `insertNode`, `findRelevantIndex` as operators, and what the code relies on (`WellFormedList`) |
| `ZgdbStore` | the state machine of the storage core: table, blocks, free list, saved list, and the running request |
| `ZgdbStoreInv` | its type invariant, safety invariants, action and liveness properties, and the inductive invariants `IInv` and `WholeInv` |
| `DocTree` | the abstract specification: an ordered tree, as the sons and the elder brothers of each document, that grows by a leaf or loses a subtree, atomically |
| `ZgdbTree` | the refinement mapping from `ZgdbStore` to `DocTree` |
| `ZgdbCrash` | `ZgdbStore` with a disk, death without `finish()` at any step and a restart from the file |
| `MCZgdbStore` | what TLC needs for the core |
| `BlockLayout`, `MCBlockLayout` | `ZgdbStore` with offsets: where blocks lie, and how an expansion moves them |
| `ZgdbFilter`, `DocIterator`, `FindIf`, `FindIfInv`, `MCFindIf` | the search, JOIN and PARENT |
| `ToastText` | the texts of a document in their toasts, their properties and the inductive invariant `TextInv` |
| `Service` | the abstract server: one client at a time, each executed at most once unless its message was cut, and answered from its own request, work saved before the next |
| `Wire`, `WireInv` | clients and server over TCP, their properties and the mapping to `Service` |
| `Zpath` | the client's parser, AST and XML |
| `XmlRequest`, `XmlRequestInv`, `MCXmlRequest` | decoding, dispatch and answer of the server, composed with `Zpath`; their properties and the inductive invariant `IInv` |
| `ZgdbSpaceProofs`, `ZgdbStoreProofs`, `ZgdbLayersProofs`, `ZgdbCrashProofs`, `ToastTextProofs`, `FindIfProofs`, `WireProofs`, `XmlRequestProofs` | the proofs |

### ZgdbStore

`indexCount`, `flag` are the header's count and the mmapped table, `block` is the
header behind each index, `freeList` the list in memory, `savedList` the list
between `finish()` and the end of `readFreeList`. `pc`, `call` and `stack` are the
request being executed: where it is, its arguments and locals (`header` is the
copy the search made, `temp` is `tempIndex` or the iterator's next entry), and the
iterator's stack.

A request is split into one action for each write of structure and one for each
iteration of a loop, in the order of the code:

- ADD: `StartCreate` (reads the parent's header, decides on the expansion),
  `ExpandIndexes`, `CreateToast`, `CreateDocument`, `LinkSon`.
- DELETE: `StartDelete`, `WalkSiblings` per brother, `Unlink`, `DeleteTarget`,
  `DeleteDescendant` per document of the subtree (with `nextDoc`'s order and
  stack), `DeleteToast` per toast.
- UPDATE of a text that outgrows its first toast: `GrowText` or `GrowTextAborts`
  (the NULL dereference), `LinkToast`.
- Sessions: `Finish`, `Open`, `LoadNode` per node.

Requests start only with documents that a search can return (`Reachable`,
`Children`): the least sets closed under the links.

Abstracted: offsets (an index that owns a block is the block, wherever
`expandIndexes` moves it), names, element values, the bytes of texts. An UPDATE
in place, or one that finds room in the toast, changes no structure and is left
out. How many indexes an expansion yields depends on where blocks lie: any number
of `ExpandCounts`. `expandIndexes` yields at least two because the moved room is
never smaller than a document header.

### ZgdbCrash

`disk` holds what has left stdio's buffer. Every `fseeko` flushes, so only the last
write of a step (`LinkSon`, `Unlink`) is still buffered after it. Flags survive at
once. `image` is the list at `header.fileSize`; it is destroyed when a block is
appended there. A restart whose list is destroyed reads whatever lies there: it is
undefined and not modelled, so the passing run says nothing of it.
`Bounded` limits sessions and the length of a damaged list.

### Search: `ZgdbFilter`, `DocIterator`, `FindIf`

A search changes nothing, so the tree it runs on is a constant record of functions,
chosen in `Init` together with the request, its path and the predicates
of a JOIN. `pc` says where `findIf0` is: `context` is the head of its loop over
contexts, `visit` of the loop over documents, `rootSons` and `join` are the loop of
`join`, `serve` is the moment `executeXxxFromXml` has the result.

| Action | Code |
|---|---|
| `FindRoot`, `FindRootSons`, `StartSearch` | `findIf0`, zgdb.c:541-569 |
| `EnterContext`, `VisitDocument`, `LeaveContext` | one context of a step, zgdb.c:575-625 and 631-680 |
| `NextStep` | the exchange of the context lists and the reset of `depth`, zgdb.c:626-627, 681-683 |
| `AnswerResult`, `ServeHead`, `Abort` | what the six requests do with the result, zgdbXmlRequest.c:163-330 |
| `StartJoin`, `JoinNext`, `JoinEnds` | `join`, zgdb.c:689-715 |

`ServeHead` stands for the request of the storage core that follows (`StartCreate`,
`StartDelete`, `GrowText` of `ZgdbStore`); `deleteDocument`'s traversal is modelled
there, over links that change underneath, and uses the same `nextDoc`.
`DocIterator` has it with the parent and the depth of every entry, `ZgdbFilter` the
predicates. Values are numbers and short sequences; a document's elements are a
function of their keys, which `addIntToSchema` and its kin keep distinct. `garbage` is the value of the uninitialised
`generalRes`, which a chain that does not begin with `NONE` would read.

`IsTree` says what a tree is: the links lead to documents that name their parent, no
way along them is endless, and every document is on one from the root. The core keeps
it that way: `LinksAreUnique` and `TreeIsWhole` are proved of `ZgdbStore`. `IsChain` says
what a chain of predicates is: the first one has no connective, so that it initialises
`generalRes`. The chain of a JOIN always arrives like that; the pointer a decoded step
keeps to its predicates dangles (`XmlRequest`, below), so what `FindIf` says of a step
with predicates is what `findIf0` makes of them where they are still intact.

`FindIfInv` defines what a path selects, states the properties and their inductive
invariants (`IInv`, `SearchInv`); `MCFindIf` builds the trees and the paths. The meaning
has no stack, iterator or depth: `Visits` lists a document, the visits of what is behind
it and of what is below it; the candidates of a step are these, or for an absolute step
the brothers and the one document behind them; a step keeps the marked candidates of
each of its contexts. These are recursive functions, of the documents or of places in a
list, so that they can be proved about.

### Texts: `ToastText`

One document with its texts. `toasts` are the headers of its toasts, numbered as
they are created, with capacity and use counted in chunks; `chunks` are what has
been written at a *place*, a toast and a slot in it; `firstChunk` is the element in
the document's block. Index 0 is the root's block: `chunks` shows when a request
gets there (`Intact`), and the model stops. Two variables are not in the code:
`texts` is what the client has written last, `updates` bounds the run.

| Action | Code |
|---|---|
| `CreateToast`, `WriteElement` | `createDocument` and `writeElement`, zgdb.c:147-187, zgdbdata.c:52-117 |
| `UpdateEqual`, `UpdateShorter` | zgdb.c:844-888, 889-940 |
| `UpdateInChunks` | longer, but in the same number of chunks, zgdb.c:984-1012 |
| `UpdateInRoom` | more chunks, with room in the first toast, zgdb.c:1019-1074 |
| `UpdateInNewToast` | more chunks than that, zgdb.c:1075-1178 |
| `ReadText` (operator) | `nextEl`, eliterator.c:100-147, and the same loop in `readElement` |

A byte is a pair of the update that wrote it and its position, so that a chunk
that lands in the wrong place, or is left over from an earlier text, shows.
`UpdateInNewToast` is `GrowText` and `LinkToast` of `ZgdbStore` in one step, with
what they do to the chunks; a second growth of a text is here only.

### Layout: `BlockLayout`

Every step of `ZgdbStore` that makes an index alive also gives its block a place
(`Place`): a new index gets the end of the file, a dead one keeps its place. `size`
is what `expandIndexes` takes for the length of a block: `header.size` of a
document, the capacity of a toast. The expansion, one step in `ZgdbStore`, is a
loop here.

| Definition | Code |
|---|---|
| `LayoutInit` | `init`, `createRootDocument`, zgdb.c:13-29, 758-769 |
| `Place` (with `Step`) | `offset`, `cap` and `fileSize` in `createDocument` and `createNewToast`, zgdb.c:147-199, 771-795 |
| `MoveBlock`, `MoveNothing` | one iteration, zgdb.c:74-104, and `updateOffset` |
| `EndExpand` | zgdb.c:106-122 and `createIndexes` |

The code has two ways to break the layout, and both are in the model. A document in
a reused block has `size < capacity`; a move copies `size` bytes only, and from then
on the capacity on the free list is larger than the block. The history variable
`tight` says that this has not happened. A toast writes its header and then
`capacity` zeros, which in a reused block clears the header behind it; `cleared`
are the blocks hit. `LinkSon` and `Unlink` write a whole header from a copy in memory
(`Rewritten`): an ADD that has cleared its own parent's header restores it, and is
let go on until it has. Once a request would meet a cleared header, or the walk comes
to the middle of a block, no claim is made: the model stops (`HeadersIntact`), or has
no step. The modules of the core, whose theorems speak of links and owners, abstract
from both: what they say holds as long as headers are intact.

### Clients and server: `Wire`

`clientPc`, `serverPc` are the places in the two `main` functions. A direction of a
connection is the sequence of pieces not read yet: a size (`size` is not 0), and the
parts of the body behind it. A recv of n bytes may return any prefix (`Received`); one
of the four bytes of a size may return a part of them, and leaves what is left of it in
front of the body (`RestOfSize`). An answer is the number of the request it answers.
`executed` and `saved` are what the requests have done and what `finish()` has
written, `printed` is the answer a client has got; `cut` are the clients of whom a recv
of the server has returned less than it asked for. Of these `printed`, `saved` and `cut`
are not in the code.

| Action | Code |
|---|---|
| `Connect`, `ConnectFails`, `SyntaxError`, `SendRequestSize`, `SendRequestBody` | zpathClient/main.c:61-84 |
| `RecvAnswerSize`, `RecvAnswerBody`, the same with `Ends`, `RecvAnswerSizePart` | zpathClient/main.c:86-99 |
| `Accept` | `accept`, `init`, zgdbServer/main.c:43-52 |
| `RecvSize`, `RecvSizePart`, `RecvGarbage`, `RecvSizeEnds` | zgdbServer/main.c:54-56: the size, one to three of its bytes, the rest of a body taken for one, the end |
| `RecvBody`, `RecvBodyEnds`, `RecvBodyReset` | zgdbServer/main.c:58-61 |
| `Execute`, `ExecuteNothing`, `ExecuteAborts` | zgdbServer/main.c:63-65: the request, a part without its root, a NULL dereference |
| `SendAnswerSize`, `SendAnswerBody`, `SendAnswerKills` | zgdbServer/main.c:67-75 |
| `Finish` | zgdbServer/main.c:77-79 |

`msgSize` lives through the loop, so that a part of a size leaves its other bytes as
they were: what it is then is open (`OtherSizes`, 0 included). `RecvGarbage` has both
outcomes: four characters of XML are a size that overflows the stack and end the
server, fewer change the low bytes only and it goes on. A cut message may make the
server read the rest of a request as another one; the model lets such a rest be
executed once at most (`Execute`), be nothing (`ExecuteNothing`), or end the server.

`bytes_read` is unsigned in both programs, so that -1 does not end their loops: that
is the second alternative of the actions that end, and on the server `RecvBodyReset`,
which may execute what `buf` still holds a second time before `send` raises SIGPIPE.
`Die` may strike a client at any step. What is sent before a death arrives; a reset
empties the server's direction (`RecvSizeEnds`).

`Service` promises one client at a time, each answered from its own request, work
saved before the next, and each executed at most once *unless the network has cut its
message or reset the connection* (`cut`): that exception is the code's.

### Requests: `Zpath`, `XmlRequest`

A text is a record of what the user types, cut at the grammar's symbols: names and
strings are values, a number is counted in hundredths so that it can be whole or
not. `Zpath` reduces it rule by rule with the parser's global variables, `RequestXml`
is `zpathToXml`. XML is a tree of nodes with attributes; `XmlRequest` decodes it with
the code's `findNodeByName`, asks a search whose outcome is open (`Search`; `FindIf`
says what it is), carries the operation out or not, and answers. `served` is the
operation as it reaches `createDocument`, `deleteDocument` and their kin.

| Action | Code |
|---|---|
| `ParseCommand`, `ParseElement`, `RejectNumber` | parser.y:54-81, 149-276, lexer.l:47-57 |
| `ParseJoinPredicate`, `ParseEntry`, `ParsePredicate`, `AddStep` | parser.y:83-132, 278-351 |
| `Send` | zpathXml.c:118-199 |
| `DecodeRequest` | zgdbXmlRequest.c:43-161 and the beginnings of `executeXxxFromXml` |
| `Search`, `DestroyPath` | `findIfFromRoot`, `destroyPath` |
| `ServeAdd` ... `ServeParent`, `NotFound`, `ServeAborts` | zgdbXmlRequest.c:163-330 |
| `Answer` | zgdbXmlRequest.c:332-459, zpathXml.c:201-256 |

A predicate of a step is `Dangling` once decoded: the step keeps a pointer into a
block that has been left. What a search makes of it is open, the server going down
included; `destroyPath` frees it and does go down. The lengths of names are not
modelled, nor names with characters that XML treats specially.

`findNodeByName` calls itself on the children of a node and goes on behind the first of
them. A request is five levels deep (request, path, step, predicate, predicate element),
so that the recursion is unfolded into one operator for each level, from
`FindNodeByName` down to `FindInLeaves`, and can be reasoned about. `IsRequest` says which
texts the grammar derives; `ZpathAssumption` restricts `Texts` to them.

## Runs

| Run | Question | Bounds and why they suffice |
|---|---|---|
| `store` | do the links form one tree in every step, is no index lost or handed out twice, does a block in use keep its owner and every block the capacity recorded for it, does a document get the room it asked for, is a toast in one chain only, does any request dereference NULL, does the core implement `DocTree`, and does every request end (weak fairness)? | 4 indexes growing to 6 by one expansion, documents of 3 and toasts of 2 bytes. Up to five live documents, the root included, so that the subtree of a DELETE can have a document with a son and a brother: the stack gets an entry, but never two. A text grown into a second toast, deleted, and all three blocks reused, that of a document by a toast as well; UPDATE can exhaust the list. Sessions end with at most one new index (`MaxNewSaved`): the list that is saved and read has any dead blocks of both sizes |
| `crash` | what survives a death at any step? | 4 indexes, two document sizes, six sessions, so that a list saved by one session is restored after others died; without a later append |
| `crash_stale` (violation) | is what a restored list offers unused? | 5 indexes, three sessions |
| `find_absolute` (violation) | does an absolute step go one level down only? | as `find` |
| `layout` | do the blocks tile the file, and does the expansion end? | 3 indexes, growing by 2 twice; documents of 2 and 3 bytes and toasts of 3: reuse with and without spare bytes, and an expansion that reaches its own copies |
| `layout_toast` (violation) | does every index in use have a block? | as `layout` |
| `find` | does a search end with what its path selects, with the right parents, and does JOIN return the children? | all 51 trees of up to three documents below the root with two names and the 28 of four documents of one name, those of five that have two documents with a brother and a son, the six requests, all 306 paths of one or two steps and the two empty ones: five documents give the stack two entries, two steps give contexts that overlap and a reset of `depth` |
| `text` | does a text read back, whatever was written to its neighbours? | 2 texts, chunks of 2 bytes, sizes 1 to 7, four updates: both texts can spill into toasts of their own, shrink and grow again; a reused block may have one chunk less than a new one |
| `text_full_chunk` (violation) | is a text of full chunks stored whole? | as `text`, with a size of 2 in the ADD |
| `wire` | is each client served alone, once unless its message was cut, does it get its own answer, and does it end? | 2 clients on a queue of one place, so that one waits while the other is served, or finds the queue full; messages of two parts, so that a part can be taken for a whole; a cut size leaves one part of rest and 0, 1 or 3 in `msgSize`: nothing, less than the body, more than it |
| `request` | is what the user typed what the core is asked, and what the client prints what was done? | ADD with up to two elements of every type, over three keys, one of them reserved, and numbers that are whole, printed exactly or rounded; JOIN with chains of two predicates over all tests and operators; paths of two steps, with chains of two predicates on each |
| `request_predicates` (violation) | does the search get the predicates of a path? | as `request` |

`MaxIndexCount` bounds the table: no request that would expand it further starts.
`store` does not check for deadlock because the server really stops at
`GrowTextAborts`; `find`, `request` and `wire` because requests and clients end and
a server may be killed; `layout` because of its bound and because it stops at a
cleared header; `crash` because of the bound on sessions.

Fairness. The process is single-threaded and waits for nobody inside a request, so it
takes its next step as long as it runs: `SessionSpec`, `LayoutSpec` and `FindIf` ask
for weak fairness of the steps of a request that has begun. `Wire` asks the same of
the two programs and of the network, which delivers what was sent; nothing is asked
of users. `ClientsEnd` and `WorkIsSaved` therefore say what happens unless the
server waits for ever for a user who has connected and does not type.

Every passing property has a mutant: a definition of the model changed the way a
bug in that code would change it, under which TLC finds the property violated.

## What does not hold

Shown by runs:

- `crash_stale`: ADD reuses a dead block, the server dies, and the list that
  `init()` restores still offers that block.
- `layout_toast`: a toast counts its header in its capacity and writes both, so that
  in a reused block its zeros clear the header of the block behind it.
- `text_full_chunk`: writing and reading copy `rem` bytes of the last chunk, none when
  the size is a multiple of 32. An update to another length pads such a size by one
  and is safe; an ADD and an update to the same length are not. When such a text
  grows, the walk to its last chunk goes one chunk too far and comes out at offset 0
  of the toast, the first chunk of another text.
- `find_absolute`: an absolute step compares the depth after it has examined the next
  document, so that the one document behind the last brother of a context can match
  (zgdb.c:580), one level further down; zgdbfilter.h:11 says "only one depth
  step". `FindsWhatStepsReach`, which passes, says what the steps do reach, that
  document included (`Candidates`).
- `request_predicates`: a predicate on the first step of a path is decoded into a
  variable that is gone when the search and `destroyPath` use it, and every step gets
  it; one on a later step only is dropped.

In the models, where passing properties name them as exceptions or behaviours end:

- ADD, JOIN and PARENT take the head of the result without looking at its type; DELETE
  and UPDATE look for `UNDEFINED_RESULT` only. A path that finds nothing, or an
  element, ends the server (zgdbXmlRequest.c:219, 309, 329). `Abort` in `FindIf`,
  `FailuresHaveCauses` in `XmlRequestInv`.
- A JOIN that compares two elements ends the server: the client writes `element1`
  (zpathXml.c:74), the server reads `key1` (zgdbXmlRequest.c:93). The same.
- Every boolean of an ADD arrives as false: the client sends 1 or 0 (zpathXml.c:166),
  `str2boolean` knows `true` only (zgdb.c:336). A double keeps six digits and cannot
  be typed if it is whole (lexer.l:49). `ArrivedValue`.
- An UPDATE that has found its document ends the server when its text needs a toast
  and no index is left (zgdb.c:773). `FailuresHaveCauses`; `AbortsOnlyWhenExhausted`
  says of the store that it happens then only.
- A DELETE of the path `""` is announced with DOCUMENT DELETED, and the root is never
  deleted. `AnswerTellsOutcome` names it (`DeletesRoot`).
- When a document in a reused block is moved, its spare bytes are lost, but not its
  capacity (`tight` in `BlockLayout`).
- Only the first toast is ever linked to a new one, but "move to new toast"
  (zgdb.c:1149) follows the link of the toast the text ends in. The second growth of
  a text therefore writes chunks behind the root's header, and the header itself
  (`Intact` in `ToastText`).
- A part of a body is executed as a whole request, and its rest is taken for the size
  of the next message, which ends the server or sends it on with another size
  (`RecvGarbage`); so may a cut inside a size (`RecvSizePart`). `FramingIsKept` says
  that nothing else does this.
- After a reset the server may execute the last request of the connection again
  (`RecvBodyReset`).

Read from the code, left out of the models:

- DELETE of the path `""`: the search returns the root as its own parent.
  `deleteDocument` then unlinks the root's *last child*, leaves the root alone, and
  deletes from the root's stale first son on (zgdb.c:246). `XmlRequest` has the request
  and its answer; what it does to the tree is in no model: `ZgdbStore` does not start it.
- DELETE frees the descendants of a document with `del()`, which frees documents
  only: their toasts stay alive in no list (zgdb.c:269). `ZgdbStore` has this leak;
  the toast properties are about the toasts of living documents.

## Proofs

TLAPS checks, for all values of the constants that satisfy
`ConstantsAssumption`, that `IInv` is inductive (`InductiveInvariant`), and from it
every safety invariant of the run `store` but `TreeIsWhole`, and both action
properties; `WholeInv`, below, gives `TreeIsWhole` and the refinement. The assumption says what the code needs: a threshold of at
least one (`createDocument` may take two indexes), expansions of at least two,
blocks of at least one byte.

`IInv` is the conjunction of five parts:

- `TypeOK`;
- `SpaceInv`: the list is well formed; what it offers, together with what init()
  has still to read, is exactly the unused indexes, each with its block's capacity;
  the two parts share no index; blocks have room;
- `TreeInv`: links name live documents, no two the same, every live document but
  the root is named. A *link* is a header field of a live document or a place where
  the running deletion keeps a document: the stack and the iterator's next entry.
  That makes the property inductive: when a document dies, its two links move to
  the stack and the iterator. Two kinds of header field are stale for one step and
  excluded (`StaleSons`, `StaleBrothers`);
- `ToastInv`: the same for toasts, with the chain the request holds;
- `RequestInv`: what the running request knows. The copy of the parent's header is
  still what the file holds, so writing it back loses nothing; the allocation
  counts on new indexes that are still there; the walk of `deleteDocument` has the
  target in front of it (`BrothersFrom`), so that it stops at it with its
  predecessor in `pList`.

The argument runs in layers. `ZgdbSpaceProofs`: an insertion keeps the list well
formed and adds exactly its node, `findRelevantIndex` takes exactly one and finds
one while a new index is left; hence `Attach`, `Free`, the expansion, a link and the
loading of a node keep `SpaceInv`. `ZgdbStoreProofs` restates `TreeInv` and `ToastInv`
kind by kind of link (`TreeFacts`, `ToastFacts`; a link is a pair, and unfolded cases
are what the provers are good at), shows what each kind of step does to them, and has
one lemma per action and the theorems.

`IInv` does not say that the documents form *one* tree: a ring of documents that name
each other would satisfy it. `ZgdbLayersProofs` proves that there is none
(`TreeStaysWhole`), and that the core implements `DocTree` (`StoreImplementsTree`).
What the links lead to is a least closed set (`Reachable`, `Children`,
`BrothersFrom`), so that no induction over paths is needed: to show that something
is in such a set, one takes any closed set; to show that it is not, one gives a
closed set without it. `WholeInv` adds to `IInv`:

- `NoDocumentCutOff`: every set that contains the root and the documents which the
  running deletion has still to visit (`Doomed`), and is closed under the links,
  contains every live document but the one that is not linked yet. Without `Doomed`
  this is not inductive: from `Unlink` to the last `DeleteDescendant` the subtree is
  alive and reached from nowhere else;
- `TargetIsChild`: the document being deleted is still a child of its parent when
  `Unlink` runs, many steps after the search returned it, and `NewDocumentComesFirst`:
  a new document still stands before its parent's sons when `LinkSon` names it;
- `StackHoldsDocuments`, which makes the iterator's stack part of `Doomed` and empty
  at its end, and `CountsDocuments`: the header counts the live documents.

The refinement is proved step by step. `LinkSon` is `Add`: the closure of the new links
is the old one and the new document, whose elders are the parent's sons. `Unlink` is
`Remove`: the documents no longer reached are exactly the target's subtree, and the
lists of the others lose the target only. Every other step changes no link that is
reached from the root, the expansion and the deaths of a deleted subtree included.

`ToastTextProofs` proves every property of the run `text`, for any number of texts of
any size, toasts of any capacity and any number of updates, under `NoFullChunks`: no
size in an ADD is a multiple of `CHUNK_SIZE`. The run `text_full_chunk` shows that the
code needs it. The assumption that a document has a text (`Elements # {}`) is
zgdb.c:147: without one `createDocument` makes no toast. `TextInv` is the conjunction of

- `TypeOK` and `WrittenInOrder`: until all elements are written, the first toast is the
  only one and holds the chunks of the elements before, so that the reservation of
  `createDocument` is enough;
- as long as `Intact`: `SizesArePadded` (no last chunk is full, so that the walks, which
  count chunks in two ways, count the same), `ChunksAreUsed`, `SpillsWhenFull` (a second
  toast is made when the first is full and has no successor: so the rest of a text
  that grows goes behind the used chunks of a fresh toast, or to index 0),
  `ChainsAreDisjoint` and `ChunksHoldTexts`, which speak of every chunk and every byte
  of a text and imply `TextsAreDisjoint` and `TextsReadBack`.

`Places`, `Overwritten` and `ReadText` are recursive functions over the links. The proof
first says what they return: the `k`-th place of a chain (`AtSteps`, by induction over
`Nat` as a set), which every path of the same links agrees with (`PathIsChain`), and
for a loop over distinct places the chunks with exactly those overwritten
(`OverwrittenIsLoop`). Then one lemma (`OneTextRewritten`) says that a text may be
rewritten along any path that keeps clear of the other texts, and each of the five
branches of `updateElement` gives such a path: the first chunks of the old one where the
text fits (`TextFits`), and where it grows (`TextGrows`) the old chunks, the chunks
behind the used ones and those in the new toast, joined by the links the code rewrites.

`FindIfProofs` proves, for every tree that satisfies `IsTree`, every path and all
chains of predicates that satisfy `IsChain`, every safety property of the run `find`:

- `findIf0` and `join` hold documents with the indexes of their parents only
  (`ResultsAlwaysKnowParents`), and the current step and context exist
  (`SearchTypeCorrect`). The first is what the core assumes when `StartDelete(p, d)` is
  given a child `d` of `p`. `IInv` needs in addition that `join` walks the children of
  the document it was given (`JoinsChildren`);
- a search ends with what its path selects, in order (`SearchFindsWhatIsReached`), and JOIN
  with the children that pass, in order (`JoinFindsChildren`). The invariant is
  `SearchInv` (`SearchHoldsTheRest`). Inside a context, with `v` candidates visited,
  the next document and the stack, from its top down, hold the visits behind the first
  `v`, cut into one piece for each entry (`HoldsRest`); the depth is the one of the start
  exactly as long as the document visited last is one of the brothers (`DepthTells`,
  `VisitInv`), so that an absolute step ends with the one document behind them, which
  it has examined by then (`find_absolute`);
  `docNumber` counts the candidates of the name; and result and next contexts are what
  the contexts before and these candidates give (`HoldsFound`). In `join` the brothers
  from `tempIndex` on are what is left of the children;
- the definition those theorems rest on is the right one. `Visits` lists every document
  below the root exactly once (`EveryDocumentIsVisitedOnce`), the brothers of a first son
  are all the children of its parent, each once (`EveryChildIsABrotherOnce`). So a path
  of one step finds no document twice, and a relative one without predicates finds all
  of the name (`SearchFindsEveryDocument`); JOIN without predicates finds every child
  (`JoinFindsEveryChild`).

The recursive functions have to be shown to exist before anything can be said of them:
over numbers by their initial parts (`RecursionExists`), over the links of a tree as the
least relation that follows them, which has one value for each document because no way
is endless (`TreeRecursionExists`). The same fact is the induction used for all that is
said of subtrees (`AllDocuments`). That the uninitialised `generalRes` never shows is
`GarbageIsOverwritten`, from `IsChain`. That nothing is listed twice needs the other half
of `IsTree`: a document on the way from two others would be linked to twice (`OneLink`),
and if something were both behind and below a document, so would be whatever links to
it, and the root would not reach it (`BehindIsNotBelow`).

`WireProofs` proves that clients and server implement `Service`
(`WireImplementsService`), for any number of clients, queue and ways of cutting
messages and sizes. Its invariant says what makes a request the client's own: in each
direction of a client that has not been served or cut the size comes first and once
(`RequestsKeepOrder`), everything in a client's direction is a part of the answer to
its own request (`AnswersKeepOrder`), and `ServesSock` ties the server's place in its
loop to the client it serves and to the answer it is about to send. As long as a client
is not in `cut`, `RequestsAreFramed` holds: what it has sent and the server has not
read begins with a size, and is never longer than that size says, unless the server
has read that size and is about to read as much. `FramingIsAlwaysKept` and "at most
once" rest on it.

`ZgdbCrashProofs` proves `NewIndexesStayUnused` (`NewIndexesAlwaysStayUnused`): a list
restored after any number of deaths may offer dead blocks that are in use, but never a
new index that is. Links in memory and in the file may be out of date after a death,
so `IInv` is of no use here; `CrashInv` keeps what does survive. An index whose flag is
not `NEW` has had a block (`Used`), and the flags survive; every link, every header
flushed and every place where a request keeps a document names an index of `Used`
(`BlocksNameUsed`, `CallNamesUsed`), so that whatever is freed, twice even, is listed
with a size; and what is listed with size 0, in memory and in the file, is outside of
`Used` and listed once (`KnownNodes`). The list in the file keeps that because it
counts as intact only until an index gets its first block (`UsedOfSameFile`).

`ZgdbLayersProofs` proves, below the core, for all sizes that the blocks tile the file
(`FileStaysTiled`) and that the core with offsets implements the core without
(`LayoutImplementsStore`), so that the theorems of `ZgdbStoreProofs` hold of it. The
invariant adds where the walk of the expansion is (`WalkKeepsTrack`): the bytes from
the table to `nextBlock` are exactly the room gained, so that the block found at
`nextBlock` is the first of the tiling and moving it to the end leaves a tiling.

`XmlRequestProofs` proves every property of the run `request` for all texts that the
grammar derives: schemas, paths and chains of any length, any names and numbers, any
precision of `%f` (`ZpathAssumption`). `IInv` of `XmlRequestInv` is `TypeOK`,
`FailuresHaveCauses` and

- `ParserInv`: what is unread is an end of the text (`UnreadInv`), the parts are read in
  the order of the grammar (`OrderInv`), and the tree is the one of what has been read
  (`TreeInv`), where each predicate has the meaning it has in its *whole* chain. What
  makes that inductive is `ChainInv`: inside a chain, `isFirstPred` tells whether nothing
  of it has been read, and otherwise `symbolValue` is the connective typed behind the
  predicate read last. `isFirstPred` is cleared by every predicate and set again by the
  next document step, so that `OrderInv` must also say that it is set at the beginning:
  a JOIN sets it nowhere;
- `ServerInv`: the request is the XML of the tree; what was decoded is the text with the
  predicates of its path dropped or dangling (`DecodedPath`) and with the elements of its
  schema as they arrive, unless a key is reserved or comes twice, and then some are
  missing (`SchemaInv`); what was carried out and the status go together (`IsOutcome`).

The lemmas are about the operators: what `findNodeByName` returns on the XML of a request
(from a path always the predicates of its *first* step), that decoding a chain undoes
`PredicateXml` as long as no elements are compared, and that the elements of a schema
survive `addXToSchema` in order as long as no key is refused.
`TextIsParsedAsWritten` and `RequestsArrive` then compare the two meanings.

Only model-checked: liveness (`RequestsEnd`, `SearchEnds`, `ClientsEnd`, `WorkIsSaved`,
`ExpansionEnds`), which is out of the prover's reach. Every other property of a passing
run is a theorem.

## Not modelled

The automata that flex and bison generate, the cleaning of quotes, and the printing of
the AST (`zgdbAst.c`); `str2long`, `str2int`, `str2double` (wrappers of the C
library); the lists of documents and elements in an answer, which are output; the
lengths of names; the Windows `mman`; the test programs, which print and assert
nothing. A restart whose saved list has been overwritten is undefined behaviour of
`readFreeList` and left out of `ZgdbCrash`. The sizes of mappings and of the stack:
that the mapping of the table is shorter than the table (zgdb.c:24), and that a long
saved list is read into an array (zgdbfile.c:48), show in no model. `finish()` and
`init()` move no block and are left out of the runs of `BlockLayout`.

## Plan

Done: `FreeList`, `ZgdbStore`, `DocTree` and the refinement, `ZgdbCrash`, the inductive
invariant and its proof; the search and the proof that every result carries its
parent; `ToastText`; `Wire`, `Service` and the proof of the refinement;
`BlockLayout`, its tiling and its refinement of the core; `Zpath` and `XmlRequest`; the
crash invariant and its proof; the tree as a whole with the refinement of `DocTree`,
the texts and the requests, with the inductive invariants their proofs need; what a
search finds, and that it visits every document once.

Left: `ZgdbCrash` over `BlockLayout`: what a restored list means for places in the file.
