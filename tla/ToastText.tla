----------------------------- MODULE ToastText -----------------------------
(***************************************************************************)
(* How the texts of one document are kept in toasts: writeElement          *)
(* (zgdbdata.c), which createDocument calls for every element, the text    *)
(* branches of updateElement (zgdb.c), and the reading of a text by nextEl *)
(* (eliterator.c) and readElement.                                         *)
(*                                                                         *)
(* A text is cut into chunks of CHUNK_SIZE bytes.  A chunk names the place *)
(* of the following one: a toast and an offset in it, here counted in      *)
(* chunks.  The toasts are numbered in the order of their creation, 1 is   *)
(* the document's firstToastIndex.  0 is index 0, which is no toast but    *)
(* the block of the root document: what a request finds there are no       *)
(* chunks, and the model stops at it.  Abstracted: the search for the      *)
(* element by its key, elements of the other types, the search for a free  *)
(* index and the place of the blocks in the file.                          *)
(***************************************************************************)
EXTENDS Integers, FiniteSets, FiniteSetsExt

CONSTANTS
    CHUNK_SIZE,    \* bytes of text in a chunk (32 in zgdbdata.h)
    Elements,      \* 1 .. n: the text elements, in the order of the schema;
                   \* a document without one gets no toast
    InitialSizes,  \* sizes of texts in an ADD, the terminator included
    Sizes,         \* sizes of texts in an UPDATE, the terminator included
    Slacks,        \* chunks a reused block may have beyond the fewest
    MaxUpdates     \* bound on the updates of a behaviour

ASSUME ConstantsAssumption ==
    /\ CHUNK_SIZE \in Nat \ {0, 1}
    /\ IsFiniteSet(Elements) /\ Elements # {}
    /\ Elements = 1 .. Cardinality(Elements)
    /\ InitialSizes \subseteq Nat \ {0}
    /\ Sizes \subseteq Nat \ {0}
    /\ Slacks \subseteq Nat
    /\ MaxUpdates \in Nat

VARIABLES
    toasts,      \* capacity, used and nextToastIndex of every toast
    chunks,      \* the chunks written so far, by their places
    firstChunk,  \* firstTextChunk of every element, in the document's block
    texts,       \* what the client has written last (not in the code)
    updates      \* how many updates there were (not in the code)

vars == <<toasts, chunks, firstChunk, texts, updates>>

-----------------------------------------------------------------------------
(* Texts and chunks.                                                       *)

\* The text an update writes: its bytes are told apart by the update and by
\* their position; size counts the terminator.
Text == [update : 0 .. MaxUpdates, size : InitialSizes \cup Sizes]

NULL_TERMINATOR == <<"NULL_TERMINATOR">>

\* The i-th byte of the input; behind it lies whatever the memory holds.
ByteOf(text, i) ==
    IF i < text.size THEN <<text.update, i>>
    ELSE IF i = text.size THEN NULL_TERMINATOR
    ELSE <<"UNKNOWN">>

ZeroData == [i \in 1 .. CHUNK_SIZE |-> NULL_TERMINATOR]

\* data with its first n bytes replaced by those of the k-th piece of text.
Copy(data, text, k, n) ==
    [i \in 1 .. CHUNK_SIZE |->
        IF i <= n THEN ByteOf(text, k * CHUNK_SIZE + i) ELSE data[i]]

Rem(size) == size % CHUNK_SIZE

ChunksOf(size) == size \div CHUNK_SIZE + (IF Rem(size) # 0 THEN 1 ELSE 0)

\* f with the value v at x, which need not be in its domain yet.
With(f, x, v) == [y \in DOMAIN f \cup {x} |-> IF y = x THEN v ELSE f[y]]

\* What lies at a place: a block is cleared before it becomes a toast.
ChunkAt(cs, place) ==
    IF place \in DOMAIN cs THEN cs[place]
    ELSE [data |-> ZeroData, toastIndex |-> 0, nextOffset |-> 0]

\* The places of the first n chunks of an element's text: a loop goes to
\* nextOffset, in the same toast or in the one the chunk names.
Places(e, n) ==
    LET place[k \in 0 .. n - 1] ==
            IF k = 0 THEN <<1, firstChunk[e].offsetInToast>>
            ELSE LET chunk == ChunkAt(chunks, place[k - 1])
                 IN  <<chunk.toastIndex, chunk.nextOffset>>
    IN place

\* The chunks after a loop over n chunks of e's text that copies new into
\* them, rem bytes into the last one.
Overwritten(e, n, new, rem) ==
    LET place == Places(e, n)
        after[k \in 0 .. n] ==
            IF k = 0 THEN chunks
            ELSE LET before == after[k - 1]
                     size   == IF k = n THEN rem ELSE CHUNK_SIZE
                     old    == ChunkAt(before, place[k - 1])
                 IN  With(before, place[k - 1],
                          [old EXCEPT !.data = Copy(@, new, k - 1, size)])
    IN after[n]

\* The chunks after n new ones are written behind the used ones of toast t:
\* pieces from .. from + n - 1 of new, rem bytes into the last one, whose
\* text goes on at the start of toast next, or ends there when next = t.
Appended(cs, t, used, n, new, from, rem, next) ==
    LET places == {t} \X (used .. used + n - 1)
        Chunk(k) == [data |-> Copy(ZeroData, new, from + k,
                                   IF k = n - 1 THEN rem ELSE CHUNK_SIZE),
                     toastIndex |-> IF k = n - 1 THEN next ELSE t,
                     nextOffset |-> IF k = n - 1 THEN 0 ELSE used + k + 1]
    IN  [p \in DOMAIN cs \cup places |->
            IF p \in places THEN Chunk(p[2] - used) ELSE cs[p]]

\* Mutant: the chunks are written and not counted.
NotCounted(ts, t, n) == ts

Counted(ts, t, n) == [ts EXCEPT ![t].used = @ + n]

\* What nextEl and readElement return: the bytes of the chunks the size asks
\* for, up to the terminator that strcpy stops at.
ReadText(e) ==
    LET size  == firstChunk[e].size
        n     == ChunksOf(size)
        place == Places(e, n)
        byte(i) == ChunkAt(chunks, place[i \div CHUNK_SIZE])
                       .data[(i % CHUNK_SIZE) + 1]
        buf   == [i \in 0 .. size - 1 |->
                     IF i \div CHUNK_SIZE = n - 1 /\ i % CHUNK_SIZE >= Rem(size)
                     THEN NULL_TERMINATOR ELSE byte(i)]
        ends  == {i \in DOMAIN buf : buf[i] = NULL_TERMINATOR}
    IN  [i \in 1 .. IF ends = {} THEN size ELSE Min(ends) |-> buf[i - 1]]

-----------------------------------------------------------------------------
(* ADD: createDocument reserves twice the chunks of the schema's texts and *)
(* writes the elements one after the other.  A new block has room for its  *)
(* header as well (slack 1), a reused one need not (slack 0).              *)

NoToast == [capacity |-> 0, used |-> 0, nextToastIndex |-> 0]

NoToasts == [t \in {0} |-> NoToast]

\* Before the ADD: no document, and index 0.
Init ==
    /\ toasts = NoToasts
    /\ chunks = <<>>
    /\ firstChunk = <<>>
    /\ texts = <<>>
    /\ updates = 0

\* The chunks of the first n texts of a schema.
ChunksUpTo(schema, n) ==
    LET sum[k \in 0 .. n] ==
            IF k = 0 THEN 0 ELSE sum[k - 1] + ChunksOf(schema[k].size)
    IN  sum[n]

\* schema.minToastCapacity, to which addTextToSchema adds text by text.
MinToastCapacity(schema) == ChunksUpTo(schema, Cardinality(Elements))

CreateToast(schema, slack) ==
    /\ texts = <<>>
    /\ toasts' = With(toasts, 1,
                     [NoToast EXCEPT !.capacity =
                         2 * MinToastCapacity(schema) - 1 + slack])
    /\ texts' = schema
    /\ UNCHANGED <<chunks, firstChunk, updates>>

\* Mutant: the offset is taken when the chunks have been counted.
OffsetCounted(n) == toasts[1].used + n

\* Where a text of n chunks begins: behind the used ones.
OffsetOf(n) == toasts[1].used

\* writeElement
WriteElement(e) ==
    LET n == ChunksOf(texts[e].size) IN
    /\ e = Cardinality(DOMAIN firstChunk) + 1
    /\ firstChunk' = With(firstChunk, e, [size |-> texts[e].size,
                                          offsetInToast |-> OffsetOf(n)])
    /\ chunks' = Appended(chunks, 1, toasts[1].used, n, texts[e], 0,
                          Rem(texts[e].size), 1)
    /\ toasts' = Counted(toasts, 1, n)
    /\ UNCHANGED <<texts, updates>>

-----------------------------------------------------------------------------
(* UPDATE: the text branches of updateElement, new being the input.        *)

\* No request has followed a link to index 0 yet.
Intact == \A p \in DOMAIN chunks : p[1] # 0

NewText(size) == [update |-> updates + 1, size |-> size]

\* What every branch does at its end; size is newLength by then.
Updated(e, new, size) ==
    /\ firstChunk' = [firstChunk EXCEPT ![e].size = size]
    /\ texts' = [texts EXCEPT ![e] = new]
    /\ updates' = updates + 1

UpdateEqual(e, new) ==
    /\ new.size = firstChunk[e].size
    /\ chunks' = Overwritten(e, ChunksOf(new.size), new, Rem(new.size))
    /\ Updated(e, new, new.size)
    /\ UNCHANGED toasts

\* Mutant: the size is stored as it is.
NotPadded(size) == size

\* One more, empty chunk when the size is a multiple of CHUNK_SIZE: the size
\* grows by one, which makes room for the terminator.
ChunksPadded(size) == size \div CHUNK_SIZE + 1

Padded(size) == IF Rem(size) = 0 THEN size + 1 ELSE size

UpdateShorter(e, new) ==
    /\ new.size < firstChunk[e].size
    /\ chunks' = Overwritten(e, ChunksPadded(new.size), new, Rem(new.size))
    /\ Updated(e, new, Padded(new.size))
    /\ UNCHANGED toasts

\* newLength after the test of the old length: a text that fills its last
\* chunk is taken to have another one.
Longer(e, size) == IF Rem(firstChunk[e].size) = 0 THEN size + 1 ELSE size

OldChunks(e) == ChunksPadded(firstChunk[e].size)

NewChunks(e, size) == ChunksPadded(Longer(e, size))

UpdateInChunks(e, new) ==
    LET length == Longer(e, new.size) IN
    /\ new.size > firstChunk[e].size
    /\ NewChunks(e, new.size) <= OldChunks(e)
    /\ chunks' = Overwritten(e, NewChunks(e, new.size), new, Rem(length))
    /\ Updated(e, new, Padded(length))
    /\ UNCHANGED toasts

\* left, of the first toast wherever the text ends; an unsigned difference.
Left == toasts[1].capacity - toasts[1].used

\* Mutant: one chunk more than there is room for.
HasRoomForOneLess(req) == Left < 0 \/ Left >= req - 1

HasRoom(req) == Left < 0 \/ Left >= req

\* The old chunks are filled, and the last of them is linked to the place
\* behind the used ones of its toast, where the others are written.
UpdateInRoom(e, new) ==
    LET length == Longer(e, new.size)
        old    == OldChunks(e)
        req    == NewChunks(e, new.size) - old
        last   == Places(e, old)[old - 1]
        t      == ChunkAt(chunks, last).toastIndex
        filled == [Overwritten(e, old, new, CHUNK_SIZE)
                      EXCEPT ![last].nextOffset = toasts[last[1]].used]
    IN
    /\ new.size > firstChunk[e].size
    /\ req > 0
    /\ HasRoom(req)
    /\ chunks' = Appended(filled, t, toasts[t].used, req, new, old,
                          Rem(length), t)
    /\ toasts' = Counted(toasts, t, req)
    /\ Updated(e, new, Padded(length))

\* createNewToast, linked to the first toast; the old chunks are filled, the
\* left ones appended to the toast the text ends in, and the rest to what
\* that toast's nextToastIndex says.
UpdateInNewToast(e, new, slack) ==
    LET length == Longer(e, new.size)
        old    == OldChunks(e)
        req    == NewChunks(e, new.size) - old
        fresh  == Cardinality(DOMAIN toasts)
        linked == With([toasts EXCEPT ![1].nextToastIndex = fresh], fresh,
                       [NoToast EXCEPT
                           !.capacity = req + toasts[1].capacity + slack])
        last   == Places(e, old)[old - 1]
        t      == last[1]
        filled == [Overwritten(e, old, new, CHUNK_SIZE)
                      EXCEPT ![last].toastIndex = IF Left = 0 THEN fresh ELSE @,
                             ![last].nextOffset = IF Left = 0 THEN 0
                                                  ELSE toasts[t].used]
        begun  == Appended(filled, t, toasts[t].used, Left, new, old,
                           CHUNK_SIZE, fresh)
        next   == linked[t].nextToastIndex
    IN
    /\ new.size > firstChunk[e].size
    /\ req > 0
    /\ ~ HasRoom(req)
    /\ chunks' = Appended(begun, next, linked[next].used, req - Left, new,
                          old + Left, Rem(length), next)
    /\ toasts' = Counted(Counted(linked, t, Left), next, req - Left)
    /\ Updated(e, new, Padded(length))

Create ==
    \/ \E schema \in [Elements -> [update : {0}, size : InitialSizes]],
          slack \in Slacks : CreateToast(schema, slack)
    \/ texts # <<>> /\ \E e \in Elements : WriteElement(e)

Update ==
    \E e \in Elements, size \in Sizes :
        LET new == NewText(size) IN
        /\ DOMAIN firstChunk = Elements
        /\ Intact
        /\ updates < MaxUpdates
        /\ \/ UpdateEqual(e, new)
           \/ UpdateShorter(e, new)
           \/ UpdateInChunks(e, new)
           \/ UpdateInRoom(e, new)
           \/ \E slack \in Slacks : UpdateInNewToast(e, new, slack)

Next == Create \/ Update

Spec == Init /\ [][Next]_vars

-----------------------------------------------------------------------------
\* The toasts and the first chunks are in range.
TypeOK ==
    /\ IsFiniteSet(DOMAIN toasts)
    /\ toasts \in [0 .. Cardinality(DOMAIN toasts) - 1 ->
                      [capacity : Nat, used : Nat,
                       nextToastIndex : DOMAIN toasts]]
    /\ DOMAIN firstChunk \subseteq Elements
    /\ firstChunk \in [DOMAIN firstChunk ->
                          [size : Nat \ {0}, offsetInToast : Nat]]
    /\ \A e \in DOMAIN firstChunk :
          firstChunk[e].offsetInToast < toasts[1].used
    /\ texts \in [Elements -> Text] \cup {<<>>}
    /\ updates \in 0 .. MaxUpdates

\* Every text reads as it was last written, whatever was written to the
\* others: the walks of writeElement, updateElement and nextEl agree.
TextsReadBack ==
    Intact =>
        \A e \in DOMAIN firstChunk :
            ReadText(e) = [i \in 1 .. texts[e].size - 1 |-> ByteOf(texts[e], i)]

\* No two texts share a chunk, and a text's chunks are written ones.
TextsAreDisjoint ==
    Intact =>
        \A e \in DOMAIN firstChunk :
            LET places(x) == LET n == ChunksOf(firstChunk[x].size)
                             IN {Places(x, n)[k] : k \in 0 .. n - 1}
            IN  /\ places(e) \subseteq DOMAIN chunks
                /\ \A f \in DOMAIN firstChunk \ {e} : places(e) \cap places(f) = {}

\* No chunk is written behind the used ones, and used never exceeds the
\* capacity of the block: left, an unsigned number, does not wrap around.
ChunksFitTheirToast ==
    Intact =>
        /\ \A p \in DOMAIN chunks : p[2] < toasts[p[1]].used
        /\ \A t \in DOMAIN toasts : toasts[t].used <= toasts[t].capacity

-----------------------------------------------------------------------------
(* The inductive invariant.                                                *)

\* The k-th chunk of an element's text, counted from 0.
PlaceOf(e, k) == Places(e, ChunksOf(firstChunk[e].size))[k]

Positions(e) == 0 .. ChunksOf(firstChunk[e].size) - 1

\* The elements are written in the order of the schema, each behind the one
\* before it; no other request comes in between.
WrittenInOrder ==
    LET n == Cardinality(DOMAIN firstChunk) IN
    /\ DOMAIN firstChunk = 1 .. n
    /\ texts = <<>> => /\ firstChunk = <<>>
                       /\ chunks = <<>>
                       /\ toasts = NoToasts
    /\ texts # <<>> => 1 \in DOMAIN toasts
    /\ texts # <<>> /\ n < Cardinality(Elements) =>
          /\ DOMAIN toasts = {0, 1}
          /\ toasts[1].used = ChunksUpTo(texts, n)
          /\ MinToastCapacity(texts) <= toasts[1].capacity
          /\ Intact
          /\ \A e \in Elements : texts[e].size \in InitialSizes

\* A size leaves room for the terminator: the last chunk is never full.
SizesArePadded ==
    \A e \in DOMAIN firstChunk :
        /\ firstChunk[e].size = Padded(texts[e].size)
        /\ Rem(firstChunk[e].size) # 0

\* Chunks are records that lie in the used part of a toast.
ChunksAreUsed ==
    /\ toasts[0].used = 0
    /\ \A p \in DOMAIN chunks :
          /\ p \in (DOMAIN toasts \ {0}) \X Nat
          /\ p[2] < toasts[p[1]].used
          /\ chunks[p] = [data |-> chunks[p].data,
                          toastIndex |-> chunks[p].toastIndex,
                          nextOffset |-> chunks[p].nextOffset]

\* A second toast is made when the first is full, and has no successor.
SpillsWhenFull ==
    /\ \A t \in DOMAIN toasts \ {0, 1} : toasts[t].nextToastIndex = 0
    /\ \A t \in DOMAIN toasts : toasts[t].used <= toasts[t].capacity
    /\ DOMAIN toasts = {0, 1} =>
          \A p \in DOMAIN chunks : chunks[p].toastIndex = 1
    /\ DOMAIN toasts \notin {{0}, {0, 1}} =>
          toasts[1].used = toasts[1].capacity

\* The walks along two texts never meet, and no walk meets itself.
ChainsAreDisjoint ==
    \A e, f \in DOMAIN firstChunk :
        \A k \in Positions(e), l \in Positions(f) :
            /\ PlaceOf(e, k) \in DOMAIN chunks
            /\ PlaceOf(e, k) = PlaceOf(f, l) => e = f /\ k = l

\* Byte by byte the chunks hold what was written last.
ChunksHoldTexts ==
    \A e \in DOMAIN firstChunk : \A i \in 1 .. texts[e].size :
        chunks[PlaceOf(e, (i - 1) \div CHUNK_SIZE)]
            .data[((i - 1) % CHUNK_SIZE) + 1] = ByteOf(texts[e], i)

TextInv ==
    /\ TypeOK
    /\ WrittenInOrder
    /\ Intact =>
          /\ SizesArePadded
          /\ ChunksAreUsed
          /\ SpillsWhenFull
          /\ ChainsAreDisjoint
          /\ ChunksHoldTexts
=============================================================================
