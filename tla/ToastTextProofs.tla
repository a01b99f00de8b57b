--------------------------- MODULE ToastTextProofs ---------------------------
(***************************************************************************)
(* Texts of any size in toasts of any size: what was written last reads    *)
(* back, no text shares a chunk with another, and no chunk lies outside    *)
(* its toast, as long as no text is created whose last chunk is full and   *)
(* no request has run into the root's block.                               *)
(***************************************************************************)
EXTENDS ToastText, FiniteSetTheorems, WellFoundedInduction, TLAPS

-----------------------------------------------------------------------------
(* Numbers.                                                                *)

\* Induction over the natural numbers, for a set instead of a predicate.
LEMMA AllNumbers ==
    ASSUME NEW S \in SUBSET Nat, 0 \in S, \A n \in S : n + 1 \in S
    PROVE  S = Nat
<1> SUFFICES ASSUME Nat \ S # {} PROVE FALSE
  OBVIOUS
<1>1. PICK x \in Nat \ S : \A y \in Nat \ S : ~ (<<y, x>> \in OpToRel(<, Nat))
  BY NatLessThanWellFounded, WFMin
<1>2. \A y \in Nat \ S : ~ (y < x)
  BY <1>1 DEF OpToRel
<1>3. x - 1 \in Nat
  OBVIOUS
<1>4. x - 1 \in S
  BY <1>2, <1>3
<1> QED BY <1>4

LEMMA ProductIsNat == \A a, b \in Nat : a * b \in Nat
OBVIOUS

LEMMA DivMod ==
    ASSUME NEW a \in Nat, NEW b \in Nat \ {0}
    PROVE  /\ a \div b \in Nat
           /\ a % b \in 0 .. b - 1
           /\ a = (a \div b) * b + (a % b)
<1>1. a \div b \in Int /\ a % b \in 0 .. b - 1 /\ a = (a \div b) * b + (a % b)
  OBVIOUS
<1>2. a \div b >= 0
  BY <1>1
<1> QED BY <1>1, <1>2

\* Quotient and remainder are the only numbers of their kind.
LEMMA OneQuotient ==
    ASSUME NEW b \in Nat \ {0}, NEW q \in Nat, NEW r \in 0 .. b - 1,
           NEW p \in Nat, NEW s \in 0 .. b - 1, q * b + r = p * b + s
    PROVE  q = p /\ r = s
<1>1. ASSUME NEW x \in Nat, NEW y \in Nat, x < y PROVE x * b + b <= y * b
  <2>1. y = x + 1 + (y - x - 1) /\ y - x - 1 \in Nat
    BY <1>1
  <2>2. y * b = x * b + b + (y - x - 1) * b
    BY <2>1
  <2>3. (y - x - 1) * b \in Nat
    BY <2>1, ProductIsNat
  <2> QED BY <2>2, <2>3
<1>2. q * b \in Nat /\ p * b \in Nat
  BY ProductIsNat
<1>3. ~ (q < p)
  BY <1>1, <1>2
<1>4. ~ (p < q)
  BY <1>1, <1>2
<1> QED BY <1>2, <1>3, <1>4

-----------------------------------------------------------------------------
(* Chains of chunks: where a loop gets to that starts at a place and goes  *)
(* to the place each chunk names.                                          *)

LinkFrom(cs, p) == <<ChunkAt(cs, p).toastIndex, ChunkAt(cs, p).nextOffset>>

IsChain(cs, start, n, w) ==
    w = [k \in 0 .. n |-> IF k = 0 THEN start ELSE LinkFrom(cs, w[k - 1])]

At(cs, start, k) == (CHOOSE w : IsChain(cs, start, k, w))[k]

LEMMA ChainExists ==
    ASSUME NEW cs, NEW start
    PROVE  \A n \in Nat : \E w : IsChain(cs, start, n, w)
<1> DEFINE S == {n \in Nat : \E w : IsChain(cs, start, n, w)}
<1>1. 0 \in S
  <2> DEFINE w == [k \in {0} |-> start]
  <2>1. 0 .. 0 = {0}
    OBVIOUS
  <2>2. IsChain(cs, start, 0, w)
    BY <2>1 DEF IsChain
  <2> QED BY <2>2
<1>2. ASSUME NEW n \in S PROVE n + 1 \in S
  <2>1. PICK w : IsChain(cs, start, n, w)
    OBVIOUS
  <2> DEFINE v == [k \in 0 .. n + 1 |->
                      IF k = n + 1 THEN LinkFrom(cs, w[n]) ELSE w[k]]
  <2>2. \A k \in 0 .. n : w[k] = IF k = 0 THEN start ELSE LinkFrom(cs, w[k - 1])
    BY <2>1 DEF IsChain
  <2>3. \A k \in 0 .. n + 1 :
           v[k] = IF k = 0 THEN start ELSE LinkFrom(cs, v[k - 1])
    <3> SUFFICES ASSUME NEW k \in 0 .. n + 1
                 PROVE  v[k] = IF k = 0 THEN start ELSE LinkFrom(cs, v[k - 1])
      OBVIOUS
    <3>1. CASE k = n + 1
      <4>1. v[k - 1] = w[n] /\ v[k] = LinkFrom(cs, w[n])
        BY <3>1
      <4> QED BY <3>1, <4>1
    <3>2. CASE k \in 1 .. n
      <4>1. v[k - 1] = w[k - 1] /\ v[k] = w[k]
        BY <3>2
      <4> QED BY <2>2, <3>2, <4>1
    <3>3. CASE k = 0
      BY <2>2, <3>3
    <3> QED BY <3>1, <3>2, <3>3
  <2>4. v = [k \in 0 .. n + 1 |-> v[k]]
    OBVIOUS
  <2> HIDE DEF v
  <2>5. IsChain(cs, start, n + 1, v)
    BY <2>3, <2>4 DEF IsChain
  <2> QED BY <2>5
<1>3. S \in SUBSET Nat
  OBVIOUS
<1> HIDE DEF S
<1>4. S = Nat
  BY <1>1, <1>2, <1>3, AllNumbers
<1> QED BY <1>4 DEF S

\* Two chains of different length agree as far as both go.
LEMMA ChainsAgree ==
    ASSUME NEW cs, NEW start, NEW n \in Nat, NEW v, IsChain(cs, start, n, v),
           NEW m \in Nat, NEW w, IsChain(cs, start, m, w)
    PROVE  \A k \in Nat : k <= n /\ k <= m => v[k] = w[k]
<1> DEFINE S == {k \in Nat : k <= n /\ k <= m => v[k] = w[k]}
<1>1. /\ \A k \in 0 .. n : v[k] = IF k = 0 THEN start ELSE LinkFrom(cs, v[k - 1])
      /\ \A k \in 0 .. m : w[k] = IF k = 0 THEN start ELSE LinkFrom(cs, w[k - 1])
  BY DEF IsChain
<1>2. 0 \in S
  BY <1>1
<1>3. ASSUME NEW k \in S PROVE k + 1 \in S
  <2> SUFFICES ASSUME k + 1 <= n, k + 1 <= m PROVE v[k + 1] = w[k + 1]
    OBVIOUS
  <2>1. v[k] = w[k]
    OBVIOUS
  <2>2. (k + 1) - 1 = k /\ k + 1 \in 0 .. n /\ k + 1 \in 0 .. m /\ k + 1 # 0
    OBVIOUS
  <2>3. v[k + 1] = LinkFrom(cs, v[k])
    BY <1>1, <2>2
  <2>4. w[k + 1] = LinkFrom(cs, w[k])
    BY <1>1, <2>2
  <2> QED BY <2>1, <2>3, <2>4
<1>4. S \in SUBSET Nat
  OBVIOUS
<1> HIDE DEF S
<1>5. S = Nat
  BY <1>2, <1>3, <1>4, AllNumbers
<1> QED BY <1>5 DEF S

LEMMA AtIsOnChain ==
    ASSUME NEW cs, NEW start, NEW n \in Nat, NEW w, IsChain(cs, start, n, w)
    PROVE  \A k \in 0 .. n : w[k] = At(cs, start, k)
<1> SUFFICES ASSUME NEW k \in 0 .. n PROVE w[k] = At(cs, start, k)
  OBVIOUS
<1> DEFINE v == CHOOSE x : IsChain(cs, start, k, x)
<1>1. \E x : IsChain(cs, start, k, x)
  BY ChainExists
<1>2. IsChain(cs, start, k, v)
  BY <1>1, Zenon
<1>3. At(cs, start, k) = v[k]
  BY DEF At
<1> HIDE DEF v
<1>4. v[k] = w[k]
  BY <1>2, ChainsAgree
<1> QED BY <1>3, <1>4

\* The chain of any length, place by place.
LEMMA AtSteps ==
    ASSUME NEW cs, NEW start
    PROVE  /\ At(cs, start, 0) = start
           /\ \A k \in Nat : At(cs, start, k + 1) = LinkFrom(cs, At(cs, start, k))
<1>1. ASSUME NEW k \in Nat
      PROVE  /\ At(cs, start, 0) = start
             /\ At(cs, start, k + 1) = LinkFrom(cs, At(cs, start, k))
  <2>1. PICK w : IsChain(cs, start, k + 1, w)
    BY ChainExists
  <2>2. \A j \in 0 .. k + 1 : w[j] = At(cs, start, j)
    BY <2>1, AtIsOnChain
  <2>3. \A j \in 0 .. k + 1 :
           w[j] = IF j = 0 THEN start ELSE LinkFrom(cs, w[j - 1])
    BY <2>1 DEF IsChain
  <2>4. (k + 1) - 1 = k
    OBVIOUS
  <2> QED BY <2>2, <2>3, <2>4
<1> QED BY <1>1

\* Places is the chain's beginning, in any state.
LEMMA PlacesAreOnChain ==
    ASSUME NEW e, NEW n \in Nat \ {0}
    PROVE  \A k \in 0 .. n - 1 :
              Places(e, n)[k] = At(chunks, <<1, firstChunk[e].offsetInToast>>, k)
<1> DEFINE start == <<1, firstChunk[e].offsetInToast>>
           w == CHOOSE x : IsChain(chunks, start, n - 1, x)
<1>1. n - 1 \in Nat
  OBVIOUS
<1>2. Places(e, n) = w
  BY Zenon DEF Places, IsChain, LinkFrom
<1>3. \E x : IsChain(chunks, start, n - 1, x)
  BY <1>1, ChainExists
<1>4. IsChain(chunks, start, n - 1, w)
  BY <1>3, Zenon
<1> HIDE DEF w
<1> QED BY <1>1, <1>2, <1>4, AtIsOnChain

\* After an operation the same places, with different links.
LEMMA PlacesAreOnNextChain ==
    ASSUME NEW e, NEW n \in Nat \ {0}
    PROVE  \A k \in 0 .. n - 1 :
              Places(e, n)'[k]
                = At(chunks', <<1, firstChunk'[e].offsetInToast>>, k)
<1> DEFINE start == <<1, firstChunk'[e].offsetInToast>>
           w == CHOOSE x : IsChain(chunks', start, n - 1, x)
<1>1. n - 1 \in Nat
  OBVIOUS
<1>2. Places(e, n)' = w
  BY Zenon DEF Places, IsChain, LinkFrom
<1>3. \E x : IsChain(chunks', start, n - 1, x)
  BY <1>1, ChainExists
<1>4. IsChain(chunks', start, n - 1, w)
  BY <1>3, Zenon
<1> HIDE DEF w
<1> QED BY <1>1, <1>2, <1>4, AtIsOnChain

\* m places that lead from one to the next.
IsPath(cs, start, m, path) ==
    /\ path[0] = start
    /\ \A k \in Nat : k + 1 < m => path[k + 1] = LinkFrom(cs, path[k])

IsChainOf(cs, start, m, path) ==
    \A k \in Nat : k < m => At(cs, start, k) = path[k]

\* They are the chain of the first.
LEMMA PathIsChain ==
    ASSUME NEW cs, NEW start, NEW m \in Nat, NEW path,
           IsPath(cs, start, m, path)
    PROVE  IsChainOf(cs, start, m, path)
<1> DEFINE S == {k \in Nat : k < m => At(cs, start, k) = path[k]}
<1>1. 0 \in S
  BY AtSteps DEF IsPath
<1>2. ASSUME NEW k \in S PROVE k + 1 \in S
  <2> SUFFICES ASSUME k + 1 < m PROVE At(cs, start, k + 1) = path[k + 1]
    OBVIOUS
  <2>1. At(cs, start, k) = path[k]
    OBVIOUS
  <2>2. At(cs, start, k + 1) = LinkFrom(cs, At(cs, start, k))
    BY AtSteps
  <2> QED BY <2>1, <2>2 DEF IsPath
<1>3. S \in SUBSET Nat
  OBVIOUS
<1> HIDE DEF S
<1>4. S = Nat
  BY <1>1, <1>2, <1>3, AllNumbers
<1> QED BY <1>4 DEF S, IsChainOf

-----------------------------------------------------------------------------
(* Overwriting: a loop along n places replaces the data and no link.       *)

LastSize(k, n, rem) == IF k = n THEN rem ELSE CHUNK_SIZE

Filled(cs, place, new, k, size) ==
    With(cs, place, [ChunkAt(cs, place) EXCEPT !.data = Copy(@, new, k, size)])

\* The states of the loop's first m turns.
AreTurns(cs, place, n, new, rem, m, turns) ==
    turns = [k \in 0 .. m |->
                IF k = 0 THEN cs
                ELSE Filled(turns[k - 1], place[k - 1], new, k - 1,
                            LastSize(k, n, rem))]

LEMMA TurnsExist ==
    ASSUME NEW cs, NEW place, NEW n \in Nat, NEW new, NEW rem
    PROVE  \A m \in Nat : \E turns : AreTurns(cs, place, n, new, rem, m, turns)
<1> DEFINE S == {m \in Nat :
                    \E turns : AreTurns(cs, place, n, new, rem, m, turns)}
           Turn(before, k) == Filled(before, place[k - 1], new, k - 1,
                                     LastSize(k, n, rem))
<1>1. 0 \in S
  <2> DEFINE w == [k \in {0} |-> cs]
  <2>1. 0 .. 0 = {0}
    OBVIOUS
  <2>2. AreTurns(cs, place, n, new, rem, 0, w)
    BY <2>1 DEF AreTurns
  <2> QED BY <2>2
<1>2. ASSUME NEW m \in S PROVE m + 1 \in S
  <2>1. PICK w : AreTurns(cs, place, n, new, rem, m, w)
    OBVIOUS
  <2> DEFINE v == [k \in 0 .. m + 1 |->
                      IF k = m + 1 THEN Turn(w[m], m + 1) ELSE w[k]]
  <2>2. \A k \in 0 .. m : w[k] = IF k = 0 THEN cs ELSE Turn(w[k - 1], k)
    BY <2>1 DEF AreTurns
  <2> HIDE DEF Turn
  <2>3. \A k \in 0 .. m + 1 : v[k] = IF k = 0 THEN cs ELSE Turn(v[k - 1], k)
    <3> SUFFICES ASSUME NEW k \in 0 .. m + 1
                 PROVE  v[k] = IF k = 0 THEN cs ELSE Turn(v[k - 1], k)
      OBVIOUS
    <3>1. CASE k = m + 1
      <4>1. v[k - 1] = w[m] /\ v[k] = Turn(w[m], m + 1)
        BY <3>1
      <4> QED BY <3>1, <4>1
    <3>2. CASE k \in 1 .. m
      <4>1. v[k - 1] = w[k - 1] /\ v[k] = w[k]
        BY <3>2
      <4> QED BY <2>2, <3>2, <4>1
    <3>3. CASE k = 0
      BY <2>2, <3>3
    <3> QED BY <3>1, <3>2, <3>3
  <2>4. v = [k \in 0 .. m + 1 |-> v[k]]
    OBVIOUS
  <2> HIDE DEF v
  <2>5. AreTurns(cs, place, n, new, rem, m + 1, v)
    BY <2>3, <2>4 DEF AreTurns, Turn
  <2> QED BY <2>5
<1>3. S \in SUBSET Nat
  OBVIOUS
<1> HIDE DEF S
<1>4. S = Nat
  BY <1>1, <1>2, <1>3, AllNumbers
<1> QED BY <1>4 DEF S

\* What a loop over the first j places has done to the chunks.
OverwrittenTo(cs, cs2, place, n, new, rem, j) ==
    /\ DOMAIN cs2 = DOMAIN cs
    /\ \A k \in Nat : k < j =>
          cs2[place[k]] = [cs[place[k]] EXCEPT
                              !.data = Copy(@, new, k, LastSize(k + 1, n, rem))]
    /\ \A p \in DOMAIN cs : (\A k \in Nat : k < j => p # place[k])
                               => cs2[p] = cs[p]

LEMMA TurnsOverwrite ==
    ASSUME NEW cs, NEW place, NEW n \in Nat, NEW new, NEW rem, NEW turns,
           AreTurns(cs, place, n, new, rem, n, turns),
           \A k \in Nat : k < n => place[k] \in DOMAIN cs,
           \A k, l \in Nat : k < n /\ l < n /\ place[k] = place[l] => k = l
    PROVE  OverwrittenTo(cs, turns[n], place, n, new, rem, n)
<1> DEFINE S == {j \in Nat :
                    j <= n => OverwrittenTo(cs, turns[j], place, n, new, rem, j)}
<1>1. /\ turns[0] = cs
      /\ \A j \in Nat : j + 1 <= n =>
            turns[j + 1] = Filled(turns[j], place[j], new, j,
                                  LastSize(j + 1, n, rem))
  <2>1. turns[0] = cs
    BY DEF AreTurns
  <2>2. ASSUME NEW j \in Nat, j + 1 <= n
        PROVE  turns[j + 1] = Filled(turns[j], place[j], new, j,
                                     LastSize(j + 1, n, rem))
    <3>1. j + 1 \in 0 .. n /\ j + 1 # 0 /\ (j + 1) - 1 = j
      BY <2>2
    <3>2. \A k \in 0 .. n :
             turns[k] = IF k = 0 THEN cs
                        ELSE Filled(turns[k - 1], place[k - 1], new, k - 1,
                                    LastSize(k, n, rem))
      BY DEF AreTurns
    <3> QED BY <3>1, <3>2
  <2> QED BY <2>1, <2>2
<1>2. 0 \in S
  BY <1>1 DEF OverwrittenTo
<1>3. ASSUME NEW j \in S PROVE j + 1 \in S
  <2> SUFFICES ASSUME j + 1 <= n
               PROVE  OverwrittenTo(cs, turns[j + 1], place, n, new, rem, j + 1)
    OBVIOUS
  <2> DEFINE size == LastSize(j + 1, n, rem)
  <2>1. PICK a : a = turns[j]
    OBVIOUS
  <2>2. PICK b : b = turns[j + 1]
    OBVIOUS
  <2>3. OverwrittenTo(cs, a, place, n, new, rem, j)
    BY <2>1
  <2>4. b = With(a, place[j], [ChunkAt(a, place[j]) EXCEPT
                                !.data = Copy(@, new, j, size)])
    BY <1>1, <2>1, <2>2 DEF Filled
  <2>5. place[j] \in DOMAIN cs
    OBVIOUS
  <2>6. DOMAIN a = DOMAIN cs
    BY <2>3 DEF OverwrittenTo
  <2>7. a[place[j]] = cs[place[j]]
    BY <2>3, <2>5 DEF OverwrittenTo
  <2>8. ChunkAt(a, place[j]) = cs[place[j]]
    BY <2>5, <2>6, <2>7 DEF ChunkAt
  <2>9. DOMAIN b = DOMAIN cs
    BY <2>4, <2>5, <2>6 DEF With
  <2>10. b[place[j]] = [cs[place[j]] EXCEPT !.data = Copy(@, new, j, size)]
    BY <2>4, <2>8 DEF With
  <2>11. \A p \in DOMAIN cs : p # place[j] => b[p] = a[p]
    BY <2>4, <2>6 DEF With
  <2>12. ASSUME NEW k \in Nat, k < j + 1
         PROVE  b[place[k]] = [cs[place[k]] EXCEPT
                             !.data = Copy(@, new, k, LastSize(k + 1, n, rem))]
    <3>1. CASE k = j
      BY <2>10, <3>1
    <3>2. CASE k # j
      <4>1. k < j /\ place[k] # place[j] /\ place[k] \in DOMAIN cs
        BY <2>12, <3>2
      <4>2. b[place[k]] = a[place[k]]
        BY <2>11, <4>1
      <4>3. a[place[k]] = [cs[place[k]] EXCEPT
                             !.data = Copy(@, new, k, LastSize(k + 1, n, rem))]
        BY <2>3, <4>1 DEF OverwrittenTo
      <4> QED BY <4>2, <4>3
    <3> QED BY <3>1, <3>2
  <2>13. ASSUME NEW p \in DOMAIN cs, \A k \in Nat : k < j + 1 => p # place[k]
         PROVE  b[p] = cs[p]
    <3>1. p # place[j] /\ \A k \in Nat : k < j => p # place[k]
      BY <2>13
    <3> QED BY <2>3, <2>11, <3>1 DEF OverwrittenTo
  <2>14. OverwrittenTo(cs, b, place, n, new, rem, j + 1)
    BY <2>9, <2>12, <2>13 DEF OverwrittenTo
  <2> QED BY <2>2, <2>14
<1>4. S \in SUBSET Nat
  OBVIOUS
<1> HIDE DEF S
<1>5. S = Nat
  BY <1>2, <1>3, <1>4, AllNumbers
<1> QED BY <1>5 DEF S

\* Overwritten is such a loop.
LEMMA OverwrittenIsLoop ==
    ASSUME NEW e, NEW n \in Nat, NEW new, NEW rem, NEW place,
           place = Places(e, n),
           \A k \in Nat : k < n => place[k] \in DOMAIN chunks,
           \A k, l \in Nat : k < n /\ l < n /\ place[k] = place[l] => k = l
    PROVE  OverwrittenTo(chunks, Overwritten(e, n, new, rem), place, n, new,
                         rem, n)
<1> DEFINE turns == CHOOSE x : AreTurns(chunks, place, n, new, rem, n, x)
<1>1. Overwritten(e, n, new, rem) = turns[n]
  BY Zenon DEF Overwritten, AreTurns, Filled, LastSize
<1>2. \E x : AreTurns(chunks, place, n, new, rem, n, x)
  BY TurnsExist
<1>3. AreTurns(chunks, place, n, new, rem, n, turns)
  BY <1>2, Zenon
<1> HIDE DEF turns
<1>4. OverwrittenTo(chunks, turns[n], place, n, new, rem, n)
  BY <1>3, TurnsOverwrite
<1> QED BY <1>1, <1>4

-----------------------------------------------------------------------------
(* Sizes: how many chunks a text needs, and which bytes the last one has.  *)

LEMMA ChunkSizeIsNat == CHUNK_SIZE \in Nat /\ CHUNK_SIZE > 1
BY ConstantsAssumption

Quot(size) == size \div CHUNK_SIZE

LEMMA SizeIsCut ==
    ASSUME NEW size \in Nat
    PROVE  /\ Rem(size) \in Nat /\ Rem(size) < CHUNK_SIZE
           /\ Quot(size) \in Nat
           /\ size = Quot(size) * CHUNK_SIZE + Rem(size)
<1>1. CHUNK_SIZE \in Nat \ {0}
  BY ChunkSizeIsNat
<1>2. /\ size \div CHUNK_SIZE \in Nat
      /\ size % CHUNK_SIZE \in 0 .. CHUNK_SIZE - 1
      /\ size = (size \div CHUNK_SIZE) * CHUNK_SIZE + (size % CHUNK_SIZE)
  BY <1>1, DivMod, Zenon
<1>3. Quot(size) = size \div CHUNK_SIZE /\ Rem(size) = size % CHUNK_SIZE
  BY Zenon DEF Quot, Rem
<1>4. /\ Quot(size) \in Nat
      /\ Rem(size) \in 0 .. CHUNK_SIZE - 1
      /\ size = Quot(size) * CHUNK_SIZE + Rem(size)
  BY <1>2, <1>3, Zenon
<1>5. Rem(size) \in Nat /\ Rem(size) < CHUNK_SIZE
  BY <1>1, <1>4
<1> QED BY <1>4, <1>5

LEMMA ChunksAreNat ==
    ASSUME NEW size \in Nat
    PROVE  /\ ChunksOf(size) = Quot(size) + (IF Rem(size) # 0 THEN 1 ELSE 0)
           /\ ChunksPadded(size) = Quot(size) + 1
           /\ ChunksOf(size) \in Nat
           /\ size > 0 => ChunksOf(size) > 0
           /\ Rem(size) # 0 => ChunksOf(size) = ChunksPadded(size)
           /\ ChunksPadded(size) \in Nat \ {0}
<1>1. /\ ChunksOf(size) = Quot(size) + (IF Rem(size) # 0 THEN 1 ELSE 0)
      /\ ChunksPadded(size) = Quot(size) + 1
  BY DEF ChunksOf, ChunksPadded, Quot
<1>2. PICK q \in Nat : q = Quot(size)
  BY SizeIsCut
<1>3. size = q * CHUNK_SIZE + Rem(size) /\ Rem(size) \in Nat
  BY <1>2, SizeIsCut
<1>4. q = 0 => q * CHUNK_SIZE = 0
  BY ChunkSizeIsNat
<1>5. size > 0 => q > 0 \/ Rem(size) # 0
  BY <1>3, <1>4
<1> QED BY <1>1, <1>2, <1>3, <1>5

\* A quotient from a product and a remainder.
LEMMA QuotientIs ==
    ASSUME NEW size \in Nat, NEW q \in Nat, NEW r \in Nat, r < CHUNK_SIZE,
           size = q * CHUNK_SIZE + r
    PROVE  Quot(size) = q /\ Rem(size) = r
<1>1. PICK p \in Nat : p = Quot(size)
  BY SizeIsCut
<1>2. PICK t \in Nat : t = Rem(size)
  BY SizeIsCut
<1>3. CHUNK_SIZE \in Nat \ {0}
  BY ChunkSizeIsNat
<1>4. p * CHUNK_SIZE + t = q * CHUNK_SIZE + r /\ t < CHUNK_SIZE
  BY <1>1, <1>2, SizeIsCut
<1>5. t \in 0 .. CHUNK_SIZE - 1 /\ r \in 0 .. CHUNK_SIZE - 1
  BY <1>3, <1>4
<1>6. p = q /\ t = r
  BY <1>3, <1>4, <1>5, OneQuotient, Zenon
<1> QED BY <1>1, <1>2, <1>6

LEMMA ProductsGrow ==
    ASSUME NEW x \in Nat, NEW y \in Nat, x < y
    PROVE  /\ x * CHUNK_SIZE \in Nat /\ y * CHUNK_SIZE \in Nat
           /\ x * CHUNK_SIZE + CHUNK_SIZE <= y * CHUNK_SIZE
<1>1. y = x + 1 + (y - x - 1) /\ y - x - 1 \in Nat
  OBVIOUS
<1>2. PICK d \in Nat : d = y - x - 1
  BY <1>1
<1>3. y * CHUNK_SIZE = x * CHUNK_SIZE + CHUNK_SIZE + d * CHUNK_SIZE
  BY <1>1, <1>2, ChunkSizeIsNat
<1>4. d * CHUNK_SIZE \in Nat /\ x * CHUNK_SIZE \in Nat /\ y * CHUNK_SIZE \in Nat
  BY ProductIsNat, ChunkSizeIsNat
<1> QED BY <1>3, <1>4, ChunkSizeIsNat

\* One byte of room behind a text of full chunks, and no chunk more than
\* the loops count.
LEMMA PaddedSize ==
    ASSUME NEW size \in Nat
    PROVE  /\ Padded(size) \in Nat \ {0}
           /\ Rem(Padded(size)) # 0
           /\ ChunksOf(Padded(size)) = ChunksPadded(size)
           /\ Rem(size) # 0 => Padded(size) = size
           /\ size <= Padded(size) /\ Padded(size) <= size + 1
           /\ Padded(size) = size \/ Rem(Padded(size)) = 1
<1>1. CASE Rem(size) # 0
  <2>1. Padded(size) = size
    BY <1>1 DEF Padded
  <2>2. 0 = 0 * CHUNK_SIZE + 0 /\ 0 < CHUNK_SIZE
    BY ChunkSizeIsNat
  <2>3. Rem(0) = 0
    BY <2>2, QuotientIs
  <2>4. size # 0
    BY <1>1, <2>3
  <2> QED BY <1>1, <2>1, <2>4, ChunksAreNat
<1>2. CASE Rem(size) = 0
  <2>1. Padded(size) = size + 1
    BY <1>2 DEF Padded
  <2>2. PICK quot \in Nat : quot = Quot(size)
    BY SizeIsCut
  <2>3. size = quot * CHUNK_SIZE + 0
    BY <1>2, <2>2, SizeIsCut
  <2>4. size + 1 = quot * CHUNK_SIZE + 1 /\ 1 < CHUNK_SIZE
    BY <2>3, ProductIsNat, ChunkSizeIsNat
  <2>5. Quot(size + 1) = quot /\ Rem(size + 1) = 1
    BY <2>4, QuotientIs
  <2>6. ChunksOf(size + 1) = quot + 1
    BY <2>5, ChunksAreNat
  <2>7. ChunksPadded(size) = quot + 1
    BY <2>2, ChunksAreNat
  <2> QED BY <1>2, <2>1, <2>5, <2>6, <2>7
<1> QED BY <1>1, <1>2

LEMMA ChunksPaddedGrow ==
    ASSUME NEW a \in Nat, NEW b \in Nat, a <= b
    PROVE  ChunksPadded(a) <= ChunksPadded(b)
<1>0. PICK p \in Nat, q \in Nat : p = Quot(a) /\ q = Quot(b)
  BY SizeIsCut
<1>1. /\ a = p * CHUNK_SIZE + Rem(a)
      /\ b = q * CHUNK_SIZE + Rem(b)
      /\ Rem(a) \in Nat /\ Rem(a) < CHUNK_SIZE
      /\ Rem(b) \in Nat /\ Rem(b) < CHUNK_SIZE
  BY <1>0, SizeIsCut
<1>2. ChunksPadded(a) = p + 1 /\ ChunksPadded(b) = q + 1
  BY <1>0, ChunksAreNat
<1>3. q < p => q * CHUNK_SIZE + CHUNK_SIZE <= p * CHUNK_SIZE
  BY <1>1, ProductsGrow
<1>4. p * CHUNK_SIZE \in Nat /\ q * CHUNK_SIZE \in Nat
  BY <1>1, ProductIsNat, ChunkSizeIsNat
<1>5. ~ (q < p)
  BY <1>1, <1>3, <1>4, ChunkSizeIsNat
<1> QED BY <1>1, <1>2, <1>5

\* The j-th byte of the k-th chunk belongs to the text: its chunk is not the
\* last one, or the byte is one of the remaining ones.
LEMMA BytesOfLastChunk ==
    ASSUME NEW size \in Nat, NEW k \in Nat, NEW j \in 1 .. CHUNK_SIZE,
           k * CHUNK_SIZE + j <= size
    PROVE  /\ k < ChunksPadded(size)
           /\ k = ChunksPadded(size) - 1 => j <= Rem(size)
<1>0. PICK q \in Nat : q = Quot(size)
  BY SizeIsCut
<1>1. size = q * CHUNK_SIZE + Rem(size) /\ Rem(size) < CHUNK_SIZE
      /\ Rem(size) \in Nat
  BY <1>0, SizeIsCut
<1>2. ChunksPadded(size) = q + 1
  BY <1>0, ChunksAreNat
<1>3. q < k => q * CHUNK_SIZE + CHUNK_SIZE <= k * CHUNK_SIZE
  BY <1>1, ProductsGrow
<1>4. k * CHUNK_SIZE \in Nat /\ q * CHUNK_SIZE \in Nat
  BY <1>1, ProductIsNat, ChunkSizeIsNat
<1>5. ~ (q < k)
  BY <1>1, <1>3, <1>4, ChunkSizeIsNat
<1>6. k = q => j <= Rem(size)
  BY <1>1, <1>4
<1> QED BY <1>1, <1>2, <1>5, <1>6

-----------------------------------------------------------------------------
(* The chunks of a schema.                                                 *)

IsSum(schema, n, w) ==
    w = [k \in 0 .. n |->
            IF k = 0 THEN 0 ELSE w[k - 1] + ChunksOf(schema[k].size)]

LEMMA SumExists ==
    ASSUME NEW schema
    PROVE  \A n \in Nat : \E w : IsSum(schema, n, w)
<1> DEFINE S == {n \in Nat : \E w : IsSum(schema, n, w)}
<1>1. 0 \in S
  <2> DEFINE w == [k \in {0} |-> 0]
  <2>1. 0 .. 0 = {0}
    OBVIOUS
  <2>2. IsSum(schema, 0, w)
    BY <2>1 DEF IsSum
  <2> QED BY <2>2
<1>2. ASSUME NEW n \in S PROVE n + 1 \in S
  <2>1. PICK w : IsSum(schema, n, w)
    OBVIOUS
  <2> DEFINE v == [k \in 0 .. n + 1 |->
                      IF k = n + 1 THEN w[n] + ChunksOf(schema[n + 1].size)
                      ELSE w[k]]
  <2>2. \A k \in 0 .. n :
           w[k] = IF k = 0 THEN 0 ELSE w[k - 1] + ChunksOf(schema[k].size)
    BY <2>1 DEF IsSum
  <2>3. \A k \in 0 .. n + 1 :
           v[k] = IF k = 0 THEN 0 ELSE v[k - 1] + ChunksOf(schema[k].size)
    <3> SUFFICES ASSUME NEW k \in 0 .. n + 1
                 PROVE  v[k] = IF k = 0 THEN 0
                               ELSE v[k - 1] + ChunksOf(schema[k].size)
      OBVIOUS
    <3>1. CASE k = n + 1
      <4>1. v[k - 1] = w[n] /\ v[k] = w[n] + ChunksOf(schema[n + 1].size)
        BY <3>1
      <4> QED BY <3>1, <4>1
    <3>2. CASE k \in 1 .. n
      <4>1. v[k - 1] = w[k - 1] /\ v[k] = w[k]
        BY <3>2
      <4> QED BY <2>2, <3>2, <4>1
    <3>3. CASE k = 0
      BY <2>2, <3>3
    <3> QED BY <3>1, <3>2, <3>3
  <2>4. v = [k \in 0 .. n + 1 |-> v[k]]
    OBVIOUS
  <2> HIDE DEF v
  <2>5. IsSum(schema, n + 1, v)
    BY <2>3, <2>4 DEF IsSum
  <2> QED BY <2>5
<1>3. S \in SUBSET Nat
  OBVIOUS
<1> HIDE DEF S
<1>4. S = Nat
  BY <1>1, <1>2, <1>3, AllNumbers
<1> QED BY <1>4 DEF S

LEMMA SumsAgree ==
    ASSUME NEW schema, NEW n \in Nat, NEW v, IsSum(schema, n, v),
           NEW m \in Nat, NEW w, IsSum(schema, m, w)
    PROVE  \A k \in Nat : k <= n /\ k <= m => v[k] = w[k]
<1> DEFINE S == {k \in Nat : k <= n /\ k <= m => v[k] = w[k]}
<1>1. /\ \A k \in 0 .. n :
            v[k] = IF k = 0 THEN 0 ELSE v[k - 1] + ChunksOf(schema[k].size)
      /\ \A k \in 0 .. m :
            w[k] = IF k = 0 THEN 0 ELSE w[k - 1] + ChunksOf(schema[k].size)
  BY DEF IsSum
<1>2. 0 \in S
  BY <1>1
<1>3. ASSUME NEW k \in S PROVE k + 1 \in S
  <2> SUFFICES ASSUME k + 1 <= n, k + 1 <= m PROVE v[k + 1] = w[k + 1]
    OBVIOUS
  <2>1. v[k] = w[k]
    OBVIOUS
  <2>2. (k + 1) - 1 = k /\ k + 1 \in 0 .. n /\ k + 1 \in 0 .. m /\ k + 1 # 0
    OBVIOUS
  <2>3. v[k + 1] = v[k] + ChunksOf(schema[k + 1].size)
    BY <1>1, <2>2
  <2>4. w[k + 1] = w[k] + ChunksOf(schema[k + 1].size)
    BY <1>1, <2>2
  <2> QED BY <2>1, <2>3, <2>4
<1>4. S \in SUBSET Nat
  OBVIOUS
<1> HIDE DEF S
<1>5. S = Nat
  BY <1>2, <1>3, <1>4, AllNumbers
<1> QED BY <1>5 DEF S

LEMMA ChunksUpToSteps ==
    ASSUME NEW schema
    PROVE  /\ ChunksUpTo(schema, 0) = 0
           /\ \A k \in Nat : ChunksUpTo(schema, k + 1)
                  = ChunksUpTo(schema, k) + ChunksOf(schema[k + 1].size)
<1> DEFINE u(n) == CHOOSE x : IsSum(schema, n, x)
<1>1. \A n \in Nat : ChunksUpTo(schema, n) = u(n)[n]
  BY Zenon DEF ChunksUpTo, IsSum
<1>2. \A n \in Nat : IsSum(schema, n, u(n))
  BY SumExists, Zenon
<1> HIDE DEF u
<1>3. ASSUME NEW k \in Nat
      PROVE  /\ ChunksUpTo(schema, 0) = 0
             /\ ChunksUpTo(schema, k + 1)
                    = ChunksUpTo(schema, k) + ChunksOf(schema[k + 1].size)
  <2>1. \A j \in 0 .. k + 1 :
           u(k + 1)[j] = IF j = 0 THEN 0
                         ELSE u(k + 1)[j - 1] + ChunksOf(schema[j].size)
    BY <1>2 DEF IsSum
  <2>2. u(0)[0] = u(k + 1)[0]
    BY <1>2, SumsAgree
  <2>3. u(k)[k] = u(k + 1)[k]
    BY <1>2, SumsAgree
  <2>4. (k + 1) - 1 = k
    OBVIOUS
  <2> QED BY <1>1, <2>1, <2>2, <2>3, <2>4
<1> QED BY <1>3

\* The sum is a number and only grows.
LEMMA ChunksUpToGrows ==
    ASSUME NEW schema, \A e \in Elements : schema[e].size \in Nat
    PROVE  \A n, k \in Nat :
              n <= k /\ k <= Cardinality(Elements)
                 => /\ ChunksUpTo(schema, n) \in Nat
                    /\ ChunksUpTo(schema, k) \in Nat
                    /\ ChunksUpTo(schema, n) <= ChunksUpTo(schema, k)
<1> DEFINE c == Cardinality(Elements)
<1>1. c \in Nat /\ Elements = 1 .. c
  BY ConstantsAssumption, FS_CardinalityType
<1>2. \A k \in Nat : k < c => ChunksOf(schema[k + 1].size) \in Nat
  <2> SUFFICES ASSUME NEW k \in Nat, k < c
               PROVE  ChunksOf(schema[k + 1].size) \in Nat
    OBVIOUS
  <2>1. k + 1 \in Elements
    BY <1>1
  <2> QED BY <2>1, ChunksAreNat
<1> HIDE DEF c
<1> DEFINE S == {k \in Nat : k <= c =>
                    /\ ChunksUpTo(schema, k) \in Nat
                    /\ \A n \in Nat : n <= k =>
                          /\ ChunksUpTo(schema, n) \in Nat
                          /\ ChunksUpTo(schema, n) <= ChunksUpTo(schema, k)}
<1>3. 0 \in S
  BY ChunksUpToSteps
<1>4. ASSUME NEW k \in S PROVE k + 1 \in S
  <2> SUFFICES ASSUME k + 1 <= c
               PROVE  /\ ChunksUpTo(schema, k + 1) \in Nat
                      /\ \A n \in Nat : n <= k + 1 =>
                            /\ ChunksUpTo(schema, n) \in Nat
                            /\ ChunksUpTo(schema, n) <= ChunksUpTo(schema, k + 1)
    OBVIOUS
  <2>1. k < c
    BY <1>1
  <2>2. ChunksUpTo(schema, k + 1)
           = ChunksUpTo(schema, k) + ChunksOf(schema[k + 1].size)
    BY ChunksUpToSteps
  <2>3. ChunksUpTo(schema, k) \in Nat /\ ChunksOf(schema[k + 1].size) \in Nat
    BY <1>1, <1>2, <2>1
  <2>4. \A n \in Nat : n <= k + 1 => n <= k \/ n = k + 1
    OBVIOUS
  <2>5. \A n \in Nat : n <= k =>
           /\ ChunksUpTo(schema, n) \in Nat
           /\ ChunksUpTo(schema, n) <= ChunksUpTo(schema, k)
    BY <1>1, <2>1
  <2> QED BY <2>2, <2>3, <2>4, <2>5
<1>5. S \in SUBSET Nat
  OBVIOUS
<1> HIDE DEF S
<1>6. S = Nat
  BY <1>3, <1>4, <1>5, AllNumbers
<1>7. \A k \in Nat : k \in S
  BY <1>6
<1> QED BY <1>7 DEF S, c

-----------------------------------------------------------------------------
(* Appending.                                                              *)

\* A chunk is a record; how the code declares it.
IsChunk(c) == c = [data |-> c.data, toastIndex |-> c.toastIndex,
                   nextOffset |-> c.nextOffset]

NewChunk(t, used, n, new, from, rem, next, k) ==
    [data |-> Copy(ZeroData, new, from + k, LastSize(k + 1, n, rem)),
     toastIndex |-> IF k = n - 1 THEN next ELSE t,
     nextOffset |-> IF k = n - 1 THEN 0 ELSE used + k + 1]

\* What cs has become when n chunks are written behind the used ones of t.
IsAppended(cs, cs2, t, used, n, new, from, rem, next) ==
    /\ \A k \in Nat : k < n =>
          /\ <<t, used + k>> \in DOMAIN cs2
          /\ cs2[<<t, used + k>>]
                = NewChunk(t, used, n, new, from, rem, next, k)
    /\ DOMAIN cs \subseteq DOMAIN cs2
    /\ \A p \in DOMAIN cs2 :
          p \in DOMAIN cs \/ \E k \in Nat : k < n /\ p = <<t, used + k>>
    /\ \A p \in DOMAIN cs :
          (\A k \in Nat : k < n => p # <<t, used + k>>) => cs2[p] = cs[p]

LEMMA AppendedIs ==
    ASSUME NEW cs, NEW t, NEW used \in Nat, NEW n \in Nat, NEW new,
           NEW from \in Nat, NEW rem, NEW next, NEW cs2,
           cs2 = Appended(cs, t, used, n, new, from, rem, next)
    PROVE  IsAppended(cs, cs2, t, used, n, new, from, rem, next)
<1> DEFINE places == {t} \X (used .. used + n - 1)
           C(k) == [data |-> Copy(ZeroData, new, from + k,
                                  IF k = n - 1 THEN rem ELSE CHUNK_SIZE),
                    toastIndex |-> IF k = n - 1 THEN next ELSE t,
                    nextOffset |-> IF k = n - 1 THEN 0 ELSE used + k + 1]
<1>1. cs2 = [p \in DOMAIN cs \cup places |->
                IF p \in places THEN C(p[2] - used) ELSE cs[p]]
  BY DEF Appended
<1>2. \A k \in Nat : k < n =>
         /\ <<t, used + k>> \in places
         /\ <<t, used + k>>[2] - used = k
  OBVIOUS
<1>3. \A p \in places : \E k \in Nat : k < n /\ p = <<t, used + k>>
  <2> SUFFICES ASSUME NEW p \in places
               PROVE  \E k \in Nat : k < n /\ p = <<t, used + k>>
    OBVIOUS
  <2>1. PICK o \in used .. used + n - 1 : p = <<t, o>>
    OBVIOUS
  <2>2. o - used \in Nat /\ o - used < n /\ used + (o - used) = o
    OBVIOUS
  <2> QED BY <2>1, <2>2
<1>4. \A k \in Nat : k < n => (k = n - 1 <=> k + 1 = n)
  OBVIOUS
<1>5. \A k \in Nat : k < n =>
         C(k) = NewChunk(t, used, n, new, from, rem, next, k)
  BY <1>4 DEF LastSize, NewChunk
<1> HIDE DEF places, C
<1>6. ASSUME NEW k \in Nat, k < n
      PROVE  <<t, used + k>> \in DOMAIN cs2 /\ cs2[<<t, used + k>>] = C(k)
  BY <1>1, <1>2, <1>6
<1>7. \A p \in DOMAIN cs : p \notin places => cs2[p] = cs[p]
  BY <1>1
<1>8. DOMAIN cs2 = DOMAIN cs \cup places
  BY <1>1
<1>9. \A p \in DOMAIN cs : (\A k \in Nat : k < n => p # <<t, used + k>>)
                 => cs2[p] = cs[p]
  BY <1>3, <1>7
<1>10. \A p \in DOMAIN cs2 : p \in DOMAIN cs
                 \/ \E k \in Nat : k < n /\ p = <<t, used + k>>
  BY <1>3, <1>8
<1>11. \A k \in Nat : k < n =>
         /\ <<t, used + k>> \in DOMAIN cs2
         /\ cs2[<<t, used + k>>] =
               NewChunk(t, used, n, new, from, rem, next, k)
  BY <1>5, <1>6
<1> QED BY <1>8, <1>9, <1>10, <1>11 DEF IsAppended

LEMMA CopiedByte ==
    ASSUME NEW data, NEW text, NEW k, NEW n, NEW j \in 1 .. CHUNK_SIZE, j <= n
    PROVE  Copy(data, text, k, n)[j] = ByteOf(text, k * CHUNK_SIZE + j)
BY DEF Copy

-----------------------------------------------------------------------------
(* The texts of a document as chains that never meet.                      *)

Start(fc, e) == <<1, fc[e].offsetInToast>>

Count(fc, e) == ChunksOf(fc[e].size)

Apart(cs, fc, D) ==
    \A e, f \in D : \A k, l \in Nat :
        k < Count(fc, e) /\ l < Count(fc, f) =>
            /\ At(cs, Start(fc, e), k) \in DOMAIN cs
            /\ At(cs, Start(fc, e), k) = At(cs, Start(fc, f), l)
                  => e = f /\ k = l

\* The chunks on a path of n places hold a text.
PathHolds(cs, path, n, text) ==
    \A k \in Nat, j \in 1 .. CHUNK_SIZE :
        k < n /\ k * CHUNK_SIZE + j <= text.size
            => cs[path[k]].data[j] = ByteOf(text, k * CHUNK_SIZE + j)

ChainHolds(cs, start, n, text) ==
    \A k \in Nat, j \in 1 .. CHUNK_SIZE :
        k < n /\ k * CHUNK_SIZE + j <= text.size
            => cs[At(cs, start, k)].data[j] = ByteOf(text, k * CHUNK_SIZE + j)

AllHeld(cs, fc, tx, D) ==
    \A f \in D : ChainHolds(cs, Start(fc, f), Count(fc, f), tx[f])

\* Where no chunk of a chain changes, the chain stays.
SameChunks(cs, cs2, start, n) ==
    \A k \in Nat : k < n => /\ At(cs, start, k) \in DOMAIN cs
                            /\ At(cs, start, k) \in DOMAIN cs2
                            /\ cs2[At(cs, start, k)] = cs[At(cs, start, k)]

SameChains(cs, cs2, start, n) ==
    \A k \in Nat : k < n => At(cs2, start, k) = At(cs, start, k)

LEMMA ChainStays ==
    ASSUME NEW cs, NEW cs2, NEW start, NEW n \in Nat,
           SameChunks(cs, cs2, start, n)
    PROVE  SameChains(cs, cs2, start, n)
<1> DEFINE path == [k \in Nat |-> At(cs, start, k)]
<1>1. path[0] = start
  BY AtSteps
<1>2. ASSUME NEW k \in Nat, k + 1 < n
      PROVE  path[k + 1] = LinkFrom(cs2, path[k])
  <2>1. path[k] = At(cs, start, k)
    OBVIOUS
  <2>2. path[k + 1] = LinkFrom(cs, path[k])
    BY AtSteps
  <2>3. k < n
    BY <1>2
  <2>4. ChunkAt(cs2, path[k]) = ChunkAt(cs, path[k])
    BY <2>1, <2>3 DEF ChunkAt, SameChunks
  <2> QED BY <2>2, <2>4 DEF LinkFrom
<1>3. \A k \in Nat : path[k] = At(cs, start, k)
  OBVIOUS
<1> HIDE DEF path
<1>4. IsChainOf(cs2, start, n, path)
  BY <1>1, <1>2, PathIsChain DEF IsPath
<1> QED BY <1>3, <1>4 DEF IsChainOf, SameChains

\* One text is written anew along a path that keeps clear of the others.
LEMMA OneTextChanges ==
    ASSUME NEW cs, NEW cs2, NEW fc, NEW fc2, NEW tx, NEW tx2, NEW D, NEW e,
           NEW path, NEW m \in Nat,
           e \notin D,
           Apart(cs, fc, D), AllHeld(cs, fc, tx, D),
           \A f \in D : /\ fc2[f] = fc[f] /\ tx2[f] = tx[f]
                        /\ Count(fc, f) \in Nat,
           \A f \in D : \A l \in Nat : l < Count(fc, f) =>
               /\ At(cs, Start(fc, f), l) \in DOMAIN cs2
               /\ cs2[At(cs, Start(fc, f), l)] = cs[At(cs, Start(fc, f), l)]
               /\ \A k \in Nat : k < m => path[k] # At(cs, Start(fc, f), l),
           m = Count(fc2, e), IsPath(cs2, Start(fc2, e), m, path),
           \A k \in Nat : k < m => path[k] \in DOMAIN cs2,
           \A k, l \in Nat : k < m /\ l < m /\ path[k] = path[l] => k = l,
           PathHolds(cs2, path, m, tx2[e])
    PROVE  Apart(cs2, fc2, D \cup {e}) /\ AllHeld(cs2, fc2, tx2, D \cup {e})
<1>1. \A k \in Nat : k < m => At(cs2, Start(fc2, e), k) = path[k]
  BY PathIsChain DEF IsChainOf
<1>2. ASSUME NEW f \in D
      PROVE  /\ Start(fc2, f) = Start(fc, f)
             /\ Count(fc2, f) = Count(fc, f)
  BY Zenon DEF Start, Count
<1>3. ASSUME NEW f \in D
      PROVE  \A l \in Nat : l < Count(fc, f) =>
                At(cs2, Start(fc, f), l) = At(cs, Start(fc, f), l)
  <2>1. \A l \in Nat : l < Count(fc, f) => At(cs, Start(fc, f), l) \in DOMAIN cs
    BY DEF Apart
  <2>2. Count(fc, f) \in Nat
    OBVIOUS
  <2>3. PICK s : s = Start(fc, f)
    OBVIOUS
  <2>4. PICK n \in Nat : n = Count(fc, f)
    BY <2>2
  <2>5. SameChunks(cs, cs2, s, n)
    BY <2>1, <2>3, <2>4 DEF SameChunks
  <2>6. SameChains(cs, cs2, s, n)
    BY <2>5, ChainStays
  <2> QED BY <2>3, <2>4, <2>6 DEF SameChains
<1>4. ASSUME NEW f \in D \cup {e}, NEW g \in D \cup {e},
             NEW k \in Nat, NEW l \in Nat,
             k < Count(fc2, f), l < Count(fc2, g)
      PROVE  /\ At(cs2, Start(fc2, f), k) \in DOMAIN cs2
             /\ At(cs2, Start(fc2, f), k) = At(cs2, Start(fc2, g), l)
                   => f = g /\ k = l
  <2>1. CASE f = e /\ g = e
    BY <1>1, <1>4, <2>1
  <2>2. CASE f = e /\ g \in D
    <3>1. At(cs2, Start(fc2, f), k) = path[k] /\ k < m
      BY <1>1, <1>4, <2>2
    <3>2. At(cs2, Start(fc2, g), l) = At(cs, Start(fc, g), l) /\ l < Count(fc, g)
      BY <1>2, <1>3, <1>4, <2>2
    <3>3. path[k] # At(cs, Start(fc, g), l)
      BY <2>2, <3>1, <3>2
    <3> QED BY <3>1, <3>2, <3>3
  <2>3. CASE f \in D /\ g = e
    <3>1. At(cs2, Start(fc2, g), l) = path[l] /\ l < m
      BY <1>1, <1>4, <2>3
    <3>2. At(cs2, Start(fc2, f), k) = At(cs, Start(fc, f), k) /\ k < Count(fc, f)
      BY <1>2, <1>3, <1>4, <2>3
    <3>3. /\ path[l] # At(cs, Start(fc, f), k)
          /\ At(cs, Start(fc, f), k) \in DOMAIN cs2
      BY <2>3, <3>1, <3>2
    <3> QED BY <3>1, <3>2, <3>3
  <2>4. CASE f \in D /\ g \in D
    <3>1. At(cs2, Start(fc2, f), k) = At(cs, Start(fc, f), k) /\ k < Count(fc, f)
      BY <1>2, <1>3, <1>4, <2>4
    <3>2. At(cs2, Start(fc2, g), l) = At(cs, Start(fc, g), l) /\ l < Count(fc, g)
      BY <1>2, <1>3, <1>4, <2>4
    <3>3. At(cs, Start(fc, f), k) \in DOMAIN cs2
      BY <2>4, <3>1
    <3>4. At(cs, Start(fc, f), k) = At(cs, Start(fc, g), l) => f = g /\ k = l
      BY <2>4, <3>1, <3>2 DEF Apart
    <3> QED BY <3>1, <3>2, <3>3, <3>4
  <2> QED BY <2>1, <2>2, <2>3, <2>4
<1>5. ASSUME NEW f \in D \cup {e}
      PROVE  ChainHolds(cs2, Start(fc2, f), Count(fc2, f), tx2[f])
  <2>1. CASE f = e
    BY <1>1, <2>1 DEF ChainHolds, PathHolds
  <2>2. CASE f \in D
    <3> SUFFICES ASSUME NEW k \in Nat, NEW j \in 1 .. CHUNK_SIZE,
                        k < Count(fc, f), k * CHUNK_SIZE + j <= tx[f].size
                 PROVE  cs2[At(cs2, Start(fc, f), k)].data[j]
                           = ByteOf(tx[f], k * CHUNK_SIZE + j)
      BY <1>2, <2>2 DEF ChainHolds
    <3>1. At(cs2, Start(fc, f), k) = At(cs, Start(fc, f), k)
      BY <1>3, <2>2
    <3>2. cs2[At(cs, Start(fc, f), k)] = cs[At(cs, Start(fc, f), k)]
      BY <2>2
    <3>3. cs[At(cs, Start(fc, f), k)].data[j]
             = ByteOf(tx[f], k * CHUNK_SIZE + j)
      BY <2>2 DEF AllHeld, ChainHolds
    <3> QED BY <3>1, <3>2, <3>3
  <2> QED BY <2>1, <2>2
<1> QED BY <1>4, <1>5 DEF Apart, AllHeld

-----------------------------------------------------------------------------
(* The invariant's parts about chunks, told of chains.                     *)

\* The i-th byte is the j-th of the k-th chunk.
LEMMA ByteIndex ==
    /\ \A k \in Nat, j \in 1 .. CHUNK_SIZE :
          /\ k * CHUNK_SIZE + j \in Nat \ {0}
          /\ Quot((k * CHUNK_SIZE + j) - 1) = k
          /\ Rem((k * CHUNK_SIZE + j) - 1) + 1 = j
    /\ \A i \in Nat \ {0} :
          /\ Quot(i - 1) \in Nat /\ Rem(i - 1) + 1 \in 1 .. CHUNK_SIZE
          /\ Quot(i - 1) * CHUNK_SIZE + (Rem(i - 1) + 1) = i
<1>1. ASSUME NEW k \in Nat, NEW j \in 1 .. CHUNK_SIZE
      PROVE  /\ k * CHUNK_SIZE + j \in Nat \ {0}
             /\ Quot((k * CHUNK_SIZE + j) - 1) = k
             /\ Rem((k * CHUNK_SIZE + j) - 1) + 1 = j
  <2>1. PICK p \in Nat : p = k * CHUNK_SIZE
    BY ProductIsNat, ChunkSizeIsNat
  <2>2. PICK s \in Nat : s = p + j - 1
    BY <2>1, ChunkSizeIsNat
  <2>3. PICK r \in Nat : r = j - 1
    BY ChunkSizeIsNat
  <2>4. r < CHUNK_SIZE /\ s = k * CHUNK_SIZE + r
    BY <2>1, <2>2, <2>3, ChunkSizeIsNat
  <2>5. Quot(s) = k /\ Rem(s) = r
    BY <2>4, QuotientIs
  <2>6. (k * CHUNK_SIZE + j) - 1 = s
    BY <2>1, <2>2
  <2>7. p + j \in Nat \ {0}
    BY ChunkSizeIsNat
  <2>8. r + 1 = j
    BY <2>3, ChunkSizeIsNat
  <2> QED BY <2>1, <2>5, <2>6, <2>7, <2>8
<1>2. ASSUME NEW i \in Nat \ {0}
      PROVE  /\ Quot(i - 1) \in Nat /\ Rem(i - 1) + 1 \in 1 .. CHUNK_SIZE
             /\ Quot(i - 1) * CHUNK_SIZE + (Rem(i - 1) + 1) = i
  <2>1. PICK s \in Nat : s = i - 1
    OBVIOUS
  <2>2. PICK q \in Nat, r \in Nat : q = Quot(s) /\ r = Rem(s)
    BY SizeIsCut
  <2>3. r < CHUNK_SIZE /\ s = q * CHUNK_SIZE + r
    BY <2>2, SizeIsCut
  <2>4. PICK p \in Nat : p = q * CHUNK_SIZE
    BY ProductIsNat, ChunkSizeIsNat
  <2>5. p + (r + 1) = i
    BY <2>1, <2>3, <2>4
  <2>6. r + 1 \in 1 .. CHUNK_SIZE
    BY <2>3, ChunkSizeIsNat
  <2> QED BY <2>1, <2>2, <2>4, <2>5, <2>6
<1> QED BY <1>1, <1>2

HeldByByte(cs, start, text) ==
    \A i \in 1 .. text.size :
        cs[At(cs, start, (i - 1) \div CHUNK_SIZE)]
            .data[((i - 1) % CHUNK_SIZE) + 1] = ByteOf(text, i)

LEMMA ByteByByte ==
    ASSUME NEW cs, NEW start, NEW text, text.size \in Nat,
           NEW n, n = ChunksPadded(text.size)
    PROVE  HeldByByte(cs, start, text) <=> ChainHolds(cs, start, n, text)
<1> DEFINE Byte(k, j) == cs[At(cs, start, k)].data[j]
<1>1. HeldByByte(cs, start, text)
         <=> \A i \in 1 .. text.size :
                Byte(Quot(i - 1), Rem(i - 1) + 1) = ByteOf(text, i)
  BY Zenon DEF HeldByByte, Quot, Rem
<1>2. ChainHolds(cs, start, n, text)
         <=> \A k \in Nat, j \in 1 .. CHUNK_SIZE :
                k < n /\ k * CHUNK_SIZE + j <= text.size
                   => Byte(k, j) = ByteOf(text, k * CHUNK_SIZE + j)
  BY Zenon DEF ChainHolds
<1> HIDE DEF Byte
<1>3. ASSUME \A i \in 1 .. text.size :
                Byte(Quot(i - 1), Rem(i - 1) + 1) = ByteOf(text, i),
             NEW k \in Nat, NEW j \in 1 .. CHUNK_SIZE,
             k * CHUNK_SIZE + j <= text.size
      PROVE  Byte(k, j) = ByteOf(text, k * CHUNK_SIZE + j)
  <2> DEFINE i == k * CHUNK_SIZE + j
  <2>1. i \in Nat \ {0} /\ i <= text.size
    BY <1>3, ByteIndex, Zenon
  <2>2. Quot(i - 1) = k /\ Rem(i - 1) + 1 = j
    BY ByteIndex, Zenon
  <2> HIDE DEF i
  <2>3. i \in 1 .. text.size
    BY <2>1
  <2>4. Byte(Quot(i - 1), Rem(i - 1) + 1) = ByteOf(text, i)
    BY <1>3, <2>3
  <2>5. Byte(k, j) = ByteOf(text, i)
    BY <2>2, <2>4
  <2> QED BY <2>5 DEF i
<1>4. ASSUME \A k \in Nat, j \in 1 .. CHUNK_SIZE :
                k < n /\ k * CHUNK_SIZE + j <= text.size
                   => Byte(k, j) = ByteOf(text, k * CHUNK_SIZE + j),
             NEW i \in 1 .. text.size
      PROVE  Byte(Quot(i - 1), Rem(i - 1) + 1) = ByteOf(text, i)
  <2>0. i \in Nat \ {0}
    OBVIOUS
  <2>1. PICK k \in Nat, j \in 1 .. CHUNK_SIZE :
           k = Quot(i - 1) /\ j = Rem(i - 1) + 1 /\ k * CHUNK_SIZE + j = i
    BY <2>0, ByteIndex, Zenon
  <2>2. PICK s \in Nat : s = text.size
    OBVIOUS
  <2>3. k < n
    BY <2>1, <2>2, BytesOfLastChunk
  <2>4. Byte(k, j) = ByteOf(text, i)
    BY <1>4, <2>1, <2>3
  <2> QED BY <2>1, <2>4
<1> QED BY <1>1, <1>2, <1>3, <1>4

\* Sizes with room for the terminator, and as many chunks as they need.
Sized(fc, tx) ==
    \A e \in DOMAIN fc : /\ tx[e].size \in Nat
                         /\ Count(fc, e) = ChunksPadded(tx[e].size)
                         /\ Count(fc, e) \in Nat \ {0}

LEMMA PlaceOfIsAt ==
    ASSUME NEW e, Count(firstChunk, e) \in Nat \ {0}
    PROVE  \A k \in Nat : k < Count(firstChunk, e) =>
              PlaceOf(e, k) = At(chunks, Start(firstChunk, e), k)
<1>1. PICK n \in Nat \ {0} : n = Count(firstChunk, e)
  OBVIOUS
<1>2. \A k \in 0 .. n - 1 :
         Places(e, n)[k] = At(chunks, <<1, firstChunk[e].offsetInToast>>, k)
  BY PlacesAreOnChain
<1> QED BY <1>1, <1>2 DEF PlaceOf, Count, Start

LEMMA PlaceOfIsAtNext ==
    ASSUME NEW e, Count(firstChunk', e) \in Nat \ {0}
    PROVE  \A k \in Nat : k < Count(firstChunk', e) =>
              PlaceOf(e, k)' = At(chunks', Start(firstChunk', e), k)
<1>1. PICK n \in Nat \ {0} : n = Count(firstChunk', e)
  OBVIOUS
<1>2. \A k \in 0 .. n - 1 :
         Places(e, n)'[k] = At(chunks', <<1, firstChunk'[e].offsetInToast>>, k)
  BY PlacesAreOnNextChain
<1>3. \A k : PlaceOf(e, k)' = Places(e, n)'[k]
  BY <1>1, Zenon DEF PlaceOf, Count, Places
<1> QED BY <1>1, <1>2, <1>3 DEF Start

LEMMA LayoutSeen ==
    ASSUME Sized(firstChunk, texts), ChainsAreDisjoint, ChunksHoldTexts
    PROVE  /\ Apart(chunks, firstChunk, DOMAIN firstChunk)
           /\ AllHeld(chunks, firstChunk, texts, DOMAIN firstChunk)
<1>1. ASSUME NEW e \in DOMAIN firstChunk
      PROVE  /\ Count(firstChunk, e) \in Nat \ {0}
             /\ Positions(e) = {k \in Nat : k < Count(firstChunk, e)}
             /\ \A k \in Nat : k < Count(firstChunk, e) =>
                   PlaceOf(e, k) = At(chunks, Start(firstChunk, e), k)
  <2>1. Count(firstChunk, e) \in Nat \ {0}
    BY DEF Sized
  <2>2. PICK n \in Nat \ {0} : n = Count(firstChunk, e)
    BY <2>1
  <2>3. Positions(e) = {k \in Nat : k < n}
    BY <2>2 DEF Positions, Count
  <2> QED BY <2>1, <2>2, <2>3, PlaceOfIsAt
<1>2. ASSUME NEW e \in DOMAIN firstChunk, NEW f \in DOMAIN firstChunk,
             NEW k \in Nat, NEW l \in Nat,
             k < Count(firstChunk, e), l < Count(firstChunk, f)
      PROVE  /\ At(chunks, Start(firstChunk, e), k) \in DOMAIN chunks
             /\ At(chunks, Start(firstChunk, e), k)
                   = At(chunks, Start(firstChunk, f), l) => e = f /\ k = l
  <2>1. k \in Positions(e) /\ l \in Positions(f)
    BY <1>1, <1>2
  <2>2. /\ PlaceOf(e, k) \in DOMAIN chunks
        /\ PlaceOf(e, k) = PlaceOf(f, l) => e = f /\ k = l
    BY <2>1 DEF ChainsAreDisjoint
  <2> QED BY <1>1, <1>2, <2>2
<1>3. ASSUME NEW e \in DOMAIN firstChunk
      PROVE  ChainHolds(chunks, Start(firstChunk, e), Count(firstChunk, e),
                        texts[e])
  <2>1. PICK text : text = texts[e]
    OBVIOUS
  <2>2. text.size \in Nat /\ Count(firstChunk, e) = ChunksPadded(text.size)
    BY <2>1 DEF Sized
  <2>3. ASSUME NEW i \in 1 .. text.size
        PROVE  chunks[At(chunks, Start(firstChunk, e), (i - 1) \div CHUNK_SIZE)]
                  .data[((i - 1) % CHUNK_SIZE) + 1] = ByteOf(text, i)
    <3>1. i \in Nat \ {0} /\ i <= text.size
      BY <2>2
    <3>2. PICK k \in Nat, j \in 1 .. CHUNK_SIZE :
             k = Quot(i - 1) /\ j = Rem(i - 1) + 1 /\ k * CHUNK_SIZE + j = i
      BY <3>1, ByteIndex, Zenon
    <3>3. PICK s \in Nat : s = text.size
      BY <2>2
    <3>4. k < Count(firstChunk, e)
      BY <2>2, <3>1, <3>2, <3>3, BytesOfLastChunk
    <3>5. PlaceOf(e, k) = At(chunks, Start(firstChunk, e), k)
      BY <1>1, <3>4
    <3>6. k = (i - 1) \div CHUNK_SIZE
      BY <3>2, Zenon DEF Quot
    <3>7. chunks[PlaceOf(e, (i - 1) \div CHUNK_SIZE)]
                  .data[((i - 1) % CHUNK_SIZE) + 1] = ByteOf(text, i)
      BY <2>1, Zenon DEF ChunksHoldTexts
    <3> QED BY <3>5, <3>6, <3>7, Zenon
  <2>4. HeldByByte(chunks, Start(firstChunk, e), text)
    BY <2>3, Zenon DEF HeldByByte
  <2>5. PICK n : n = Count(firstChunk, e)
    OBVIOUS
  <2>6. ChainHolds(chunks, Start(firstChunk, e), n, text)
    BY <2>2, <2>4, <2>5, ByteByByte
  <2> QED BY <2>1, <2>5, <2>6
<1> QED BY <1>2, <1>3 DEF Apart, AllHeld

LEMMA LayoutSeenNext ==
    ASSUME Sized(firstChunk', texts'),
           Apart(chunks', firstChunk', DOMAIN firstChunk'),
           AllHeld(chunks', firstChunk', texts', DOMAIN firstChunk')
    PROVE  ChainsAreDisjoint' /\ ChunksHoldTexts'
<1>1. ASSUME NEW e \in DOMAIN firstChunk'
      PROVE  /\ Count(firstChunk', e) \in Nat \ {0}
             /\ Positions(e)' = {k \in Nat : k < Count(firstChunk', e)}
             /\ \A k \in Nat : k < Count(firstChunk', e) =>
                   PlaceOf(e, k)' = At(chunks', Start(firstChunk', e), k)
  <2>1. Count(firstChunk', e) \in Nat \ {0}
    BY DEF Sized
  <2>2. PICK n \in Nat \ {0} : n = Count(firstChunk', e)
    BY <2>1
  <2>3. Positions(e)' = {k \in Nat : k < n}
    BY <2>2 DEF Positions, Count
  <2> QED BY <2>1, <2>2, <2>3, PlaceOfIsAtNext
<1>2. ASSUME NEW e \in DOMAIN firstChunk', NEW f \in DOMAIN firstChunk',
             NEW k \in Positions(e)', NEW l \in Positions(f)'
      PROVE  /\ PlaceOf(e, k)' \in DOMAIN chunks'
             /\ PlaceOf(e, k)' = PlaceOf(f, l)' => e = f /\ k = l
  <2>1. /\ k \in Nat /\ k < Count(firstChunk', e)
        /\ l \in Nat /\ l < Count(firstChunk', f)
    BY <1>1
  <2>2. /\ At(chunks', Start(firstChunk', e), k) \in DOMAIN chunks'
        /\ At(chunks', Start(firstChunk', e), k)
              = At(chunks', Start(firstChunk', f), l) => e = f /\ k = l
    BY <2>1 DEF Apart
  <2> QED BY <1>1, <2>1, <2>2
<1>3. ChainsAreDisjoint'
  BY <1>2 DEF ChainsAreDisjoint
<1>4. ASSUME NEW e \in DOMAIN firstChunk', NEW i \in 1 .. texts'[e].size
      PROVE  chunks'[PlaceOf(e, (i - 1) \div CHUNK_SIZE)']
                .data[((i - 1) % CHUNK_SIZE) + 1] = ByteOf(texts'[e], i)
  <2>1. PICK text : text = texts'[e]
    OBVIOUS
  <2>2. text.size \in Nat /\ Count(firstChunk', e) = ChunksPadded(text.size)
    BY <2>1 DEF Sized
  <2>3. PICK n : n = Count(firstChunk', e)
    OBVIOUS
  <2>4. ChainHolds(chunks', Start(firstChunk', e), n, text)
    BY <2>1, <2>3 DEF AllHeld
  <2>5. HeldByByte(chunks', Start(firstChunk', e), text)
    BY <2>2, <2>3, <2>4, ByteByByte
  <2>6. i \in 1 .. text.size
    BY <2>1
  <2>7. chunks'[At(chunks', Start(firstChunk', e), (i - 1) \div CHUNK_SIZE)]
                .data[((i - 1) % CHUNK_SIZE) + 1] = ByteOf(text, i)
    BY <2>5, <2>6, Zenon DEF HeldByByte
  <2>8. i \in Nat \ {0} /\ i <= text.size
    BY <2>2, <2>6
  <2>9. PICK k \in Nat, j \in 1 .. CHUNK_SIZE :
           k = Quot(i - 1) /\ j = Rem(i - 1) + 1 /\ k * CHUNK_SIZE + j = i
    BY <2>8, ByteIndex, Zenon
  <2>10. PICK s \in Nat : s = text.size
    BY <2>2
  <2>11. k < Count(firstChunk', e)
    BY <2>2, <2>8, <2>9, <2>10, BytesOfLastChunk
  <2>12. PlaceOf(e, k)' = At(chunks', Start(firstChunk', e), k)
    BY <1>1, <2>11
  <2>13. k = (i - 1) \div CHUNK_SIZE
    BY <2>9, Zenon DEF Quot
  <2> QED BY <2>1, <2>7, <2>12, <2>13, Zenon
<1>5. ChunksHoldTexts'
  BY <1>4, Zenon DEF ChunksHoldTexts
<1> QED BY <1>3, <1>5

-----------------------------------------------------------------------------
(* What the loops of an update do to a chain.                              *)

\* A loop over n places copies text into their chunks and changes no link.
KeepsLinks(cs, cs2, place, n, text, rem) ==
    /\ DOMAIN cs2 = DOMAIN cs
    /\ \A p \in DOMAIN cs : /\ IsChunk(cs2[p])
                            /\ cs2[p].toastIndex = cs[p].toastIndex
                            /\ cs2[p].nextOffset = cs[p].nextOffset
    /\ \A k \in Nat : k < n =>
          cs2[place[k]].data = Copy(cs[place[k]].data, text, k,
                                    LastSize(k + 1, n, rem))
    /\ \A p \in DOMAIN cs :
          (\A k \in Nat : k < n => p # place[k]) => cs2[p] = cs[p]

LEMMA OverwritingKeepsLinks ==
    ASSUME NEW cs, NEW cs2, NEW place, NEW n \in Nat, NEW new, NEW rem,
           OverwrittenTo(cs, cs2, place, n, new, rem, n),
           \A k \in Nat : k < n => place[k] \in DOMAIN cs,
           \A p \in DOMAIN cs : IsChunk(cs[p])
    PROVE  KeepsLinks(cs, cs2, place, n, new, rem)
<1>1. ASSUME NEW k \in Nat, k < n
      PROVE  /\ IsChunk(cs2[place[k]])
             /\ cs2[place[k]].toastIndex = cs[place[k]].toastIndex
             /\ cs2[place[k]].nextOffset = cs[place[k]].nextOffset
             /\ cs2[place[k]].data = Copy(cs[place[k]].data, new, k,
                                          LastSize(k + 1, n, rem))
  <2>1. PICK c : c = cs[place[k]]
    OBVIOUS
  <2>2. PICK data : data = Copy(c.data, new, k, LastSize(k + 1, n, rem))
    OBVIOUS
  <2>3. cs2[place[k]] = [c EXCEPT !.data = data]
    BY <1>1, <2>1, <2>2 DEF OverwrittenTo
  <2>4. c = [data |-> c.data, toastIndex |-> c.toastIndex,
             nextOffset |-> c.nextOffset]
    BY <1>1, <2>1 DEF IsChunk
  <2>5. [c EXCEPT !.data = data]
           = [data |-> data, toastIndex |-> c.toastIndex,
              nextOffset |-> c.nextOffset]
    BY <2>4
  <2> QED BY <2>1, <2>2, <2>3, <2>5 DEF IsChunk
<1>2. \A p \in DOMAIN cs :
         (\A k \in Nat : k < n => p # place[k]) => cs2[p] = cs[p]
  BY DEF OverwrittenTo
<1>3. \A p \in DOMAIN cs : /\ IsChunk(cs2[p])
                           /\ cs2[p].toastIndex = cs[p].toastIndex
                           /\ cs2[p].nextOffset = cs[p].nextOffset
  <2> SUFFICES ASSUME NEW p \in DOMAIN cs
               PROVE  /\ IsChunk(cs2[p])
                      /\ cs2[p].toastIndex = cs[p].toastIndex
                      /\ cs2[p].nextOffset = cs[p].nextOffset
    OBVIOUS
  <2>1. CASE \E k \in Nat : k < n /\ p = place[k]
    BY <1>1, <2>1
  <2>2. CASE \A k \in Nat : k < n => p # place[k]
    BY <1>2, <2>2
  <2> QED BY <2>1, <2>2
<1> QED BY <1>1, <1>2, <1>3 DEF OverwrittenTo, KeepsLinks

\* The bytes a loop over n chunks copies are those of the text.
LEMMA LoopCopiesText ==
    ASSUME NEW text, text.size \in Nat, NEW data, NEW n,
           n = ChunksPadded(text.size), NEW k \in Nat,
           NEW j \in 1 .. CHUNK_SIZE, k * CHUNK_SIZE + j <= text.size
    PROVE  Copy(data, text, k, LastSize(k + 1, n, Rem(text.size)))[j]
              = ByteOf(text, k * CHUNK_SIZE + j)
<1>1. PICK s \in Nat : s = text.size
  OBVIOUS
<1>2. n \in Nat \ {0}
  BY <1>1, ChunksAreNat
<1>3. k = n - 1 => j <= Rem(s)
  BY <1>1, BytesOfLastChunk
<1>4. PICK size : size = LastSize(k + 1, n, Rem(text.size))
  OBVIOUS
<1>5. j <= size
  BY <1>1, <1>2, <1>3, <1>4, ChunkSizeIsNat DEF LastSize
<1> QED BY <1>4, <1>5, CopiedByte

EveryByteIsCopied(text) ==
    \A data : \A k \in Nat, j \in 1 .. CHUNK_SIZE : k * CHUNK_SIZE + j <= text.size =>
        Copy(data, text, k,
             LastSize(k + 1, ChunksPadded(text.size), Rem(text.size)))[j]
           = ByteOf(text, k * CHUNK_SIZE + j)

LEMMA LoopCopiesEveryByte ==
    ASSUME NEW text, text.size \in Nat
    PROVE  EveryByteIsCopied(text)
BY LoopCopiesText DEF EveryByteIsCopied

\* The first n chunks of a chain, all different.
IsSimple(cs, start, n) ==
    \A k, l \in Nat : k < n /\ l < n =>
        /\ At(cs, start, k) \in DOMAIN cs
        /\ At(cs, start, k) = At(cs, start, l) => k = l

\* The chunks that held a text, old of them, now hold another one along a
\* path of n; every chunk but these is as it was.
Rewrites(cs, cs2, start, old, path, n, text) ==
    /\ IsPath(cs2, start, n, path)
    /\ \A k \in Nat : k < n => path[k] \in DOMAIN cs2
    /\ \A k, l \in Nat : k < n /\ l < n /\ path[k] = path[l] => k = l
    /\ PathHolds(cs2, path, n, text)
    /\ \A p \in DOMAIN cs :
          (\A k \in Nat : k < old => p # At(cs, start, k)) =>
              /\ p \in DOMAIN cs2 /\ cs2[p] = cs[p]
              /\ \A k \in Nat : k < n => path[k] # p

\* A text that needs no more chunks than there are.
LEMMA TextFits ==
    ASSUME NEW cs, NEW cs2, NEW start, NEW old \in Nat, NEW n \in Nat \ {0},
           n <= old, NEW text, text.size \in Nat, n = ChunksPadded(text.size),
           NEW place,
           \A k \in Nat : k < n => place[k] = At(cs, start, k),
           IsSimple(cs, start, old),
           \A p \in DOMAIN cs : IsChunk(cs[p]),
           OverwrittenTo(cs, cs2, place, n, text, Rem(text.size), n),
           NEW path, path = [k \in Nat |-> At(cs, start, k)]
    PROVE  Rewrites(cs, cs2, start, old, path, n, text)
<1>1. \A k \in Nat : k < n => place[k] \in DOMAIN cs
  BY DEF IsSimple
<1>2. /\ DOMAIN cs2 = DOMAIN cs
      /\ \A p \in DOMAIN cs : /\ cs2[p].toastIndex = cs[p].toastIndex
                              /\ cs2[p].nextOffset = cs[p].nextOffset
      /\ \A k \in Nat : k < n =>
            cs2[place[k]].data = Copy(cs[place[k]].data, text, k,
                                      LastSize(k + 1, n, Rem(text.size)))
      /\ \A p \in DOMAIN cs :
            (\A k \in Nat : k < n => p # place[k]) => cs2[p] = cs[p]
  BY SMTT(30), <1>1, OverwritingKeepsLinks DEF KeepsLinks
<1>3. ASSUME NEW k \in Nat, k + 1 < n
      PROVE  path[k + 1] = LinkFrom(cs2, path[k])
  <2>1. path[k] = At(cs, start, k) /\ path[k] \in DOMAIN cs
    BY <1>1, <1>3
  <2>2. path[k + 1] = LinkFrom(cs, path[k])
    BY AtSteps
  <2>3. LinkFrom(cs2, path[k]) = LinkFrom(cs, path[k])
    BY <1>2, <2>1 DEF LinkFrom, ChunkAt
  <2> QED BY <2>2, <2>3
<1>4. path[0] = start
  BY AtSteps
<1>5. ASSUME NEW k \in Nat, NEW j \in 1 .. CHUNK_SIZE,
             k < n, k * CHUNK_SIZE + j <= text.size
      PROVE  cs2[path[k]].data[j] = ByteOf(text, k * CHUNK_SIZE + j)
  <2>1. PICK data : data = cs[place[k]].data
    OBVIOUS
  <2>2. cs2[place[k]].data
           = Copy(data, text, k, LastSize(k + 1, n, Rem(text.size)))
    BY <1>2, <1>5, <2>1
  <2>3. Copy(data, text, k, LastSize(k + 1, n, Rem(text.size)))[j]
           = ByteOf(text, k * CHUNK_SIZE + j)
    BY <1>5, LoopCopiesText
  <2>4. path[k] = place[k]
    BY <1>5
  <2> QED BY <2>2, <2>3, <2>4
<1>6. \A k \in Nat : path[k] = At(cs, start, k)
  OBVIOUS
<1>7. \A k \in Nat : k < n => k < old
  OBVIOUS
<1>8. \A k, l \in Nat : k < n /\ l < n /\ path[k] = path[l] => k = l
  BY <1>6, <1>7 DEF IsSimple
<1>9. \A k \in Nat : k < n => path[k] \in DOMAIN cs2
  BY <1>1, <1>2, <1>6
<1>10. IsPath(cs2, start, n, path)
  BY <1>3, <1>4 DEF IsPath
<1>11. PathHolds(cs2, path, n, text)
  BY <1>5 DEF PathHolds
<1>12. ASSUME NEW p \in DOMAIN cs,
              \A k \in Nat : k < old => p # At(cs, start, k)
       PROVE  /\ p \in DOMAIN cs2 /\ cs2[p] = cs[p]
              /\ \A k \in Nat : k < n => path[k] # p
  BY <1>2, <1>6, <1>7, <1>12
<1> QED BY <1>8, <1>9, <1>10, <1>11, <1>12 DEF Rewrites

\* Every text of E on a chain of its own.
Laid(cs, fc, tx, E) ==
    /\ Apart(cs, fc, E) /\ AllHeld(cs, fc, tx, E)
    /\ \A f \in E : Count(fc, f) \in Nat

\* Nothing changes but the text of e and its number of chunks.
OnlyTextOf(e, fc, fc2, tx, tx2, E) ==
    /\ \A f \in E : f # e => fc2[f] = fc[f] /\ tx2[f] = tx[f]
    /\ Start(fc2, e) = Start(fc, e)
    /\ Count(fc2, e) \in Nat

\* The text of one element is rewritten, the others keep theirs.
LEMMA OneTextRewritten ==
    ASSUME NEW cs, NEW cs2, NEW fc, NEW fc2, NEW tx, NEW tx2, NEW E,
           NEW e \in E, NEW path,
           Laid(cs, fc, tx, E), OnlyTextOf(e, fc, fc2, tx, tx2, E),
           Rewrites(cs, cs2, Start(fc, e), Count(fc, e), path, Count(fc2, e),
                    tx2[e])
    PROVE  Laid(cs2, fc2, tx2, E)
<1>0. PICK n \in Nat : n = Count(fc2, e)
  BY DEF OnlyTextOf
<1> DEFINE D == E \ {e}
<1>1. D \cup {e} = E /\ e \notin D
  OBVIOUS
<1>2. Apart(cs, fc, D) /\ AllHeld(cs, fc, tx, D)
  BY DEF Apart, AllHeld, Laid
<1>3. \A f \in D : /\ fc2[f] = fc[f] /\ tx2[f] = tx[f]
                   /\ Count(fc, f) \in Nat
  BY DEF Laid, OnlyTextOf
<1>4. ASSUME NEW f \in D, NEW l \in Nat, l < Count(fc, f)
      PROVE  /\ At(cs, Start(fc, f), l) \in DOMAIN cs2
             /\ cs2[At(cs, Start(fc, f), l)] = cs[At(cs, Start(fc, f), l)]
             /\ \A k \in Nat : k < n => path[k] # At(cs, Start(fc, f), l)
  <2>1. PICK p : p = At(cs, Start(fc, f), l)
    OBVIOUS
  <2>2. p \in DOMAIN cs
    BY <1>4, <2>1 DEF Apart, Laid
  <2>3. \A k \in Nat : k < Count(fc, e) => p # At(cs, Start(fc, e), k)
    BY <1>4, <2>1 DEF Apart, Laid
  <2>4. /\ p \in DOMAIN cs2 /\ cs2[p] = cs[p]
        /\ \A k \in Nat : k < n => path[k] # p
    BY <1>0, <2>2, <2>3 DEF Rewrites
  <2> QED BY <2>1, <2>4
<1>5. /\ IsPath(cs2, Start(fc2, e), n, path)
      /\ \A k \in Nat : k < n => path[k] \in DOMAIN cs2
      /\ \A k, l \in Nat : k < n /\ l < n /\ path[k] = path[l] => k = l
      /\ PathHolds(cs2, path, n, tx2[e])
  BY <1>0 DEF Rewrites, OnlyTextOf
<1> HIDE DEF D
<1>6. Apart(cs2, fc2, D \cup {e}) /\ AllHeld(cs2, fc2, tx2, D \cup {e})
  BY <1>0, <1>1, <1>2, <1>3, <1>4, <1>5, OneTextChanges
<1>7. \A f \in E : Count(fc2, f) \in Nat
  <2>1. \A f \in E : f # e => Count(fc2, f) = Count(fc, f)
    BY DEF OnlyTextOf, Count
  <2> QED BY <1>0, <2>1 DEF Laid
<1> QED BY <1>1, <1>6, <1>7 DEF Laid

\* The chunks but for the link of one of them.
Relinked(cs, cs2, last, to) ==
    /\ DOMAIN cs2 = DOMAIN cs
    /\ \A p \in DOMAIN cs : p # last => cs2[p] = cs[p]
    /\ cs2[last].data = cs[last].data
    /\ LinkFrom(cs2, last) = to

\* A text that outgrows its old chunks: they are filled, the last of them is
\* linked to n1 chunks in toast t1, and these to n2 chunks in toast t2.
Grows(cs, ov, filled, begun, cs2, start, old, text, t1, u1, n1, t2, u2, n2, x) ==
    /\ old \in Nat \ {0} /\ u1 \in Nat /\ n1 \in Nat
    /\ u2 \in Nat /\ n2 \in Nat \ {0}
    /\ text.size \in Nat
    /\ IsSimple(cs, start, old)
    /\ \A p \in DOMAIN cs : IsChunk(cs[p])
    /\ \E place : /\ \A k \in Nat : k < old => place[k] = At(cs, start, k)
                  /\ OverwrittenTo(cs, ov, place, old, text, CHUNK_SIZE, old)
    /\ n1 > 0 => u2 = 0 /\ t1 # t2
    /\ old + n1 + n2 = ChunksPadded(text.size)
    /\ Relinked(ov, filled, At(cs, start, old - 1),
                IF n1 = 0 THEN <<t2, u2>> ELSE <<t1, u1>>)
    /\ IsAppended(filled, begun, t1, u1, n1, text, old, CHUNK_SIZE, t2)
    /\ IsAppended(begun, cs2, t2, u2, n2, text, old + n1, Rem(text.size), x)
    /\ \A k \in Nat : <<t1, u1 + k>> \notin DOMAIN cs \/ n1 = 0
    /\ \A k \in Nat : <<t2, u2 + k>> \notin DOMAIN cs

LEMMA TextGrows ==
    ASSUME NEW cs, NEW ov, NEW filled, NEW begun, NEW cs2, NEW start, NEW old,
           NEW text, NEW t1, NEW u1, NEW n1, NEW t2, NEW u2, NEW n2, NEW x,
           Grows(cs, ov, filled, begun, cs2, start, old, text, t1, u1, n1,
                 t2, u2, n2, x)
    PROVE  \E path : Rewrites(cs, cs2, start, old, path,
                              ChunksPadded(text.size), text)
<1>a. /\ old \in Nat \ {0} /\ u1 \in Nat /\ n1 \in Nat
      /\ u2 \in Nat /\ n2 \in Nat \ {0}
      /\ text.size \in Nat
      /\ IsSimple(cs, start, old)
      /\ \A p \in DOMAIN cs : IsChunk(cs[p])
      /\ n1 > 0 => u2 = 0 /\ t1 # t2
      /\ old + n1 + n2 = ChunksPadded(text.size)
      /\ Relinked(ov, filled, At(cs, start, old - 1),
                  IF n1 = 0 THEN <<t2, u2>> ELSE <<t1, u1>>)
      /\ IsAppended(filled, begun, t1, u1, n1, text, old, CHUNK_SIZE, t2)
      /\ IsAppended(begun, cs2, t2, u2, n2, text, old + n1, Rem(text.size), x)
      /\ \A k \in Nat : <<t1, u1 + k>> \notin DOMAIN cs \/ n1 = 0
      /\ \A k \in Nat : <<t2, u2 + k>> \notin DOMAIN cs
  BY Zenon DEF Grows
<1>b. PICK place : /\ \A k \in Nat : k < old => place[k] = At(cs, start, k)
                   /\ OverwrittenTo(cs, ov, place, old, text, CHUNK_SIZE, old)
  BY Zenon DEF Grows
<1>c. PICK path :
         path = [k \in Nat |->
                    IF k < old THEN At(cs, start, k)
                    ELSE IF k < old + n1 THEN <<t1, u1 + (k - old)>>
                    ELSE <<t2, u2 + (k - (old + n1))>>]
  OBVIOUS
<1> USE <1>a, <1>b, <1>c
<1> DEFINE n == old + n1 + n2
<1>1. \A k \in Nat : k < old => place[k] \in DOMAIN cs
  BY DEF IsSimple
<1>2. /\ DOMAIN ov = DOMAIN cs
      /\ \A p \in DOMAIN cs : /\ ov[p].toastIndex = cs[p].toastIndex
                              /\ ov[p].nextOffset = cs[p].nextOffset
      /\ \A k \in Nat : k < old =>
            ov[place[k]].data = Copy(cs[place[k]].data, text, k,
                                     LastSize(k + 1, old, CHUNK_SIZE))
      /\ \A p \in DOMAIN cs :
            (\A k \in Nat : k < old => p # place[k]) => ov[p] = cs[p]
  <2>1. old \in Nat
    OBVIOUS
  <2>2. KeepsLinks(cs, ov, place, old, text, CHUNK_SIZE)
    BY <1>1, <2>1, OverwritingKeepsLinks
  <2> QED BY <2>2 DEF KeepsLinks
<1>3. PICK last : last = At(cs, start, old - 1)
  OBVIOUS
<1>4. /\ old - 1 \in Nat /\ old - 1 < old
      /\ last \in DOMAIN cs /\ last = place[old - 1]
  BY <1>1, <1>3
<1>5. /\ \A k \in Nat : k < old => path[k] = At(cs, start, k)
      /\ \A k \in Nat : k < n1 => path[old + k] = <<t1, u1 + k>>
      /\ \A k \in Nat : k < n2 => path[old + n1 + k] = <<t2, u2 + k>>
  <2>1. ASSUME NEW k \in Nat, k < n1 PROVE path[old + k] = <<t1, u1 + k>>
    <3>1. old + k \in Nat /\ ~ (old + k < old) /\ old + k < old + n1
          /\ (old + k) - old = k
      BY <2>1
    <3> QED BY <3>1
  <2>2. ASSUME NEW k \in Nat, k < n2
        PROVE  path[old + n1 + k] = <<t2, u2 + k>>
    <3>1. /\ old + n1 + k \in Nat
          /\ ~ (old + n1 + k < old) /\ ~ (old + n1 + k < old + n1)
          /\ (old + n1 + k) - (old + n1) = k
      BY <2>2
    <3> QED BY <3>1
  <2> QED BY <2>1, <2>2
<1>6. \A k \in Nat : k < n =>
         \/ k < old
         \/ \E l \in Nat : l < n1 /\ k = old + l
         \/ \E l \in Nat : l < n2 /\ k = old + n1 + l
  <2> SUFFICES ASSUME NEW k \in Nat, k < n, ~ (k < old)
               PROVE  \/ \E l \in Nat : l < n1 /\ k = old + l
                      \/ \E l \in Nat : l < n2 /\ k = old + n1 + l
    OBVIOUS
  <2>1. CASE k < old + n1
    <3>1. k - old \in Nat /\ k - old < n1 /\ k = old + (k - old)
      BY <2>1
    <3> QED BY <3>1
  <2>2. CASE ~ (k < old + n1)
    <3>1. /\ k - (old + n1) \in Nat /\ k - (old + n1) < n2
          /\ k = old + n1 + (k - (old + n1))
      BY <2>2
    <3> QED BY <3>1
  <2> QED BY <2>1, <2>2
<1> HIDE DEF n
\* The chunks of the three parts, as they are in the end.
<1>7. ASSUME NEW p \in DOMAIN cs
      PROVE  p \in DOMAIN cs2 /\ cs2[p] = filled[p]
  <2>1. p \in DOMAIN filled
    BY <1>2 DEF Relinked
  <2>2. p \in DOMAIN begun /\ begun[p] = filled[p]
    <3>1. \A k \in Nat : k < n1 => p # <<t1, u1 + k>>
      OBVIOUS
    <3> QED BY <2>1, <3>1 DEF IsAppended
  <2>3. \A k \in Nat : k < n2 => p # <<t2, u2 + k>>
    OBVIOUS
  <2> QED BY <2>2, <2>3 DEF IsAppended
<1>8. ASSUME NEW k \in Nat, k < n1
      PROVE  /\ <<t1, u1 + k>> \in DOMAIN cs2
             /\ cs2[<<t1, u1 + k>>]
                   = NewChunk(t1, u1, n1, text, old, CHUNK_SIZE, t2, k)
  <2>1. PICK p : p = <<t1, u1 + k>>
    OBVIOUS
  <2>2. /\ p \in DOMAIN begun
        /\ begun[p] = NewChunk(t1, u1, n1, text, old, CHUNK_SIZE, t2, k)
    BY <1>8, <2>1 DEF IsAppended
  <2>3. t1 # t2
    BY <1>8
  <2>4. \A l \in Nat : l < n2 => p # <<t2, u2 + l>>
    BY <2>1, <2>3
  <2>5. p \in DOMAIN cs2 /\ cs2[p] = begun[p]
    BY <2>2, <2>4 DEF IsAppended
  <2> QED BY <2>1, <2>2, <2>5
<1>9. ASSUME NEW k \in Nat, k < n2
      PROVE  /\ <<t2, u2 + k>> \in DOMAIN cs2
             /\ cs2[<<t2, u2 + k>>]
                   = NewChunk(t2, u2, n2, text, old + n1, Rem(text.size), x, k)
  BY <1>9 DEF IsAppended
<1>10. ASSUME NEW k \in Nat, k < n PROVE path[k] \in DOMAIN cs2
  <2>1. CASE k < old
    <3>1. path[k] = place[k]
      BY <1>5, <2>1
    <3> QED BY <1>1, <1>7, <2>1, <3>1
  <2>2. ASSUME NEW l \in Nat, l < n1, k = old + l PROVE path[k] \in DOMAIN cs2
    <3>1. path[k] = <<t1, u1 + l>>
      BY <1>5, <2>2
    <3> QED BY <1>8, <2>2, <3>1
  <2>3. ASSUME NEW l \in Nat, l < n2, k = old + n1 + l
        PROVE  path[k] \in DOMAIN cs2
    <3>1. path[k] = <<t2, u2 + l>>
      BY <1>5, <2>3
    <3> QED BY <1>9, <2>3, <3>1
  <2> QED BY <1>6, <1>10, <2>1, <2>2, <2>3
<1>11. ASSUME NEW k \in Nat, NEW l \in Nat, k < n, l < n, path[k] = path[l]
       PROVE  k = l
  <2>1. CASE k < old
    <3>1. path[k] = At(cs, start, k) /\ path[k] \in DOMAIN cs
      BY <1>1, <1>5, <2>1
    <3>2. ASSUME NEW i \in Nat, i < n1, l = old + i PROVE FALSE
      <4>1. path[l] = <<t1, u1 + i>>
        BY <1>5, <3>2
      <4>2. <<t1, u1 + i>> \notin DOMAIN cs
        BY <3>2
      <4> QED BY <1>11, <3>1, <4>1, <4>2
    <3>3. ASSUME NEW i \in Nat, i < n2, l = old + n1 + i PROVE FALSE
      <4>1. path[l] = <<t2, u2 + i>>
        BY <1>5, <3>3
      <4> QED BY <1>11, <3>1, <4>1
    <3>4. l < old
      BY <1>6, <1>11, <3>2, <3>3
    <3>5. path[l] = At(cs, start, l)
      BY <1>5, <3>4
    <3> QED BY <1>11, <2>1, <3>1, <3>4, <3>5 DEF IsSimple
  <2>2. ASSUME NEW j \in Nat, j < n1, k = old + j PROVE k = l
    <3>1. path[k] = <<t1, u1 + j>> /\ path[k] \notin DOMAIN cs
      BY <1>5, <2>2
    <3>2. ~ (l < old)
      <4>1. l < old => path[l] = place[l] /\ path[l] \in DOMAIN cs
        BY <1>1, <1>5
      <4> QED BY <1>11, <3>1, <4>1
    <3>3. ASSUME NEW i \in Nat, i < n1, l = old + i PROVE k = l
      <4>1. path[l] = <<t1, u1 + i>>
        BY <1>5, <3>3
      <4>2. u1 + j = u1 + i
        BY <1>11, <3>1, <4>1
      <4> QED BY <2>2, <3>3, <4>2
    <3>4. ASSUME NEW i \in Nat, i < n2, l = old + n1 + i PROVE FALSE
      <4>1. path[l] = <<t2, u2 + i>>
        BY <1>5, <3>4
      <4>2. t1 # t2
        BY <2>2
      <4> QED BY <1>11, <3>1, <4>1, <4>2
    <3> QED BY <1>6, <1>11, <3>2, <3>3, <3>4
  <2>3. ASSUME NEW j \in Nat, j < n2, k = old + n1 + j PROVE k = l
    <3>1. path[k] = <<t2, u2 + j>> /\ path[k] \notin DOMAIN cs
      BY <1>5, <2>3
    <3>2. ~ (l < old)
      <4>1. l < old => path[l] = place[l] /\ path[l] \in DOMAIN cs
        BY <1>1, <1>5
      <4> QED BY <1>11, <3>1, <4>1
    <3>3. ASSUME NEW i \in Nat, i < n1, l = old + i PROVE FALSE
      <4>1. path[l] = <<t1, u1 + i>>
        BY <1>5, <3>3
      <4>2. t1 # t2
        BY <3>3
      <4> QED BY <1>11, <3>1, <4>1, <4>2
    <3>4. ASSUME NEW i \in Nat, i < n2, l = old + n1 + i PROVE k = l
      <4>1. path[l] = <<t2, u2 + i>>
        BY <1>5, <3>4
      <4>2. u2 + j = u2 + i
        BY <1>11, <3>1, <4>1
      <4> QED BY <2>3, <3>4, <4>2
    <3> QED BY <1>6, <1>11, <3>2, <3>3, <3>4
  <2> QED BY <1>6, <1>11, <2>1, <2>2, <2>3
<1>12. path[0] = start
  BY <1>5, AtSteps
<1>13. ASSUME NEW k \in Nat, k + 1 < n
       PROVE  path[k + 1] = LinkFrom(cs2, path[k])
  <2>1. CASE k + 1 < old
    <3>1. /\ path[k] = At(cs, start, k) /\ path[k] \in DOMAIN cs
          /\ path[k + 1] = At(cs, start, k + 1)
      BY <1>1, <1>5, <2>1
    <3>2. path[k] # last
      BY <1>3, <1>4, <2>1, <3>1 DEF IsSimple
    <3>3. cs2[path[k]] = ov[path[k]]
      BY <1>2, <1>3, <1>7, <3>1, <3>2 DEF Relinked
    <3>4. LinkFrom(cs2, path[k]) = LinkFrom(cs, path[k])
      BY <1>2, <1>7, <3>1, <3>3 DEF LinkFrom, ChunkAt
    <3>5. At(cs, start, k + 1) = LinkFrom(cs, At(cs, start, k))
      BY AtSteps
    <3> QED BY <3>1, <3>4, <3>5
  <2>2. CASE k + 1 = old
    <3>1. k = old - 1 /\ path[k] = last
      BY <1>3, <1>4, <1>5, <2>2
    <3>2. LinkFrom(cs2, last) = LinkFrom(filled, last)
      BY <1>2, <1>4, <1>7 DEF LinkFrom, ChunkAt, Relinked
    <3>3. LinkFrom(filled, last) = IF n1 = 0 THEN <<t2, u2>> ELSE <<t1, u1>>
      BY <1>3 DEF Relinked
    <3>4. CASE n1 = 0
      <4>1. path[old + n1 + 0] = <<t2, u2 + 0>>
        BY <1>5
      <4>2. old + n1 + 0 = k + 1 /\ u2 + 0 = u2
        BY <2>2, <3>4
      <4> QED BY <3>1, <3>2, <3>3, <3>4, <4>1, <4>2
    <3>5. CASE n1 # 0
      <4>1. path[old + 0] = <<t1, u1 + 0>>
        BY <1>5, <3>5
      <4>2. old + 0 = k + 1 /\ u1 + 0 = u1
        BY <2>2
      <4> QED BY <3>1, <3>2, <3>3, <3>5, <4>1, <4>2
    <3> QED BY <3>4, <3>5
  <2>3. ASSUME NEW l \in Nat, l < n1, k = old + l
        PROVE  path[k + 1] = LinkFrom(cs2, path[k])
    <3>1. path[k] = <<t1, u1 + l>>
      BY <1>5, <2>3
    <3>2. PICK c : c = NewChunk(t1, u1, n1, text, old, CHUNK_SIZE, t2, l)
      OBVIOUS
    <3>3. LinkFrom(cs2, path[k]) = <<c.toastIndex, c.nextOffset>>
      BY <1>8, <2>3, <3>1, <3>2 DEF LinkFrom, ChunkAt
    <3>4. CASE l = n1 - 1
      <4>1. c.toastIndex = t2 /\ c.nextOffset = 0
        BY <3>2, <3>4 DEF NewChunk
      <4>2. path[old + n1 + 0] = <<t2, u2 + 0>>
        BY <1>5
      <4>3. old + n1 + 0 = k + 1 /\ u2 + 0 = 0
        BY <2>3, <3>4
      <4> QED BY <3>3, <4>1, <4>2, <4>3
    <3>5. CASE l # n1 - 1
      <4>1. c.toastIndex = t1 /\ c.nextOffset = u1 + l + 1
        BY <3>2, <3>5 DEF NewChunk
      <4>2. l + 1 \in Nat /\ l + 1 < n1
        BY <2>3, <3>5
      <4>3. path[old + (l + 1)] = <<t1, u1 + (l + 1)>>
        BY <1>5, <4>2
      <4>4. old + (l + 1) = k + 1 /\ u1 + (l + 1) = u1 + l + 1
        BY <2>3
      <4> QED BY <3>3, <4>1, <4>3, <4>4
    <3> QED BY <3>4, <3>5
  <2>4. ASSUME NEW l \in Nat, l < n2, k = old + n1 + l
        PROVE  path[k + 1] = LinkFrom(cs2, path[k])
    <3>1. path[k] = <<t2, u2 + l>>
      BY <1>5, <2>4
    <3>2. PICK c : c = NewChunk(t2, u2, n2, text, old + n1, Rem(text.size), x, l)
      OBVIOUS
    <3>3. LinkFrom(cs2, path[k]) = <<c.toastIndex, c.nextOffset>>
      BY <1>9, <2>4, <3>1, <3>2 DEF LinkFrom, ChunkAt
    <3>4. l # n2 - 1
      BY <1>13, <2>4 DEF n
    <3>5. c.toastIndex = t2 /\ c.nextOffset = u2 + l + 1
      BY <3>2, <3>4 DEF NewChunk
    <3>6. l + 1 \in Nat /\ l + 1 < n2
      BY <2>4, <3>4
    <3>7. path[old + n1 + (l + 1)] = <<t2, u2 + (l + 1)>>
      BY <1>5, <3>6
    <3>8. old + n1 + (l + 1) = k + 1 /\ u2 + (l + 1) = u2 + l + 1
      BY <2>4
    <3> QED BY <3>3, <3>5, <3>7, <3>8
  <2>5. k < n
    BY <1>13 DEF n
  <2>6. k < old => k + 1 < old \/ k + 1 = old
    OBVIOUS
  <2> QED BY <1>6, <2>1, <2>2, <2>3, <2>4, <2>5, <2>6
<1>14. ASSUME NEW k \in Nat, NEW j \in 1 .. CHUNK_SIZE,
              k < n, k * CHUNK_SIZE + j <= text.size
       PROVE  cs2[path[k]].data[j] = ByteOf(text, k * CHUNK_SIZE + j)
  <2>1. j <= CHUNK_SIZE
    BY ChunkSizeIsNat
  <2>2. CASE k < old
    <3>1. path[k] = place[k] /\ path[k] \in DOMAIN cs
      BY <1>1, <1>5, <2>2
    <3>2. cs2[path[k]].data = ov[path[k]].data
      BY <1>2, <1>3, <1>7, <3>1 DEF Relinked
    <3>3. PICK data : data = cs[place[k]].data
      OBVIOUS
    <3>4. LastSize(k + 1, old, CHUNK_SIZE) = CHUNK_SIZE
      BY DEF LastSize
    <3>5. ov[path[k]].data = Copy(data, text, k, CHUNK_SIZE)
      BY <1>2, <2>2, <3>1, <3>3, <3>4
    <3> QED BY <2>1, <3>2, <3>5, CopiedByte
  <2>3. ASSUME NEW l \in Nat, l < n1, k = old + l
        PROVE  cs2[path[k]].data[j] = ByteOf(text, k * CHUNK_SIZE + j)
    <3>1. path[k] = <<t1, u1 + l>>
      BY <1>5, <2>3
    <3>2. cs2[path[k]] = NewChunk(t1, u1, n1, text, old, CHUNK_SIZE, t2, l)
      BY <1>8, <2>3, <3>1
    <3>3. LastSize(l + 1, n1, CHUNK_SIZE) = CHUNK_SIZE
      BY DEF LastSize
    <3>4. cs2[path[k]].data = Copy(ZeroData, text, k, CHUNK_SIZE)
      BY <2>3, <3>2, <3>3 DEF NewChunk
    <3> QED BY <2>1, <3>4, CopiedByte
  <2>4. ASSUME NEW l \in Nat, l < n2, k = old + n1 + l
        PROVE  cs2[path[k]].data[j] = ByteOf(text, k * CHUNK_SIZE + j)
    <3>1. path[k] = <<t2, u2 + l>>
      BY <1>5, <2>4
    <3>2. PICK rem : rem = Rem(text.size)
      OBVIOUS
    <3>3. cs2[path[k]] = NewChunk(t2, u2, n2, text, old + n1, rem, x, l)
      BY <1>9, <2>4, <3>1, <3>2
    <3>4. LastSize(l + 1, n2, rem) = LastSize(k + 1, n, rem)
      BY <2>4 DEF LastSize, n
    <3>5. cs2[path[k]].data = Copy(ZeroData, text, k, LastSize(k + 1, n, rem))
      BY <2>4, <3>3, <3>4 DEF NewChunk
    <3>6. PICK m : m = n
      OBVIOUS
    <3>7. m = ChunksPadded(text.size)
      BY <3>6 DEF n
    <3>8. Copy(ZeroData, text, k, LastSize(k + 1, m, Rem(text.size)))[j]
             = ByteOf(text, k * CHUNK_SIZE + j)
      <4>1. EveryByteIsCopied(text)
        BY LoopCopiesEveryByte
      <4> QED BY <1>14, <3>7, <4>1, Zenon DEF EveryByteIsCopied
    <3> QED BY <3>2, <3>5, <3>6, <3>8
  <2> QED BY <1>6, <1>14, <2>2, <2>3, <2>4
<1>15. ASSUME NEW p \in DOMAIN cs,
              \A k \in Nat : k < old => p # At(cs, start, k)
       PROVE  /\ p \in DOMAIN cs2 /\ cs2[p] = cs[p]
              /\ \A k \in Nat : k < n => path[k] # p
  <2>1. p # last
    BY <1>3, <1>4, <1>15
  <2>2. \A k \in Nat : k < old => p # place[k]
    BY <1>15
  <2>3. p \in DOMAIN cs2 /\ cs2[p] = cs[p]
    BY <1>2, <1>3, <1>7, <2>1, <2>2 DEF Relinked
  <2>4. ASSUME NEW k \in Nat, k < n PROVE path[k] # p
    <3>1. CASE k < old
      BY <1>5, <1>15, <3>1
    <3>2. ASSUME NEW l \in Nat, l < n1, k = old + l PROVE path[k] # p
      <4>1. path[k] = <<t1, u1 + l>>
        BY <1>5, <3>2
      <4> QED BY <3>2, <4>1
    <3>3. ASSUME NEW l \in Nat, l < n2, k = old + n1 + l PROVE path[k] # p
      <4>1. path[k] = <<t2, u2 + l>>
        BY <1>5, <3>3
      <4> QED BY <4>1
    <3> QED BY <1>6, <2>4, <3>1, <3>2, <3>3
  <2> QED BY <2>3, <2>4
<1>16. IsPath(cs2, start, n, path)
  BY <1>12, <1>13 DEF IsPath
<1>17. PathHolds(cs2, path, n, text)
  BY <1>14 DEF PathHolds
<1>18. Rewrites(cs, cs2, start, old, path, n, text)
  BY <1>10, <1>11, <1>15, <1>16, <1>17 DEF Rewrites
<1>19. n = ChunksPadded(text.size)
  BY DEF n
<1> QED BY <1>18, <1>19

-----------------------------------------------------------------------------
(* Updates: what they start from, and what all of them do.                 *)

ToastsOK(ts) ==
    /\ IsFiniteSet(DOMAIN ts)
    /\ ts \in [0 .. Cardinality(DOMAIN ts) - 1 ->
                  [capacity : Nat, used : Nat, nextToastIndex : DOMAIN ts]]

LEMMA ToastsAreRecords ==
    ASSUME NEW ts, ToastsOK(ts), NEW t \in DOMAIN ts
    PROVE  /\ ts[t] \in [capacity : Nat, used : Nat,
                         nextToastIndex : DOMAIN ts]
           /\ ts[t].capacity \in Nat /\ ts[t].used \in Nat
           /\ ts[t].nextToastIndex \in DOMAIN ts
<1>1. PICK D : D = DOMAIN ts
  OBVIOUS
<1>2. ts \in [D -> [capacity : Nat, used : Nat, nextToastIndex : D]]
  BY <1>1 DEF ToastsOK
<1>3. ts[t] \in [capacity : Nat, used : Nat, nextToastIndex : D]
  BY <1>1, <1>2
<1> QED BY <1>1, <1>3

LEMMA CountedIs ==
    ASSUME NEW ts, ToastsOK(ts), NEW t \in DOMAIN ts, NEW n \in Nat,
           NEW ts2, ts2 = Counted(ts, t, n)
    PROVE  /\ DOMAIN ts2 = DOMAIN ts /\ ToastsOK(ts2)
           /\ ts2[t].used = ts[t].used + n
           /\ ts2[t].capacity = ts[t].capacity
           /\ ts2[t].nextToastIndex = ts[t].nextToastIndex
           /\ \A u \in DOMAIN ts : u # t => ts2[u] = ts[u]
<1>1. PICK D : D = DOMAIN ts
  OBVIOUS
<1>2. /\ ts \in [D -> [capacity : Nat, used : Nat, nextToastIndex : D]]
      /\ D = 0 .. Cardinality(D) - 1 /\ IsFiniteSet(D)
  BY <1>1 DEF ToastsOK
<1>3. ts2 = [ts EXCEPT ![t].used = @ + n]
  BY DEF Counted
<1>4. PICK r : r = ts[t]
  OBVIOUS
<1>5. r \in [capacity : Nat, used : Nat, nextToastIndex : D]
  BY <1>1, <1>2, <1>4
<1>6. PICK r2 : r2 = [r EXCEPT !.used = @ + n]
  OBVIOUS
<1>7. /\ r2 \in [capacity : Nat, used : Nat, nextToastIndex : D]
      /\ r2.used = r.used + n /\ r2.capacity = r.capacity
      /\ r2.nextToastIndex = r.nextToastIndex
  BY <1>5, <1>6
<1>8. ts2 = [ts EXCEPT ![t] = r2]
  BY <1>3, <1>4, <1>6
<1>9. /\ ts2 \in [D -> [capacity : Nat, used : Nat, nextToastIndex : D]]
      /\ DOMAIN ts2 = D /\ ts2[t] = r2
      /\ \A u \in D : u # t => ts2[u] = ts[u]
  BY <1>1, <1>2, <1>7, <1>8
<1>10. ToastsOK(ts2)
  BY <1>2, <1>9 DEF ToastsOK
<1> QED BY <1>1, <1>4, <1>7, <1>9, <1>10

\* The state in which an update of element e to the text new runs.
Ready(e, new) ==
    /\ TextInv
    /\ Intact
    /\ DOMAIN firstChunk = Elements
    /\ updates < MaxUpdates
    /\ e \in Elements
    /\ \E size \in Sizes : new = NewText(size)

LEMMA ReadyMeans ==
    ASSUME NEW e, NEW new, Ready(e, new)
    PROVE  /\ texts \in [Elements -> Text] /\ texts # <<>>
           /\ firstChunk \in [Elements ->
                                 [size : Nat \ {0}, offsetInToast : Nat]]
           /\ new \in Text /\ new.size \in Nat \ {0}
           /\ e \in Elements
           /\ \A f \in Elements : firstChunk[f].offsetInToast < toasts[1].used
           /\ Sized(firstChunk, texts)
           /\ Apart(chunks, firstChunk, Elements)
           /\ AllHeld(chunks, firstChunk, texts, Elements)
           /\ IsSimple(chunks, Start(firstChunk, e), Count(firstChunk, e))
           /\ \A p \in DOMAIN chunks : IsChunk(chunks[p])
           /\ Count(firstChunk, e) \in Nat \ {0}
           /\ Count(firstChunk, e) = OldChunks(e)
           /\ Longer(e, new.size) = new.size
<1> USE DEF Ready
<1>1. /\ TypeOK /\ WrittenInOrder /\ SizesArePadded /\ ChunksAreUsed
      /\ ChainsAreDisjoint /\ ChunksHoldTexts
  BY DEF TextInv
<1>2. firstChunk \in [Elements -> [size : Nat \ {0}, offsetInToast : Nat]]
  BY <1>1 DEF TypeOK
<1>3. texts # <<>>
  <2>1. SUFFICES ASSUME texts = <<>> PROVE FALSE
    OBVIOUS
  <2>2. firstChunk = <<>>
    BY <1>1, <2>1 DEF WrittenInOrder
  <2>3. DOMAIN firstChunk = {}
    BY <2>2
  <2> QED BY <2>3
<1>4. texts \in [Elements -> Text]
  BY <1>1, <1>3 DEF TypeOK
<1>5. new \in Text /\ new.size \in Nat \ {0}
  <2>1. updates + 1 \in 0 .. MaxUpdates
    BY <1>1, ConstantsAssumption DEF TypeOK
  <2> QED BY <2>1, ConstantsAssumption DEF Text, NewText
<1>6. Sized(firstChunk, texts)
  <2> SUFFICES ASSUME NEW f \in Elements
               PROVE  /\ texts[f].size \in Nat
                      /\ Count(firstChunk, f) = ChunksPadded(texts[f].size)
                      /\ Count(firstChunk, f) \in Nat \ {0}
    BY DEF Sized
  <2>1. PICK s \in Nat : s = texts[f].size
    BY <1>4, ConstantsAssumption DEF Text
  <2>2. firstChunk[f].size = Padded(s)
    BY <1>1, <2>1 DEF SizesArePadded
  <2>3. ChunksOf(Padded(s)) = ChunksPadded(s) /\ ChunksPadded(s) \in Nat \ {0}
    BY PaddedSize, ChunksAreNat
  <2> QED BY <2>1, <2>2, <2>3 DEF Count
<1>7. /\ Apart(chunks, firstChunk, Elements)
      /\ AllHeld(chunks, firstChunk, texts, Elements)
  BY <1>1, <1>6, LayoutSeen
<1>8. IsSimple(chunks, Start(firstChunk, e), Count(firstChunk, e))
  BY <1>7 DEF Apart, IsSimple
<1>9. \A p \in DOMAIN chunks : IsChunk(chunks[p])
  BY <1>1 DEF ChunksAreUsed, IsChunk
<1>10. Count(firstChunk, e) \in Nat \ {0} /\ Count(firstChunk, e) = OldChunks(e)
  <2>1. PICK s \in Nat : s = firstChunk[e].size
    BY <1>2
  <2>2. Rem(s) # 0
    BY <1>1, <2>1 DEF SizesArePadded
  <2>3. ChunksOf(s) = ChunksPadded(s) /\ ChunksPadded(s) \in Nat \ {0}
    BY <2>2, ChunksAreNat
  <2> QED BY <2>1, <2>3 DEF Count, OldChunks
<1>11. Longer(e, new.size) = new.size
  BY <1>1 DEF Longer, SizesArePadded
<1>12. \A f \in Elements : firstChunk[f].offsetInToast < toasts[1].used
  BY <1>1 DEF TypeOK
<1> QED BY <1>2, <1>3, <1>4, <1>5, <1>6, <1>7, <1>8, <1>9, <1>10, <1>11, <1>12

\* Whatever becomes of the chunks: types, order and sizes.
LEMMA UpdatedTypes ==
    ASSUME NEW e, NEW new, Ready(e, new), Updated(e, new, Padded(new.size)),
           ToastsOK(toasts'), 1 \in DOMAIN toasts',
           toasts'[1].used >= toasts[1].used
    PROVE  /\ TypeOK' /\ WrittenInOrder' /\ SizesArePadded'
           /\ Sized(firstChunk', texts')
           /\ DOMAIN firstChunk' = Elements
           /\ \A f \in Elements : f # e => /\ firstChunk'[f] = firstChunk[f]
                                           /\ texts'[f] = texts[f]
           /\ texts'[e] = new
           /\ Start(firstChunk', e) = Start(firstChunk, e)
           /\ Count(firstChunk', e) = ChunksPadded(new.size)
<1> DEFINE size == Padded(new.size)
<1>1. /\ TypeOK /\ WrittenInOrder /\ SizesArePadded /\ updates < MaxUpdates
      /\ DOMAIN firstChunk = Elements
  BY DEF Ready, TextInv
<1>2. /\ texts \in [Elements -> Text] /\ texts # <<>>
      /\ firstChunk \in [Elements -> [size : Nat \ {0}, offsetInToast : Nat]]
      /\ new \in Text /\ new.size \in Nat \ {0} /\ e \in Elements
      /\ \A f \in Elements : firstChunk[f].offsetInToast < toasts[1].used
      /\ Sized(firstChunk, texts)
  BY ReadyMeans
<1>3. /\ size \in Nat \ {0} /\ Rem(size) # 0
      /\ ChunksOf(size) = ChunksPadded(new.size)
      /\ ChunksPadded(new.size) \in Nat \ {0}
  BY <1>2, PaddedSize, ChunksAreNat
<1> HIDE DEF size
<1>4. /\ firstChunk' = [firstChunk EXCEPT ![e].size = size]
      /\ texts' = [texts EXCEPT ![e] = new]
      /\ updates' = updates + 1
  BY DEF Updated, size
<1>5. /\ firstChunk' \in [Elements -> [size : Nat \ {0}, offsetInToast : Nat]]
      /\ DOMAIN firstChunk' = Elements
      /\ \A f \in Elements :
            /\ firstChunk'[f].offsetInToast = firstChunk[f].offsetInToast
            /\ f # e => firstChunk'[f] = firstChunk[f]
      /\ firstChunk'[e].size = size
  BY <1>2, <1>3, <1>4
<1>6. /\ texts' \in [Elements -> Text] /\ texts'[e] = new
      /\ \A f \in Elements : f # e => texts'[f] = texts[f]
  BY <1>2, <1>4
<1>7. updates' \in 0 .. MaxUpdates
  BY <1>1, <1>4, ConstantsAssumption DEF TypeOK
<1>8. \A f \in Elements : firstChunk'[f].offsetInToast < toasts'[1].used
  <2> SUFFICES ASSUME NEW f \in Elements
               PROVE  firstChunk'[f].offsetInToast < toasts'[1].used
    OBVIOUS
  <2>1. toasts[1].used \in Int /\ toasts'[1].used \in Nat
    <3>1. 1 \in DOMAIN toasts
      BY <1>1, <1>2 DEF WrittenInOrder
    <3>2. ToastsOK(toasts)
      BY <1>1 DEF TypeOK, ToastsOK
    <3>3. toasts[1].used \in Nat
      BY <3>1, <3>2, ToastsAreRecords
    <3> QED BY <3>3, ToastsAreRecords
  <2>2. firstChunk[f].offsetInToast \in Nat
    BY <1>2
  <2> QED BY <1>2, <1>5, <2>1, <2>2
<1>9. TypeOK'
  BY <1>5, <1>6, <1>7, <1>8 DEF TypeOK, ToastsOK
<1>10. WrittenInOrder'
  <2>1. DOMAIN firstChunk = 1 .. Cardinality(DOMAIN firstChunk)
    BY <1>1 DEF WrittenInOrder
  <2>2. DOMAIN firstChunk' = 1 .. Cardinality(DOMAIN firstChunk')
    BY <1>1, <1>5, <2>1
  <2>3. texts' # <<>>
    <3>1. SUFFICES ASSUME texts' = <<>> PROVE FALSE
      OBVIOUS
    <3>2. DOMAIN texts' = {}
      BY <3>1
    <3> QED BY <1>2, <1>6, <3>2
  <2>4. ~ (Cardinality(DOMAIN firstChunk') < Cardinality(Elements))
    <3>1. Cardinality(Elements) \in Nat
      BY ConstantsAssumption, FS_CardinalityType
    <3> QED BY <1>5, <3>1
  <2> QED BY <2>2, <2>3, <2>4 DEF WrittenInOrder
<1>11. SizesArePadded'
  <2>1. ASSUME NEW f \in Elements
        PROVE  /\ firstChunk'[f].size = Padded(texts'[f].size)
               /\ Rem(firstChunk'[f].size) # 0
    <3>1. CASE f = e
      BY <1>3, <1>5, <1>6, <3>1 DEF size
    <3>2. CASE f # e
      BY <1>1, <1>5, <1>6, <3>2 DEF SizesArePadded
    <3> QED BY <3>1, <3>2
  <2> QED BY <1>5, <2>1 DEF SizesArePadded
<1>12. Count(firstChunk', e) = ChunksPadded(new.size)
  BY <1>3, <1>5 DEF Count
<1>13. Sized(firstChunk', texts')
  <2>1. ASSUME NEW f \in Elements
        PROVE  /\ texts'[f].size \in Nat
               /\ Count(firstChunk', f) = ChunksPadded(texts'[f].size)
               /\ Count(firstChunk', f) \in Nat \ {0}
    <3>1. CASE f = e
      BY <1>2, <1>3, <1>6, <1>12, <3>1
    <3>2. CASE f # e
      <4>1. Count(firstChunk', f) = Count(firstChunk, f)
        BY <1>5, <3>2 DEF Count
      <4> QED BY <1>1, <1>2, <1>6, <3>2, <4>1 DEF Sized
    <3> QED BY <3>1, <3>2
  <2> QED BY <1>5, <2>1 DEF Sized
<1>14. Start(firstChunk', e) = Start(firstChunk, e)
  BY <1>2, <1>5 DEF Start
<1> QED BY <1>5, <1>6, <1>9, <1>10, <1>11, <1>12, <1>13, <1>14

\* An update that rewrites the text along some path keeps every text.
LEMMA UpdateKeepsTexts ==
    ASSUME NEW e, NEW new, Ready(e, new), Updated(e, new, Padded(new.size)),
           ToastsOK(toasts'), 1 \in DOMAIN toasts',
           toasts'[1].used >= toasts[1].used,
           NEW path,
           Rewrites(chunks, chunks', Start(firstChunk, e), Count(firstChunk, e),
                    path, ChunksPadded(new.size), new)
    PROVE  /\ TypeOK' /\ WrittenInOrder' /\ SizesArePadded'
           /\ ChainsAreDisjoint' /\ ChunksHoldTexts'
<1>1. /\ TypeOK' /\ WrittenInOrder' /\ SizesArePadded'
      /\ Sized(firstChunk', texts')
      /\ DOMAIN firstChunk' = Elements
      /\ \A f \in Elements : f # e => /\ firstChunk'[f] = firstChunk[f]
                                      /\ texts'[f] = texts[f]
      /\ texts'[e] = new
      /\ Start(firstChunk', e) = Start(firstChunk, e)
      /\ Count(firstChunk', e) = ChunksPadded(new.size)
  BY UpdatedTypes
<1>2. /\ new.size \in Nat \ {0} /\ e \in Elements
      /\ Sized(firstChunk, texts) /\ DOMAIN firstChunk = Elements
      /\ Apart(chunks, firstChunk, Elements)
      /\ AllHeld(chunks, firstChunk, texts, Elements)
  BY ReadyMeans DEF Ready
<1>3. PICK n \in Nat : n = ChunksPadded(new.size)
  BY <1>2, ChunksAreNat
<1>4. \A f \in Elements : Count(firstChunk, f) \in Nat
  BY <1>2 DEF Sized
<1>5. PICK fc2 : fc2 = firstChunk'
  OBVIOUS
<1>6. PICK tx2 : tx2 = texts'
  OBVIOUS
<1>7. PICK cs2 : cs2 = chunks'
  OBVIOUS
<1>8. Rewrites(chunks, cs2, Start(firstChunk, e), Count(firstChunk, e), path,
               Count(fc2, e), tx2[e])
  BY <1>1, <1>5, <1>6, <1>7
<1>9. Laid(chunks, firstChunk, texts, Elements)
  BY <1>2, <1>4 DEF Laid
<1>10. OnlyTextOf(e, firstChunk, fc2, texts, tx2, Elements)
  BY <1>1, <1>3, <1>5, <1>6 DEF OnlyTextOf
<1>11. Laid(cs2, fc2, tx2, Elements)
  BY <1>2, <1>8, <1>9, <1>10, OneTextRewritten
<1> QED BY <1>1, <1>5, <1>6, <1>7, <1>11, LayoutSeenNext DEF Laid

\* The chain's first chunks are what the loops of an update see.
LEMMA ReadyPlaces ==
    ASSUME NEW e, NEW new, Ready(e, new), NEW n \in Nat \ {0},
           n <= Count(firstChunk, e), NEW place, place = Places(e, n)
    PROVE  /\ \A k \in Nat : k < n =>
                 place[k] = At(chunks, Start(firstChunk, e), k)
           /\ \A k \in Nat : k < n => place[k] \in DOMAIN chunks
           /\ \A k, l \in Nat : k < n /\ l < n /\ place[k] = place[l] => k = l
<1>1. \A k \in Nat : k < n => place[k] = At(chunks, Start(firstChunk, e), k)
  BY PlacesAreOnChain DEF Start
<1>2. /\ IsSimple(chunks, Start(firstChunk, e), Count(firstChunk, e))
      /\ Count(firstChunk, e) \in Nat \ {0}
  BY ReadyMeans
<1>3. \A k \in Nat : k < n => k < Count(firstChunk, e)
  BY <1>2
<1> QED BY <1>1, <1>2, <1>3 DEF IsSimple

LEMMA UpdateInPlaceKeepsInv ==
    ASSUME NEW e, NEW new, Ready(e, new), Updated(e, new, Padded(new.size)),
           NEW n, n = ChunksPadded(new.size), n <= Count(firstChunk, e),
           chunks' = Overwritten(e, n, new, Rem(new.size)),
           UNCHANGED toasts
    PROVE  TextInv'
<1>1. /\ TypeOK /\ WrittenInOrder
      /\ SizesArePadded /\ ChunksAreUsed /\ SpillsWhenFull
      /\ DOMAIN firstChunk = Elements
  BY DEF Ready, TextInv
<1>2. /\ new.size \in Nat \ {0} /\ texts # <<>>
      /\ IsSimple(chunks, Start(firstChunk, e), Count(firstChunk, e))
      /\ \A p \in DOMAIN chunks : IsChunk(chunks[p])
      /\ Count(firstChunk, e) \in Nat \ {0}
  BY ReadyMeans
<1>3. n \in Nat \ {0}
  BY <1>2, ChunksAreNat
<1>4. PICK place : place = Places(e, n)
  OBVIOUS
<1>5. /\ \A k \in Nat : k < n =>
            place[k] = At(chunks, Start(firstChunk, e), k)
      /\ \A k \in Nat : k < n => place[k] \in DOMAIN chunks
      /\ \A k, l \in Nat : k < n /\ l < n /\ place[k] = place[l] => k = l
  BY <1>3, <1>4, ReadyPlaces
<1>6. PICK rem : rem = Rem(new.size)
  OBVIOUS
<1>7. PICK cs2 : cs2 = chunks'
  OBVIOUS
<1>8. OverwrittenTo(chunks, cs2, place, n, new, rem, n)
  BY <1>3, <1>4, <1>5, <1>6, <1>7, OverwrittenIsLoop
<1>9. KeepsLinks(chunks, cs2, place, n, new, rem)
  BY <1>2, <1>3, <1>5, <1>8, OverwritingKeepsLinks
<1>10. PICK start : start = Start(firstChunk, e)
  OBVIOUS
<1>11. PICK path : path = [k \in Nat |-> At(chunks, start, k)]
  OBVIOUS
<1>12. Rewrites(chunks, cs2, start, Count(firstChunk, e), path, n, new)
  <2>1. PICK old \in Nat : old = Count(firstChunk, e)
    BY <1>2
  <2>2. n <= old /\ IsSimple(chunks, start, old)
    BY <1>2, <1>10, <2>1
  <2>3. \A k \in Nat : k < n => place[k] = At(chunks, start, k)
    BY <1>5, <1>10
  <2>4. OverwrittenTo(chunks, cs2, place, n, new, Rem(new.size), n)
    BY <1>6, <1>8
  <2> QED BY <1>2, <1>3, <1>11, <2>1, <2>2, <2>3, <2>4, TextFits
<1>13. 1 \in DOMAIN toasts' /\ ToastsOK(toasts')
       /\ toasts'[1].used >= toasts[1].used
  <2>1. 1 \in DOMAIN toasts /\ ToastsOK(toasts)
    BY <1>1, <1>2 DEF WrittenInOrder, TypeOK, ToastsOK
  <2>2. toasts[1].used \in Nat
    BY <2>1, ToastsAreRecords
  <2> QED BY <2>1, <2>2
<1>14. /\ TypeOK' /\ WrittenInOrder' /\ SizesArePadded'
       /\ ChainsAreDisjoint' /\ ChunksHoldTexts'
  <2>1. Rewrites(chunks, chunks', Start(firstChunk, e), Count(firstChunk, e),
                 path, ChunksPadded(new.size), new)
    BY <1>7, <1>10, <1>12
  <2> QED BY <1>13, <2>1, UpdateKeepsTexts
<1>15. ChunksAreUsed'
  BY <1>1, <1>7, <1>9 DEF ChunksAreUsed, KeepsLinks, IsChunk
<1>16. SpillsWhenFull'
  BY <1>1, <1>7, <1>9 DEF SpillsWhenFull, KeepsLinks
<1> QED BY <1>14, <1>15, <1>16 DEF TextInv

LEMMA UpdateEqualKeepsInv ==
    ASSUME NEW e, NEW new, Ready(e, new), UpdateEqual(e, new)
    PROVE  TextInv'
<1>1. new.size = firstChunk[e].size /\ Rem(new.size) # 0
  BY ReadyMeans DEF Ready, TextInv, SizesArePadded, UpdateEqual
<1>2. new.size \in Nat
  BY ReadyMeans
<1>3. PICK s \in Nat : s = new.size
  BY <1>2
<1>4. ChunksOf(s) = ChunksPadded(s) /\ Padded(s) = s
  BY <1>1, <1>3, ChunksAreNat, PaddedSize
<1>5. Count(firstChunk, e) = ChunksOf(s)
  BY <1>1, <1>3 DEF Count
<1>6. ChunksPadded(s) \in Nat
  BY ChunksAreNat
<1>7. PICK n : n = ChunksPadded(new.size)
  OBVIOUS
<1>8. n <= Count(firstChunk, e)
  BY <1>3, <1>4, <1>5, <1>6, <1>7
<1>9. /\ chunks' = Overwritten(e, n, new, Rem(new.size))
      /\ Updated(e, new, Padded(new.size))
      /\ UNCHANGED toasts
  BY <1>3, <1>4, <1>7 DEF UpdateEqual
<1> QED BY <1>7, <1>8, <1>9, UpdateInPlaceKeepsInv

LEMMA UpdateShorterKeepsInv ==
    ASSUME NEW e, NEW new, Ready(e, new), UpdateShorter(e, new)
    PROVE  TextInv'
<1>1. /\ new.size \in Nat /\ Count(firstChunk, e) = OldChunks(e)
      /\ firstChunk \in [Elements -> [size : Nat \ {0}, offsetInToast : Nat]]
      /\ e \in Elements
  BY ReadyMeans
<1>2. PICK s \in Nat : s = new.size
  BY <1>1
<1>3. PICK m \in Nat : m = firstChunk[e].size
  BY <1>1
<1>4. s <= m
  BY <1>2, <1>3 DEF UpdateShorter
<1>5. ChunksPadded(s) <= ChunksPadded(m)
  BY <1>4, ChunksPaddedGrow
<1>6. PICK n : n = ChunksPadded(new.size)
  OBVIOUS
<1>7. n <= Count(firstChunk, e)
  BY <1>1, <1>2, <1>3, <1>5, <1>6 DEF OldChunks
<1>8. /\ chunks' = Overwritten(e, n, new, Rem(new.size))
      /\ Updated(e, new, Padded(new.size))
      /\ UNCHANGED toasts
  BY <1>6 DEF UpdateShorter
<1> QED BY <1>6, <1>7, <1>8, UpdateInPlaceKeepsInv

LEMMA UpdateInChunksKeepsInv ==
    ASSUME NEW e, NEW new, Ready(e, new), UpdateInChunks(e, new)
    PROVE  TextInv'
<1>1. Count(firstChunk, e) = OldChunks(e) /\ Longer(e, new.size) = new.size
  BY ReadyMeans
<1>2. PICK n : n = ChunksPadded(new.size)
  OBVIOUS
<1>3. NewChunks(e, new.size) = n
  BY <1>1, <1>2 DEF NewChunks
<1>4. /\ n <= Count(firstChunk, e)
      /\ chunks' = Overwritten(e, n, new, Rem(new.size))
      /\ Updated(e, new, Padded(new.size))
      /\ UNCHANGED toasts
  BY <1>1, <1>3 DEF UpdateInChunks
<1> QED BY <1>2, <1>4, UpdateInPlaceKeepsInv

LEMMA RelinkedIs ==
    ASSUME NEW ov, NEW last \in DOMAIN ov, IsChunk(ov[last]), NEW o
    PROVE  /\ Relinked(ov, [ov EXCEPT ![last].nextOffset = o], last,
                       <<ov[last].toastIndex, o>>)
           /\ [ov EXCEPT ![last].nextOffset = o][last]
                 = [data |-> ov[last].data, toastIndex |-> ov[last].toastIndex,
                    nextOffset |-> o]
<1>1. PICK c : c = ov[last]
  OBVIOUS
<1>2. c = [data |-> c.data, toastIndex |-> c.toastIndex,
           nextOffset |-> c.nextOffset]
  BY <1>1 DEF IsChunk
<1>3. [c EXCEPT !.nextOffset = o]
         = [data |-> c.data, toastIndex |-> c.toastIndex, nextOffset |-> o]
  BY <1>2
<1>4. PICK f : f = [ov EXCEPT ![last].nextOffset = o]
  OBVIOUS
<1>5. /\ DOMAIN f = DOMAIN ov
      /\ \A p \in DOMAIN ov : p # last => f[p] = ov[p]
      /\ f[last] = [data |-> c.data, toastIndex |-> c.toastIndex,
                    nextOffset |-> o]
  BY <1>1, <1>3, <1>4
<1>6. Relinked(ov, f, last, <<c.toastIndex, o>>)
  BY <1>1, <1>5 DEF Relinked, LinkFrom, ChunkAt
<1> QED BY <1>1, <1>4, <1>5, <1>6

\* The last chunk gets both parts of its link.
LinkedTo(ov, g, last, i, o) ==
    g = [ov EXCEPT ![last].toastIndex = i, ![last].nextOffset = o]

LEMMA LinkedToIs ==
    ASSUME NEW ov, NEW last \in DOMAIN ov, IsChunk(ov[last]), NEW i, NEW o,
           NEW g, LinkedTo(ov, g, last, i, o)
    PROVE  /\ Relinked(ov, g, last, <<i, o>>)
           /\ g[last] = [data |-> ov[last].data, toastIndex |-> i,
                         nextOffset |-> o]
<1>1. PICK c : c = ov[last]
  OBVIOUS
<1>2. c = [data |-> c.data, toastIndex |-> c.toastIndex,
           nextOffset |-> c.nextOffset]
  BY <1>1 DEF IsChunk
<1>3. PICK d : d = [c EXCEPT !.toastIndex = i]
  OBVIOUS
<1>4. d = [data |-> c.data, toastIndex |-> i, nextOffset |-> c.nextOffset]
  BY <1>2, <1>3
<1>5. [d EXCEPT !.nextOffset = o]
         = [data |-> c.data, toastIndex |-> i, nextOffset |-> o]
  BY <1>4
<1>6. PICK h : h = [ov EXCEPT ![last].toastIndex = i]
  OBVIOUS
<1>7. /\ DOMAIN h = DOMAIN ov
      /\ \A p \in DOMAIN ov : p # last => h[p] = ov[p]
      /\ h[last] = d
  BY <1>1, <1>3, <1>6
<1>8. g = [h EXCEPT ![last].nextOffset = o]
  BY <1>6 DEF LinkedTo
<1>9. /\ DOMAIN g = DOMAIN ov
      /\ \A p \in DOMAIN ov : p # last => g[p] = ov[p]
      /\ g[last] = [data |-> c.data, toastIndex |-> i, nextOffset |-> o]
  BY <1>5, <1>7, <1>8
<1>10. Relinked(ov, g, last, <<i, o>>)
  BY <1>1, <1>9 DEF Relinked, LinkFrom, ChunkAt
<1> QED BY <1>1, <1>9, <1>10

-----------------------------------------------------------------------------
(* Updates that need more chunks.                                          *)

\* What lies behind the used chunks of a toast is none of the chunks.
LEMMA BehindTheUsed ==
    ASSUME TypeOK, ChunksAreUsed, NEW t \in DOMAIN toasts
    PROVE  /\ toasts[t].used \in Nat
           /\ \A k \in Nat : <<t, toasts[t].used + k>> \notin DOMAIN chunks
<1>1. toasts[t].used \in Nat
  BY ToastsAreRecords DEF TypeOK, ToastsOK
<1>2. ASSUME NEW k \in Nat, <<t, toasts[t].used + k>> \in DOMAIN chunks
      PROVE  FALSE
  <2>1. toasts[t].used + k < toasts[t].used
    BY <1>2 DEF ChunksAreUsed
  <2> QED BY <1>1, <2>1
<1> QED BY <1>1, <1>2

\* The old chunks filled: a loop, and the last one's place.
LEMMA ReadyToGrow ==
    ASSUME NEW e, NEW new, Ready(e, new), NEW old, old = OldChunks(e),
           NEW ov, ov = Overwritten(e, old, new, CHUNK_SIZE)
    PROVE  /\ old \in Nat \ {0} /\ old = Count(firstChunk, e)
           /\ Places(e, old)[old - 1] = At(chunks, Start(firstChunk, e), old - 1)
           /\ Places(e, old)[old - 1] \in DOMAIN chunks
           /\ \E place :
                 /\ \A k \in Nat : k < old =>
                       place[k] = At(chunks, Start(firstChunk, e), k)
                 /\ OverwrittenTo(chunks, ov, place, old, new, CHUNK_SIZE, old)
                 /\ KeepsLinks(chunks, ov, place, old, new, CHUNK_SIZE)
<1>1. /\ Count(firstChunk, e) \in Nat \ {0} /\ Count(firstChunk, e) = OldChunks(e)
      /\ \A p \in DOMAIN chunks : IsChunk(chunks[p])
  BY ReadyMeans
<1>2. old \in Nat \ {0} /\ old <= Count(firstChunk, e)
  BY <1>1
<1>3. PICK place : place = Places(e, old)
  OBVIOUS
<1>4. /\ \A k \in Nat : k < old =>
            place[k] = At(chunks, Start(firstChunk, e), k)
      /\ \A k \in Nat : k < old => place[k] \in DOMAIN chunks
      /\ \A k, l \in Nat : k < old /\ l < old /\ place[k] = place[l] => k = l
  BY <1>2, <1>3, ReadyPlaces
<1>5. PICK rem : rem = CHUNK_SIZE
  OBVIOUS
<1>6. OverwrittenTo(chunks, ov, place, old, new, rem, old)
  BY <1>2, <1>3, <1>4, <1>5, OverwrittenIsLoop
<1>7. KeepsLinks(chunks, ov, place, old, new, rem)
  BY <1>1, <1>2, <1>4, <1>6, OverwritingKeepsLinks
<1>8. old - 1 \in Nat /\ old - 1 < old
  BY <1>2
<1> QED BY <1>1, <1>2, <1>3, <1>4, <1>5, <1>6, <1>7, <1>8

LEMMA UpdateInRoomKeepsInv ==
    ASSUME NEW e, NEW new, Ready(e, new), UpdateInRoom(e, new)
    PROVE  TextInv'
<1>1. /\ TypeOK /\ WrittenInOrder
      /\ SizesArePadded /\ ChunksAreUsed /\ SpillsWhenFull
  BY DEF Ready, TextInv
<1>2. /\ new.size \in Nat \ {0} /\ texts # <<>> /\ Longer(e, new.size) = new.size
      /\ IsSimple(chunks, Start(firstChunk, e), Count(firstChunk, e))
      /\ \A p \in DOMAIN chunks : IsChunk(chunks[p])
  BY ReadyMeans
<1>3. PICK old : old = OldChunks(e)
  OBVIOUS
<1>4. PICK m : m = ChunksPadded(new.size)
  OBVIOUS
<1>5. PICK req : req = m - old
  OBVIOUS
<1>6. PICK ov : ov = Overwritten(e, old, new, CHUNK_SIZE)
  OBVIOUS
<1>7. PICK last : last = Places(e, old)[old - 1]
  OBVIOUS
<1>8. PICK rem : rem = Rem(new.size)
  OBVIOUS
<1>9. PICK start : start = Start(firstChunk, e)
  OBVIOUS
<1>10. /\ old \in Nat \ {0} /\ old = Count(firstChunk, e)
       /\ last = At(chunks, start, old - 1) /\ last \in DOMAIN chunks
       /\ \E place :
             /\ \A k \in Nat : k < old => place[k] = At(chunks, start, k)
             /\ OverwrittenTo(chunks, ov, place, old, new, CHUNK_SIZE, old)
             /\ KeepsLinks(chunks, ov, place, old, new, CHUNK_SIZE)
  BY <1>3, <1>6, <1>7, <1>9, ReadyToGrow
<1>11. m \in Nat \ {0}
  BY <1>2, <1>4, ChunksAreNat
<1>12. /\ req > 0 /\ HasRoom(req)
       /\ Updated(e, new, Padded(new.size))
  BY <1>2, <1>3, <1>4, <1>5 DEF UpdateInRoom, NewChunks
<1>13. req \in Nat \ {0} /\ old + req = m
  BY <1>5, <1>10, <1>11, <1>12
\* There is room, so there is no second toast yet.
<1>14. 1 \in DOMAIN toasts /\ ToastsOK(toasts)
  BY <1>1, <1>2 DEF WrittenInOrder, TypeOK, ToastsOK
<1>15. toasts[1].used \in Nat /\ toasts[1].capacity \in Nat
  BY <1>14, ToastsAreRecords
<1>16. DOMAIN toasts = {0, 1} /\ toasts[1].used + req <= toasts[1].capacity
  <2>1. toasts[1].used <= toasts[1].capacity
    BY <1>1, <1>14 DEF SpillsWhenFull
  <2>2. toasts[1].used + req <= toasts[1].capacity
    BY <1>12, <1>13, <1>15, <2>1 DEF HasRoom, Left
  <2>3. toasts[1].used # toasts[1].capacity
    BY <1>13, <1>15, <2>2
  <2>4. DOMAIN toasts \in {{0}, {0, 1}}
    BY <1>1, <2>3 DEF SpillsWhenFull
  <2> QED BY <1>14, <2>2, <2>4
<1>17. last[1] = 1 /\ chunks[last].toastIndex = 1
  <2>1. last \in (DOMAIN toasts \ {0}) \X Nat
    BY <1>1, <1>10 DEF ChunksAreUsed
  <2> QED BY <1>1, <1>10, <1>16, <2>1 DEF SpillsWhenFull
<1>18. ChunkAt(chunks, last).toastIndex = 1
  BY <1>10, <1>17 DEF ChunkAt
<1>19. PICK used \in Nat : used = toasts[1].used
  BY <1>15
<1>20. PICK filled : filled = [ov EXCEPT ![last].nextOffset = used]
  OBVIOUS
<1>21. PICK cs2 : cs2 = chunks'
  OBVIOUS
<1>22. /\ cs2 = Appended(filled, 1, used, req, new, old, rem, 1)
       /\ toasts' = Counted(toasts, 1, req)
  <2>1. /\ NewChunks(e, new.size) - OldChunks(e) = req
        /\ Rem(Longer(e, new.size)) = rem
    BY <1>2, <1>3, <1>4, <1>5, <1>8 DEF NewChunks
  <2> QED BY <1>3, <1>6, <1>7, <1>17, <1>18, <1>19, <1>20, <1>21, <2>1
          DEF UpdateInRoom
<1>23. /\ DOMAIN ov = DOMAIN chunks
       /\ \A p \in DOMAIN chunks : /\ IsChunk(ov[p])
                                   /\ ov[p].toastIndex = chunks[p].toastIndex
  BY <1>10 DEF KeepsLinks
<1>24. /\ Relinked(ov, filled, last, <<1, used>>)
       /\ filled[last] = [data |-> ov[last].data,
                          toastIndex |-> ov[last].toastIndex,
                          nextOffset |-> used]
       /\ ov[last].toastIndex = 1
  <2>1. last \in DOMAIN ov /\ IsChunk(ov[last]) /\ ov[last].toastIndex = 1
    BY <1>10, <1>17, <1>23
  <2> QED BY <1>20, <2>1, RelinkedIs
<1>25. IsAppended(filled, cs2, 1, used, req, new, old, rem, 1)
  BY <1>10, <1>13, <1>22, AppendedIs
<1>26. IsAppended(filled, filled, 1, 0, 0, new, old, CHUNK_SIZE, 1)
  BY DEF IsAppended
<1>27. \A k \in Nat : <<1, used + k>> \notin DOMAIN chunks
  BY <1>1, <1>14, <1>19, BehindTheUsed
<1>28. Grows(chunks, ov, filled, filled, cs2, start, old, new, 1, 0, 0,
             1, used, req, 1)
  <2>1. old + 0 = old /\ old + 0 + req = m
    BY <1>10, <1>13
  <2>2. IsAppended(filled, cs2, 1, used, req, new, old + 0, Rem(new.size), 1)
    BY <1>8, <1>25, <2>1
  <2>3. Relinked(ov, filled, At(chunks, start, old - 1),
                 IF 0 = 0 THEN <<1, used>> ELSE <<1, 0>>)
    BY <1>10, <1>24
  <2>4. IsSimple(chunks, start, old)
    BY <1>2, <1>9, <1>10
  <2> QED BY <1>2, <1>4, <1>10, <1>13, <1>19, <1>26, <1>27, <2>1, <2>2, <2>3,
             <2>4 DEF Grows
<1>29. PICK path : Rewrites(chunks, cs2, start, old, path,
                            ChunksPadded(new.size), new)
  BY <1>28, TextGrows
<1>30. /\ DOMAIN toasts' = DOMAIN toasts /\ ToastsOK(toasts')
       /\ toasts'[1].used = used + req
       /\ toasts'[1].capacity = toasts[1].capacity
       /\ toasts'[0] = toasts[0]
  <2>1. PICK ts : ts = toasts'
    OBVIOUS
  <2>2. ts = Counted(toasts, 1, req)
    BY <1>22, <2>1
  <2>3. req \in Nat
    BY <1>13
  <2>4. /\ DOMAIN ts = DOMAIN toasts /\ ToastsOK(ts)
        /\ ts[1].used = toasts[1].used + req
        /\ ts[1].capacity = toasts[1].capacity
        /\ \A u \in DOMAIN toasts : u # 1 => ts[u] = toasts[u]
    BY <1>14, <2>2, <2>3, CountedIs
  <2>5. 0 \in DOMAIN toasts /\ 0 # 1
    BY <1>16
  <2> QED BY <1>19, <2>1, <2>4, <2>5
<1>31. /\ TypeOK' /\ WrittenInOrder' /\ SizesArePadded'
       /\ ChainsAreDisjoint' /\ ChunksHoldTexts'
  <2>1. Rewrites(chunks, chunks', Start(firstChunk, e), Count(firstChunk, e),
                 path, ChunksPadded(new.size), new)
    BY <1>9, <1>10, <1>21, <1>29
  <2>2. 1 \in DOMAIN toasts' /\ toasts'[1].used >= toasts[1].used
    BY <1>13, <1>14, <1>19, <1>30
  <2> QED BY <1>12, <1>30, <2>1, <2>2, UpdateKeepsTexts
<1>32. \A p \in DOMAIN filled : /\ p \in DOMAIN chunks /\ IsChunk(filled[p])
                                /\ filled[p].toastIndex = 1
  <2>1. \A p \in DOMAIN chunks : ov[p].toastIndex = 1
    BY <1>1, <1>16, <1>23 DEF SpillsWhenFull
  <2> QED BY <1>23, <1>24, <2>1 DEF Relinked, IsChunk
<1>33. \A p \in DOMAIN cs2 :
          /\ IsChunk(cs2[p]) /\ cs2[p].toastIndex = 1
          /\ p \in DOMAIN chunks \/ \E k \in Nat : k < req /\ p = <<1, used + k>>
  <2> SUFFICES ASSUME NEW p \in DOMAIN cs2
               PROVE  /\ IsChunk(cs2[p]) /\ cs2[p].toastIndex = 1
                      /\ \/ p \in DOMAIN chunks
                         \/ \E k \in Nat : k < req /\ p = <<1, used + k>>
    OBVIOUS
  <2>1. ASSUME NEW k \in Nat, k < req, p = <<1, used + k>>
        PROVE  IsChunk(cs2[p]) /\ cs2[p].toastIndex = 1
    <3>1. cs2[p] = NewChunk(1, used, req, new, old, rem, 1, k)
      BY <1>25, <2>1 DEF IsAppended
    <3> QED BY <3>1 DEF NewChunk, IsChunk
  <2>2. CASE \A k \in Nat : k < req => p # <<1, used + k>>
    <3>1. p \in DOMAIN filled /\ cs2[p] = filled[p]
      BY <1>25, <2>2 DEF IsAppended
    <3> QED BY <1>32, <3>1
  <2> QED BY <2>1, <2>2
<1>34. ChunksAreUsed'
  <2>1. ASSUME NEW p \in DOMAIN cs2
        PROVE  /\ p \in (DOMAIN toasts' \ {0}) \X Nat
               /\ p[2] < toasts'[p[1]].used
    <3>1. CASE p \in DOMAIN chunks
      <4>1. p \in (DOMAIN toasts \ {0}) \X Nat /\ p[2] < toasts[p[1]].used
        BY <1>1, <3>1 DEF ChunksAreUsed
      <4>2. p[1] = 1 /\ p[2] \in Nat
        BY <1>16, <4>1
      <4>3. p[2] < used + req
        BY <1>13, <1>19, <4>1, <4>2
      <4> QED BY <1>30, <4>1, <4>2, <4>3
    <3>2. ASSUME NEW k \in Nat, k < req, p = <<1, used + k>>
          PROVE  /\ p \in (DOMAIN toasts' \ {0}) \X Nat
                 /\ p[2] < toasts'[p[1]].used
      <4>1. p[1] = 1 /\ p[2] = used + k /\ used + k < used + req
        BY <1>13, <3>2
      <4> QED BY <1>16, <1>30, <3>2, <4>1
    <3> QED BY <1>33, <3>1, <3>2
  <2>2. toasts'[0].used = 0
    BY <1>1, <1>30 DEF ChunksAreUsed
  <2> QED BY <1>21, <1>33, <2>1, <2>2 DEF ChunksAreUsed, IsChunk
<1>35. SpillsWhenFull'
  <2>1. DOMAIN toasts' = {0, 1}
    BY <1>16, <1>30
  <2>2. toasts'[0].used <= toasts'[0].capacity
    BY <1>1, <1>16, <1>30 DEF SpillsWhenFull
  <2>3. toasts'[1].used <= toasts'[1].capacity
    BY <1>16, <1>19, <1>30
  <2> QED BY <1>21, <1>33, <2>1, <2>2, <2>3 DEF SpillsWhenFull
<1> QED BY <1>31, <1>34, <1>35 DEF TextInv

\* createNewToast: a fresh toast, which the first one names as its next.
IsLinked(ts, linked, fresh, capacity) ==
    /\ fresh \in Nat /\ fresh > 1 /\ fresh \notin DOMAIN ts
    /\ DOMAIN linked = DOMAIN ts \cup {fresh} /\ 0 \in DOMAIN ts
    /\ ToastsOK(linked)
    /\ linked[1].nextToastIndex = fresh
    /\ linked[1].used = ts[1].used
    /\ linked[1].capacity = ts[1].capacity
    /\ linked[fresh].used = 0 /\ linked[fresh].capacity = capacity
    /\ linked[fresh].nextToastIndex = 0
    /\ \A t \in DOMAIN ts : t # 1 => linked[t] = ts[t]

LEMMA LinkedIs ==
    ASSUME NEW ts, ToastsOK(ts), 1 \in DOMAIN ts, NEW capacity \in Nat,
           NEW fresh, fresh = Cardinality(DOMAIN ts), NEW linked,
           linked = With([ts EXCEPT ![1].nextToastIndex = fresh], fresh,
                         [NoToast EXCEPT !.capacity = capacity])
    PROVE  IsLinked(ts, linked, fresh, capacity)
<1>1. PICK D : D = DOMAIN ts
  OBVIOUS
<1>2. /\ ts \in [D -> [capacity : Nat, used : Nat, nextToastIndex : D]]
      /\ D = 0 .. fresh - 1 /\ IsFiniteSet(D)
  BY <1>1 DEF ToastsOK
<1>3. fresh \in Nat /\ fresh > 1
  <2>1. fresh \in Nat
    BY <1>1, <1>2, FS_CardinalityType
  <2>2. 1 \in 0 .. fresh - 1
    BY <1>1, <1>2
  <2> QED BY <2>1, <2>2
<1>4. fresh \notin D /\ D \cup {fresh} = 0 .. fresh /\ 0 \in D /\ 1 \in D
  BY <1>2, <1>3
<1>5. Cardinality(D \cup {fresh}) = fresh + 1 /\ IsFiniteSet(D \cup {fresh})
  BY <1>1, <1>2, <1>4, FS_AddElement
<1>6. PICK r : r = ts[1]
  OBVIOUS
<1>7. r \in [capacity : Nat, used : Nat, nextToastIndex : D]
  BY <1>2, <1>4, <1>6
<1>8. PICK r1 : r1 = [r EXCEPT !.nextToastIndex = fresh]
  OBVIOUS
<1>9. /\ r1 \in [capacity : Nat, used : Nat, nextToastIndex : D \cup {fresh}]
      /\ r1.nextToastIndex = fresh /\ r1.used = r.used
      /\ r1.capacity = r.capacity
  BY <1>7, <1>8
<1>10. PICK r2 : r2 = [NoToast EXCEPT !.capacity = capacity]
  OBVIOUS
<1>11. /\ r2 \in [capacity : Nat, used : Nat, nextToastIndex : D \cup {fresh}]
       /\ r2.nextToastIndex = 0 /\ r2.used = 0 /\ r2.capacity = capacity
  BY <1>4, <1>10 DEF NoToast
<1>12. PICK f : f = [ts EXCEPT ![1] = r1]
  OBVIOUS
<1>13. DOMAIN f = D /\ f[1] = r1 /\ \A t \in D : t # 1 => f[t] = ts[t]
  BY <1>2, <1>4, <1>12
<1>14. linked = With(f, fresh, r2)
  BY <1>6, <1>8, <1>10, <1>12
<1>15. /\ linked = [y \in D \cup {fresh} |-> IF y = fresh THEN r2 ELSE f[y]]
       /\ DOMAIN linked = D \cup {fresh} /\ linked[fresh] = r2
       /\ \A t \in D : linked[t] = f[t]
  BY <1>4, <1>13, <1>14 DEF With
<1>16. \A t \in D : linked[t] \in [capacity : Nat, used : Nat,
                                  nextToastIndex : D \cup {fresh}]
  <2> SUFFICES ASSUME NEW t \in D
               PROVE  linked[t] \in [capacity : Nat, used : Nat,
                                     nextToastIndex : D \cup {fresh}]
    OBVIOUS
  <2>1. CASE t = 1
    BY <1>9, <1>13, <1>15, <2>1
  <2>2. CASE t # 1
    <3>1. ts[t] \in [capacity : Nat, used : Nat, nextToastIndex : D]
      BY <1>2
    <3> QED BY <1>13, <1>15, <2>2, <3>1
  <2> QED BY <2>1, <2>2
<1>17. linked \in [D \cup {fresh} -> [capacity : Nat, used : Nat,
                                     nextToastIndex : D \cup {fresh}]]
  BY <1>11, <1>15, <1>16
<1>18. ToastsOK(linked)
  <2>1. D \cup {fresh} = 0 .. Cardinality(D \cup {fresh}) - 1
    BY <1>3, <1>4, <1>5
  <2> QED BY <1>5, <1>15, <1>17, <2>1 DEF ToastsOK
<1> QED BY <1>1, <1>3, <1>4, <1>6, <1>9, <1>11, <1>13, <1>15, <1>18
        DEF IsLinked

LEMMA UpdateInNewToastKeepsInv ==
    ASSUME NEW e, NEW new, Ready(e, new), NEW slack \in Slacks,
           UpdateInNewToast(e, new, slack)
    PROVE  TextInv'
<1>1. /\ TypeOK /\ WrittenInOrder
      /\ SizesArePadded /\ ChunksAreUsed /\ SpillsWhenFull
  BY DEF Ready, TextInv
<1>2. /\ new.size \in Nat \ {0} /\ texts # <<>> /\ Longer(e, new.size) = new.size
      /\ IsSimple(chunks, Start(firstChunk, e), Count(firstChunk, e))
      /\ \A p \in DOMAIN chunks : IsChunk(chunks[p])
  BY ReadyMeans
<1>3. PICK old : old = OldChunks(e)
  OBVIOUS
<1>4. PICK m : m = ChunksPadded(new.size)
  OBVIOUS
<1>5. PICK req : req = m - old
  OBVIOUS
<1>6. PICK ov : ov = Overwritten(e, old, new, CHUNK_SIZE)
  OBVIOUS
<1>7. PICK last : last = Places(e, old)[old - 1]
  OBVIOUS
<1>8. PICK rem : rem = Rem(new.size)
  OBVIOUS
<1>9. PICK start : start = Start(firstChunk, e)
  OBVIOUS
<1>10. /\ old \in Nat \ {0} /\ old = Count(firstChunk, e)
       /\ last = At(chunks, start, old - 1) /\ last \in DOMAIN chunks
       /\ \E place :
             /\ \A k \in Nat : k < old => place[k] = At(chunks, start, k)
             /\ OverwrittenTo(chunks, ov, place, old, new, CHUNK_SIZE, old)
             /\ KeepsLinks(chunks, ov, place, old, new, CHUNK_SIZE)
  BY <1>3, <1>6, <1>7, <1>9, ReadyToGrow
<1>11. m \in Nat \ {0}
  BY <1>2, <1>4, ChunksAreNat
<1>12. /\ req > 0 /\ ~ HasRoom(req)
       /\ Updated(e, new, Padded(new.size))
  BY <1>2, <1>3, <1>4, <1>5 DEF UpdateInNewToast, NewChunks
<1>13. req \in Nat \ {0} /\ old + req = m
  BY <1>5, <1>10, <1>11, <1>12
<1>14. 1 \in DOMAIN toasts /\ ToastsOK(toasts)
  BY <1>1, <1>2 DEF WrittenInOrder, TypeOK, ToastsOK
<1>15. toasts[1].used \in Nat /\ toasts[1].capacity \in Nat
  BY <1>14, ToastsAreRecords
<1>16. PICK left : left = Left
  OBVIOUS
<1>17. /\ left \in Nat /\ left < req
       /\ toasts[1].used + left = toasts[1].capacity
  <2>1. toasts[1].used <= toasts[1].capacity
    BY <1>1, <1>14 DEF SpillsWhenFull
  <2> QED BY <1>12, <1>13, <1>15, <1>16, <2>1 DEF HasRoom, Left
<1>18. PICK t : t = last[1]
  OBVIOUS
<1>19. t \in DOMAIN toasts /\ t # 0
  BY <1>1, <1>10, <1>18 DEF ChunksAreUsed
<1>20. PICK used \in Nat : used = toasts[t].used
  BY <1>14, <1>19, ToastsAreRecords
<1>21. PICK fresh : fresh = Cardinality(DOMAIN toasts)
  OBVIOUS
<1>22. PICK capacity : capacity = req + toasts[1].capacity + slack
  OBVIOUS
<1>23. capacity \in Nat /\ capacity >= req
  BY <1>13, <1>15, <1>22, ConstantsAssumption
<1>24. PICK linked :
          linked = With([toasts EXCEPT ![1].nextToastIndex = fresh], fresh,
                        [NoToast EXCEPT !.capacity = capacity])
  OBVIOUS
<1>25. IsLinked(toasts, linked, fresh, capacity)
  BY <1>14, <1>21, <1>23, <1>24, LinkedIs
<1>26. PICK next : next = linked[t].nextToastIndex
  OBVIOUS
<1>27. PICK rest \in Nat : rest = req - left
  BY <1>13, <1>17
<1>28. rest > 0 /\ rest <= req
  BY <1>13, <1>17, <1>27
<1>29. PICK i : i = IF left = 0 THEN fresh ELSE ov[last].toastIndex
  OBVIOUS
<1>30. PICK o : o = IF left = 0 THEN 0 ELSE used
  OBVIOUS
<1>31. PICK filled :
          filled = [ov EXCEPT ![last].toastIndex = i, ![last].nextOffset = o]
  OBVIOUS
<1>32. PICK begun : begun = Appended(filled, t, used, left, new, old,
                                     CHUNK_SIZE, fresh)
  OBVIOUS
<1>33. PICK cs2 : cs2 = chunks'
  OBVIOUS
<1>34. PICK ts2 : ts2 = toasts'
  OBVIOUS
<1>35. /\ DOMAIN ov = DOMAIN chunks
       /\ \A p \in DOMAIN chunks : /\ IsChunk(ov[p])
                                   /\ ov[p].toastIndex = chunks[p].toastIndex
  BY <1>10 DEF KeepsLinks
<1>36. filled = [ov EXCEPT ![last].toastIndex = IF left = 0 THEN fresh ELSE @,
                           ![last].nextOffset = IF left = 0 THEN 0 ELSE used]
  BY <1>29, <1>30, <1>31
<1>37. /\ cs2 = Appended(begun, next, linked[next].used, rest, new, old + left,
                         rem, next)
       /\ ts2 = Counted(Counted(linked, t, left), next, rest)
  <2>1. /\ NewChunks(e, new.size) - OldChunks(e) = req
        /\ Rem(Longer(e, new.size)) = rem
    BY <1>2, <1>3, <1>4, <1>5, <1>8 DEF NewChunks
  <2> QED BY <1>3, <1>6, <1>7, <1>16, <1>18, <1>20, <1>21, <1>22, <1>24, <1>26,
             <1>27, <1>32, <1>33, <1>34, <1>36, <2>1 DEF UpdateInNewToast
<1>38. PICK mid : mid = Counted(linked, t, left)
  OBVIOUS
<1>39. /\ ToastsOK(linked) /\ DOMAIN linked = DOMAIN toasts \cup {fresh}
       /\ t \in DOMAIN linked /\ 0 \in DOMAIN linked /\ 1 \in DOMAIN linked
       /\ fresh \in Nat /\ fresh > 1 /\ fresh \notin DOMAIN toasts
  BY <1>14, <1>19, <1>25 DEF IsLinked
<1>40. /\ DOMAIN mid = DOMAIN linked /\ ToastsOK(mid)
       /\ mid[t].used = linked[t].used + left
       /\ mid[t].capacity = linked[t].capacity
       /\ mid[t].nextToastIndex = linked[t].nextToastIndex
       /\ \A u \in DOMAIN linked : u # t => mid[u] = linked[u]
  BY <1>17, <1>38, <1>39, CountedIs
<1>41. next \in DOMAIN mid
  BY <1>26, <1>39, <1>40, ToastsAreRecords
<1>42. /\ DOMAIN ts2 = DOMAIN mid /\ ToastsOK(ts2)
       /\ ts2[next].used = mid[next].used + rest
       /\ ts2[next].capacity = mid[next].capacity
       /\ ts2[next].nextToastIndex = mid[next].nextToastIndex
       /\ \A u \in DOMAIN mid : u # next => ts2[u] = mid[u]
  BY SMTT(30), <1>27, <1>37, <1>38, <1>40, <1>41, CountedIs
<1>43. ts2[1].used >= toasts[1].used /\ 1 \in DOMAIN ts2
  <2>1. linked[1].used = toasts[1].used /\ 1 \in DOMAIN mid
    BY <1>25, <1>39, <1>40 DEF IsLinked
  <2>2. mid[1].used \in Nat
    BY <1>40, <2>1, ToastsAreRecords
  <2>3. mid[1].used >= toasts[1].used
    BY <1>15, <1>17, <1>39, <1>40, <2>1, <2>2
  <2> QED BY <1>15, <1>27, <1>42, <2>1, <2>2, <2>3
<1>44. /\ TypeOK' /\ WrittenInOrder'
  BY <1>12, <1>34, <1>42, <1>43, UpdatedTypes
\* The text spilled before: its last toast has no successor, and the rest is
\* written to what index 0 is taken for.
<1>45. CASE t # 1
  <2>1. DOMAIN toasts \notin {{0}, {0, 1}}
    BY <1>19, <1>45
  <2>2. left = 0 /\ toasts[t].nextToastIndex = 0
    BY <1>1, <1>15, <1>17, <1>19, <1>45, <2>1 DEF SpillsWhenFull
  <2>3. linked[t] = toasts[t]
    BY <1>19, <1>25, <1>45 DEF IsLinked
  <2>4. next = 0 /\ linked[0] = toasts[0]
    BY <1>25, <1>26, <2>2, <2>3 DEF IsLinked
  <2>5. linked[0].used = 0
    BY <1>1, <2>4 DEF ChunksAreUsed
  <2>6. old + left \in Nat
    BY <1>10, <1>17
  <2>7. IsAppended(begun, cs2, next, 0, rest, new, old + left, rem, next)
    BY <1>27, <1>37, <2>4, <2>5, <2>6, AppendedIs
  <2>8. <<next, 0 + 0>> \in DOMAIN cs2
    BY <1>27, <1>28, <2>7 DEF IsAppended
  <2>9. ~ Intact'
    BY <1>33, <2>4, <2>8 DEF Intact
  <2> QED BY <1>44, <2>9 DEF TextInv
<1>46. CASE t = 1
  <2>1. next = fresh /\ linked[fresh].used = 0
    BY <1>25, <1>26, <1>46 DEF IsLinked
  <2>2. IsAppended(filled, begun, 1, used, left, new, old, CHUNK_SIZE, fresh)
    BY <1>10, <1>17, <1>32, <1>46, AppendedIs
  <2>3. old + left \in Nat
    BY <1>10, <1>17
  <2>4. IsAppended(begun, cs2, fresh, 0, rest, new, old + left, rem, fresh)
    BY <1>27, <1>37, <2>1, <2>3, AppendedIs
  <2>5. toasts[1].used = used
    BY <1>20, <1>46
  <2>6. \A k \in Nat : <<1, used + k>> \notin DOMAIN chunks
    BY <1>1, <1>14, <2>5, BehindTheUsed
  <2>7. \A k \in Nat : <<fresh, 0 + k>> \notin DOMAIN chunks
    <3>1. \A p \in DOMAIN chunks : p[1] \in DOMAIN toasts
      BY <1>1 DEF ChunksAreUsed
    <3> QED BY <1>39, <3>1
  <2>8. left > 0 => DOMAIN toasts = {0, 1} /\ ov[last].toastIndex = 1
    <3> SUFFICES ASSUME left > 0
                 PROVE  DOMAIN toasts = {0, 1} /\ ov[last].toastIndex = 1
      OBVIOUS
    <3>1. toasts[1].used # toasts[1].capacity
      BY <1>15, <1>17
    <3>2. DOMAIN toasts = {0, 1}
      BY <1>1, <1>14, <3>1 DEF SpillsWhenFull
    <3>3. chunks[last].toastIndex = 1
      BY <1>1, <1>10, <3>2 DEF SpillsWhenFull
    <3> QED BY <1>10, <1>35, <3>2, <3>3
  <2>9. /\ Relinked(ov, filled, last, <<i, o>>)
        /\ filled[last] = [data |-> ov[last].data, toastIndex |-> i,
                           nextOffset |-> o]
    <3>1. last \in DOMAIN ov /\ IsChunk(ov[last])
      BY <1>10, <1>35
    <3>2. LinkedTo(ov, filled, last, i, o)
      BY <1>31 DEF LinkedTo
    <3> QED BY <3>1, <3>2, LinkedToIs
  <2>10. <<i, o>> = IF left = 0 THEN <<fresh, 0>> ELSE <<1, used>>
    BY <1>17, <1>29, <1>30, <2>8
  <2>11. Grows(chunks, ov, filled, begun, cs2, start, old, new, 1, used, left,
               fresh, 0, rest, fresh)
    <3>1. old + left + rest = m
      BY <1>10, <1>13, <1>17, <1>27
    <3>2. IsAppended(begun, cs2, fresh, 0, rest, new, old + left, Rem(new.size),
                     fresh)
      BY <1>8, <2>4
    <3>3. Relinked(ov, filled, At(chunks, start, old - 1),
                   IF left = 0 THEN <<fresh, 0>> ELSE <<1, used>>)
      BY <1>10, <2>9, <2>10
    <3>4. IsSimple(chunks, start, old)
      BY <1>2, <1>9, <1>10
    <3>5. 1 # fresh /\ rest \in Nat \ {0} /\ 0 \in Nat /\ new.size \in Nat
      BY <1>2, <1>27, <1>28, <1>39
    <3> QED BY <1>2, <1>4, <1>10, <1>17, <1>20, <2>2, <2>6, <2>7, <3>1, <3>2,
               <3>3, <3>4, <3>5 DEF Grows
  <2>12. PICK path : Rewrites(chunks, cs2, start, old, path,
                              ChunksPadded(new.size), new)
    BY <2>11, TextGrows
  <2>13. /\ TypeOK' /\ WrittenInOrder' /\ SizesArePadded'
         /\ ChainsAreDisjoint' /\ ChunksHoldTexts'
    <3>1. Rewrites(chunks, chunks', Start(firstChunk, e), Count(firstChunk, e),
                   path, ChunksPadded(new.size), new)
      BY <1>9, <1>10, <1>33, <2>12
    <3> QED BY <1>12, <1>34, <1>42, <1>43, <3>1, UpdateKeepsTexts
  <2>14. /\ DOMAIN ts2 = DOMAIN toasts \cup {fresh}
         /\ ts2[1].used = used + left /\ ts2[1].capacity = toasts[1].capacity
         /\ ts2[fresh].used = rest /\ ts2[fresh].capacity = capacity
         /\ ts2[fresh].nextToastIndex = 0
         /\ \A u \in DOMAIN toasts \ {1} : ts2[u] = toasts[u]
    <3>1. /\ linked[1].used = used /\ linked[1].capacity = toasts[1].capacity
          /\ linked[fresh].capacity = capacity
          /\ linked[fresh].nextToastIndex = 0
          /\ \A u \in DOMAIN toasts \ {1} : linked[u] = toasts[u]
      BY <1>25, <2>5 DEF IsLinked
    <3>2. /\ mid[1].used = used + left /\ mid[1].capacity = toasts[1].capacity
          /\ mid[fresh] = linked[fresh]
          /\ \A u \in DOMAIN toasts \ {1} : mid[u] = toasts[u]
      BY <1>39, <1>40, <1>46, <3>1
    <3> QED BY <1>27, <1>39, <1>40, <1>42, <2>1, <3>1, <3>2
  <2>15. \A p \in DOMAIN cs2 :
            /\ IsChunk(cs2[p])
            /\ \/ p \in DOMAIN chunks
               \/ \E k \in Nat : k < left /\ p = <<1, used + k>>
               \/ \E k \in Nat : k < rest /\ p = <<fresh, 0 + k>>
    <3>1. \A p \in DOMAIN filled : p \in DOMAIN chunks /\ IsChunk(filled[p])
      BY <1>35, <2>9 DEF Relinked, IsChunk
    <3>2. ASSUME NEW p \in DOMAIN begun
          PROVE  /\ IsChunk(begun[p])
                 /\ \/ p \in DOMAIN chunks
                    \/ \E k \in Nat : k < left /\ p = <<1, used + k>>
      <4>1. ASSUME NEW k \in Nat, k < left, p = <<1, used + k>>
            PROVE  IsChunk(begun[p])
        <5>1. begun[p] = NewChunk(1, used, left, new, old, CHUNK_SIZE, fresh, k)
          BY <2>2, <4>1 DEF IsAppended
        <5> QED BY <5>1 DEF NewChunk, IsChunk
      <4>2. CASE \A k \in Nat : k < left => p # <<1, used + k>>
        <5>1. p \in DOMAIN filled /\ begun[p] = filled[p]
          BY <2>2, <4>2 DEF IsAppended
        <5> QED BY <3>1, <5>1
      <4> QED BY <4>1, <4>2
    <3> SUFFICES ASSUME NEW p \in DOMAIN cs2
                 PROVE  /\ IsChunk(cs2[p])
                        /\ \/ p \in DOMAIN chunks
                           \/ \E k \in Nat : k < left /\ p = <<1, used + k>>
                           \/ \E k \in Nat : k < rest /\ p = <<fresh, 0 + k>>
      OBVIOUS
    <3>3. ASSUME NEW k \in Nat, k < rest, p = <<fresh, 0 + k>>
          PROVE  IsChunk(cs2[p])
      <4>1. cs2[p] = NewChunk(fresh, 0, rest, new, old + left, rem, fresh, k)
        BY <2>4, <3>3 DEF IsAppended
      <4> QED BY <4>1 DEF NewChunk, IsChunk
    <3>4. CASE \A k \in Nat : k < rest => p # <<fresh, 0 + k>>
      <4>1. p \in DOMAIN begun /\ cs2[p] = begun[p]
        BY <2>4, <3>4 DEF IsAppended
      <4> QED BY <3>2, <4>1
    <3> QED BY <3>3, <3>4
  <2>16. ChunksAreUsed'
    <3>1. ASSUME NEW p \in DOMAIN cs2
          PROVE  /\ p \in (DOMAIN ts2 \ {0}) \X Nat
                 /\ p[2] < ts2[p[1]].used
      <4>1. CASE p \in DOMAIN chunks
        <5>1. p \in (DOMAIN toasts \ {0}) \X Nat /\ p[2] < toasts[p[1]].used
          BY <1>1, <4>1 DEF ChunksAreUsed
        <5>2. CASE p[1] = 1
          <6>1. p[2] \in Nat /\ p[2] < used + left
            BY <1>17, <2>5, <5>1, <5>2
          <6> QED BY <2>14, <5>1, <5>2, <6>1
        <5>3. CASE p[1] # 1
          BY <2>14, <5>1, <5>3
        <5> QED BY <5>2, <5>3
      <4>2. ASSUME NEW k \in Nat, k < left, p = <<1, used + k>>
            PROVE  /\ p \in (DOMAIN ts2 \ {0}) \X Nat
                   /\ p[2] < ts2[p[1]].used
        <5>1. p[1] = 1 /\ p[2] = used + k /\ used + k < used + left
              /\ used + k \in Nat
          BY <1>17, <4>2
        <5> QED BY <1>43, <2>14, <4>2, <5>1
      <4>3. ASSUME NEW k \in Nat, k < rest, p = <<fresh, 0 + k>>
            PROVE  /\ p \in (DOMAIN ts2 \ {0}) \X Nat
                   /\ p[2] < ts2[p[1]].used
        <5>1. p[1] = fresh /\ p[2] = k /\ fresh # 0
          BY <1>39, <4>3
        <5> QED BY <2>14, <4>3, <5>1
      <4> QED BY <2>15, <4>1, <4>2, <4>3
    <3>2. ts2[0].used = 0
      <4>1. 0 \in DOMAIN toasts \ {1}
        BY <1>25 DEF IsLinked
      <4> QED BY <1>1, <2>14, <4>1 DEF ChunksAreUsed
    <3> QED BY <1>33, <1>34, <2>15, <3>1, <3>2 DEF ChunksAreUsed, IsChunk
  <2>17. SpillsWhenFull'
    <3>1. \A u \in DOMAIN ts2 \ {0, 1} : ts2[u].nextToastIndex = 0
      BY <1>1, <2>14 DEF SpillsWhenFull
    <3>2. \A u \in DOMAIN ts2 : ts2[u].used <= ts2[u].capacity
      <4>1. \A u \in DOMAIN toasts : toasts[u].used <= toasts[u].capacity
        BY <1>1 DEF SpillsWhenFull
      <4>2. ts2[1].used <= ts2[1].capacity
        BY <1>15, <1>17, <2>5, <2>14
      <4>3. ts2[fresh].used <= ts2[fresh].capacity
        BY <1>13, <1>23, <1>28, <2>14
      <4> QED BY <2>14, <4>1, <4>2, <4>3
    <3>3. DOMAIN ts2 \notin {{0}, {0, 1}}
      BY <1>39, <2>14
    <3>4. ts2[1].used = ts2[1].capacity
      BY <1>17, <2>5, <2>14
    <3> QED BY <1>33, <1>34, <3>1, <3>2, <3>3, <3>4 DEF SpillsWhenFull
  <2> QED BY <2>13, <2>16, <2>17 DEF TextInv
<1> QED BY <1>45, <1>46

-----------------------------------------------------------------------------
(* ADD.                                                                    *)

\* No text of an ADD fills its last chunk: writeElement, other than an
\* update, takes its size as it is.
NoFullChunks == \A n \in InitialSizes : Rem(n) # 0

\* The state in which the text of element e is written.
ReadyToWrite(e, n) ==
    /\ TextInv
    /\ texts # <<>>
    /\ e \in Elements
    /\ e = Cardinality(DOMAIN firstChunk) + 1
    /\ n = ChunksOf(texts[e].size)
    /\ NoFullChunks

LEMMA ReadyToWriteMeans ==
    ASSUME NEW e, NEW n, ReadyToWrite(e, n)
    PROVE  /\ TypeOK /\ WrittenInOrder /\ Intact /\ SizesArePadded
           /\ ChunksAreUsed /\ SpillsWhenFull
           /\ texts \in [Elements -> Text] /\ texts # <<>>
           /\ \A f \in Elements : texts[f].size \in Nat \ {0}
           /\ Rem(texts[e].size) # 0
           /\ n \in Nat \ {0} /\ n = ChunksPadded(texts[e].size)
           /\ Cardinality(Elements) \in Nat
           /\ e \in Nat \ {0} /\ e <= Cardinality(Elements)
           /\ DOMAIN firstChunk = 1 .. e - 1
           /\ e \notin DOMAIN firstChunk
           /\ DOMAIN firstChunk \cup {e} = 1 .. e
           /\ Cardinality(1 .. e) = e
           /\ DOMAIN toasts = {0, 1} /\ ToastsOK(toasts)
           /\ toasts[1].used \in Nat /\ toasts[1].capacity \in Nat
           /\ toasts[1].used = ChunksUpTo(texts, e - 1)
           /\ MinToastCapacity(texts) <= toasts[1].capacity
           /\ \A f \in Elements : texts[f].size \in InitialSizes
<1> USE DEF ReadyToWrite
<1>1. TypeOK /\ WrittenInOrder
  BY DEF TextInv
<1>2. /\ Elements = 1 .. Cardinality(Elements) /\ IsFiniteSet(Elements)
      /\ Cardinality(Elements) \in Nat
  BY ConstantsAssumption, FS_CardinalityType
<1>3. PICK c : c = Cardinality(DOMAIN firstChunk)
  OBVIOUS
<1>4. DOMAIN firstChunk = 1 .. c /\ e = c + 1
  BY <1>1, <1>3 DEF WrittenInOrder
<1>5. IsFiniteSet(DOMAIN firstChunk)
  BY <1>1, <1>2, FS_Subset DEF TypeOK
<1>6. c \in Nat
  BY <1>3, <1>5, FS_CardinalityType
<1>7. /\ e \in Nat \ {0} /\ e <= Cardinality(Elements) /\ e - 1 = c
      /\ c < Cardinality(Elements)
  BY <1>2, <1>4, <1>6
<1>8. e \notin DOMAIN firstChunk /\ DOMAIN firstChunk \cup {e} = 1 .. e
  BY <1>4, <1>6, <1>7
<1>9. Cardinality(1 .. e) = e
  BY <1>3, <1>4, <1>5, <1>8, FS_AddElement
<1>10. /\ DOMAIN toasts = {0, 1}
       /\ toasts[1].used = ChunksUpTo(texts, c)
       /\ MinToastCapacity(texts) <= toasts[1].capacity
       /\ Intact
       /\ \A f \in Elements : texts[f].size \in InitialSizes
  BY <1>1, <1>3, <1>7 DEF WrittenInOrder
<1>11. ToastsOK(toasts)
  BY <1>1 DEF TypeOK, ToastsOK
<1>12. toasts[1].used \in Nat /\ toasts[1].capacity \in Nat
  BY <1>10, <1>11, ToastsAreRecords
<1>13. texts \in [Elements -> Text]
  BY <1>1 DEF TypeOK
<1>14. \A f \in Elements : texts[f].size \in Nat \ {0}
  BY <1>10, ConstantsAssumption
<1>15. Rem(texts[e].size) # 0
  BY <1>10 DEF NoFullChunks
<1>16. n \in Nat \ {0} /\ n = ChunksPadded(texts[e].size)
  BY <1>14, <1>15, ChunksAreNat
<1>17. SizesArePadded /\ ChunksAreUsed /\ SpillsWhenFull
  BY <1>10 DEF TextInv
<1> QED BY <1>1, <1>2, <1>4, <1>7, <1>8, <1>9, <1>10, <1>11, <1>12, <1>13,
           <1>14, <1>15, <1>16, <1>17

\* The places behind the used chunks of the first toast.
Behind(path, used) == \A k \in Nat : path[k] = <<1, used + k>>

\* The chunks of a new text are a path that holds it.
LEMMA AppendedHolds ==
    ASSUME NEW cs, NEW cs2, NEW used \in Nat, NEW n, NEW text,
           text.size \in Nat, n = ChunksPadded(text.size),
           IsAppended(cs, cs2, 1, used, n, text, 0, Rem(text.size), 1),
           NEW path, Behind(path, used)
    PROVE  /\ IsPath(cs2, <<1, used>>, n, path)
           /\ \A k \in Nat : k < n => path[k] \in DOMAIN cs2
           /\ PathHolds(cs2, path, n, text)
<1>1. n \in Nat \ {0}
  BY ChunksAreNat
<1>2. \A k \in Nat : path[k] = <<1, used + k>>
  BY DEF Behind
<1>3. ASSUME NEW k \in Nat, k < n
      PROVE  /\ path[k] \in DOMAIN cs2
             /\ cs2[path[k]] = NewChunk(1, used, n, text, 0, Rem(text.size), 1, k)
  BY <1>2, <1>3 DEF IsAppended
<1>4. ASSUME NEW k \in Nat, k + 1 < n
      PROVE  path[k + 1] = LinkFrom(cs2, path[k])
  <2>1. k < n /\ k # n - 1
    BY <1>1, <1>4
  <2>2. /\ cs2[path[k]].toastIndex = 1
        /\ cs2[path[k]].nextOffset = used + k + 1
    <3>1. PICK c : c = cs2[path[k]]
      OBVIOUS
    <3>2. c = NewChunk(1, used, n, text, 0, Rem(text.size), 1, k)
      BY <1>3, <2>1, <3>1
    <3>3. c.toastIndex = 1 /\ c.nextOffset = used + k + 1
      BY <2>1, <3>2 DEF NewChunk
    <3> QED BY <3>1, <3>3
  <2>3. ChunkAt(cs2, path[k]) = cs2[path[k]]
    BY <1>3, <2>1 DEF ChunkAt
  <2>4. path[k + 1] = <<1, used + k + 1>>
    <3>1. k + 1 \in Nat /\ used + (k + 1) = used + k + 1
      OBVIOUS
    <3>2. path[k + 1] = <<1, used + (k + 1)>>
      BY <1>2, <3>1
    <3> QED BY <3>1, <3>2
  <2> QED BY <2>2, <2>3, <2>4 DEF LinkFrom
<1>5. IsPath(cs2, <<1, used>>, n, path)
  <2>1. path[0] = <<1, used>>
    BY <1>2
  <2> QED BY <1>4, <2>1 DEF IsPath
<1>7. ASSUME NEW k \in Nat, NEW j \in 1 .. CHUNK_SIZE, k < n,
             k * CHUNK_SIZE + j <= text.size
      PROVE  cs2[path[k]].data[j] = ByteOf(text, k * CHUNK_SIZE + j)
  <2>1. PICK size : size = LastSize(k + 1, n, Rem(text.size))
    OBVIOUS
  <2>2. j <= size
    <3>1. k = n - 1 => j <= Rem(text.size)
      BY <1>7, BytesOfLastChunk
    <3>2. k + 1 = n <=> k = n - 1
      BY <1>1
    <3> QED BY <2>1, <3>1, <3>2, ChunkSizeIsNat DEF LastSize
  <2>3. cs2[path[k]].data = Copy(ZeroData, text, 0 + k, size)
    <3>1. PICK c : c = cs2[path[k]]
      OBVIOUS
    <3>2. c = NewChunk(1, used, n, text, 0, Rem(text.size), 1, k)
      BY <1>3, <1>7, <3>1
    <3>3. c.data = Copy(ZeroData, text, 0 + k, LastSize(k + 1, n, Rem(text.size)))
      BY <3>2 DEF NewChunk
    <3> QED BY <2>1, <3>1, <3>3
  <2>4. 0 + k = k
    OBVIOUS
  <2> QED BY <2>2, <2>3, <2>4, CopiedByte
<1> QED BY <1>3, <1>5, <1>7 DEF PathHolds

LEMMA SizedNow ==
    ASSUME SizesArePadded,
           \A f \in DOMAIN firstChunk : texts[f].size \in Nat
    PROVE  Sized(firstChunk, texts)
<1>1. ASSUME NEW f \in DOMAIN firstChunk
      PROVE  /\ texts[f].size \in Nat
             /\ Count(firstChunk, f) = ChunksPadded(texts[f].size)
             /\ Count(firstChunk, f) \in Nat \ {0}
  <2>1. firstChunk[f].size = Padded(texts[f].size) /\ texts[f].size \in Nat
    BY DEF SizesArePadded
  <2> QED BY <2>1, PaddedSize, ChunksAreNat DEF Count
<1> QED BY <1>1 DEF Sized

LEMMA WriteElementKeepsInv ==
    ASSUME NEW e, NEW n, ReadyToWrite(e, n), WriteElement(e)
    PROVE  TextInv'
<1>1. /\ TypeOK /\ WrittenInOrder /\ Intact /\ SizesArePadded
      /\ ChunksAreUsed /\ SpillsWhenFull
      /\ texts \in [Elements -> Text] /\ texts # <<>>
      /\ \A f \in Elements : texts[f].size \in Nat \ {0}
      /\ Rem(texts[e].size) # 0
      /\ n \in Nat \ {0} /\ n = ChunksPadded(texts[e].size)
      /\ Cardinality(Elements) \in Nat
      /\ e \in Nat \ {0} /\ e <= Cardinality(Elements)
      /\ DOMAIN firstChunk = 1 .. e - 1
      /\ e \notin DOMAIN firstChunk
      /\ DOMAIN firstChunk \cup {e} = 1 .. e
      /\ Cardinality(1 .. e) = e
      /\ DOMAIN toasts = {0, 1} /\ ToastsOK(toasts)
      /\ toasts[1].used \in Nat /\ toasts[1].capacity \in Nat
      /\ toasts[1].used = ChunksUpTo(texts, e - 1)
      /\ MinToastCapacity(texts) <= toasts[1].capacity
      /\ \A f \in Elements : texts[f].size \in InitialSizes
  BY ReadyToWriteMeans
<1>2. e \in Elements /\ n = ChunksOf(texts[e].size)
  BY DEF ReadyToWrite
<1>3. PICK used \in Nat : used = toasts[1].used
  BY <1>1
<1>4. PICK text : text = texts[e]
  OBVIOUS
<1>5. PICK r : r = [size |-> text.size, offsetInToast |-> used]
  OBVIOUS
<1>6. PICK fc2 : fc2 = firstChunk'
  OBVIOUS
<1>7. PICK cs2 : cs2 = chunks'
  OBVIOUS
<1>8. PICK ts2 : ts2 = toasts'
  OBVIOUS
<1>9. PICK rem : rem = Rem(text.size)
  OBVIOUS
<1>10. /\ fc2 = With(firstChunk, e, r)
       /\ cs2 = Appended(chunks, 1, used, n, text, 0, rem, 1)
       /\ ts2 = Counted(toasts, 1, n)
       /\ UNCHANGED <<texts, updates>>
  <2>1. fc2 = With(firstChunk, e, r)
    BY <1>3, <1>4, <1>5, <1>6 DEF WriteElement, OffsetOf
  <2>2. cs2 = Appended(chunks, 1, used, n, text, 0, rem, 1)
    BY <1>2, <1>3, <1>4, <1>7, <1>9 DEF WriteElement
  <2>3. ts2 = Counted(toasts, 1, n)
    BY <1>2, <1>8 DEF WriteElement
  <2>4. UNCHANGED <<texts, updates>>
    BY DEF WriteElement
  <2> QED BY <2>1, <2>2, <2>3, <2>4
<1>11. /\ DOMAIN fc2 = 1 .. e /\ fc2[e] = r
       /\ \A f \in DOMAIN firstChunk : fc2[f] = firstChunk[f]
  <2>1. fc2 = With(firstChunk, e, r)
    BY <1>10
  <2>2. /\ DOMAIN fc2 = DOMAIN firstChunk \cup {e} /\ fc2[e] = r
        /\ \A f \in DOMAIN firstChunk : f # e => fc2[f] = firstChunk[f]
    BY <2>1 DEF With
  <2> QED BY <1>1, <2>2
<1>12. IsAppended(chunks, cs2, 1, used, n, text, 0, rem, 1)
  BY <1>1, <1>10, AppendedIs
<1>13. /\ DOMAIN ts2 = {0, 1} /\ ToastsOK(ts2)
       /\ ts2[1].used = used + n /\ ts2[1].capacity = toasts[1].capacity
       /\ ts2[0] = toasts[0]
  <2>1. /\ DOMAIN ts2 = DOMAIN toasts /\ ToastsOK(ts2)
        /\ ts2[1].used = toasts[1].used + n
        /\ ts2[1].capacity = toasts[1].capacity
        /\ \A u \in DOMAIN toasts : u # 1 => ts2[u] = toasts[u]
    <3>1. 1 \in DOMAIN toasts /\ n \in Nat /\ ToastsOK(toasts)
      BY <1>1
    <3>2. ts2 = Counted(toasts, 1, n)
      BY <1>10
    <3> QED BY <3>1, <3>2, CountedIs
  <2> QED BY <1>1, <1>3, <2>1
<1>14. /\ text.size \in Nat \ {0} /\ text.size \in Nat
       /\ r.size = text.size /\ r.offsetInToast = used
       /\ r \in [size : Nat \ {0}, offsetInToast : Nat]
  BY <1>1, <1>2, <1>4, <1>5
<1>15. TypeOK'
  <2>1. 1 .. e \subseteq Elements
    BY <1>1, ConstantsAssumption
  <2>2. \A f \in 1 .. e : fc2[f] \in [size : Nat \ {0}, offsetInToast : Nat]
    <3>1. \A f \in DOMAIN firstChunk :
             firstChunk[f] \in [size : Nat \ {0}, offsetInToast : Nat]
      BY <1>1 DEF TypeOK
    <3> QED BY <1>1, <1>11, <1>14, <3>1
  <2>3. fc2 \in [1 .. e -> [size : Nat \ {0}, offsetInToast : Nat]]
    <3>1. fc2 = [f \in 1 .. e |-> fc2[f]]
      BY <1>1, <1>10, <1>11 DEF With
    <3> QED BY <2>2, <3>1
  <2>4. ASSUME NEW f \in 1 .. e
        PROVE  fc2[f].offsetInToast < ts2[1].used
    <3>1. CASE f = e
      BY <1>1, <1>11, <1>13, <1>14, <3>1
    <3>2. CASE f # e
      <4>1. f \in DOMAIN firstChunk
        BY <1>1, <3>2
      <4>2. firstChunk[f].offsetInToast \in Nat
        BY <1>1, <4>1 DEF TypeOK
      <4>3. firstChunk[f].offsetInToast < used
        BY <1>1, <1>3, <4>1 DEF TypeOK
      <4> QED BY SMTT(30), <1>1, <1>11, <1>13, <4>1, <4>2, <4>3
    <3> QED BY <3>1, <3>2
  <2> QED BY <1>1, <1>6, <1>8, <1>10, <1>11, <1>13, <2>1, <2>3, <2>4
          DEF TypeOK, ToastsOK
<1>16. \A p \in DOMAIN cs2 :
          /\ IsChunk(cs2[p]) /\ cs2[p].toastIndex = 1
          /\ p \in DOMAIN chunks \/ \E k \in Nat : k < n /\ p = <<1, used + k>>
  <2>1. \A p \in DOMAIN chunks : IsChunk(chunks[p]) /\ chunks[p].toastIndex = 1
    BY <1>1 DEF ChunksAreUsed, SpillsWhenFull, IsChunk
  <2> SUFFICES ASSUME NEW p \in DOMAIN cs2
               PROVE  /\ IsChunk(cs2[p]) /\ cs2[p].toastIndex = 1
                      /\ \/ p \in DOMAIN chunks
                         \/ \E k \in Nat : k < n /\ p = <<1, used + k>>
    OBVIOUS
  <2>2. ASSUME NEW k \in Nat, k < n, p = <<1, used + k>>
        PROVE  IsChunk(cs2[p]) /\ cs2[p].toastIndex = 1
    <3>1. cs2[p] = NewChunk(1, used, n, text, 0, rem, 1, k)
      BY <1>12, <2>2 DEF IsAppended
    <3> QED BY <3>1 DEF NewChunk, IsChunk
  <2>3. CASE \A k \in Nat : k < n => p # <<1, used + k>>
    <3>1. p \in DOMAIN chunks /\ cs2[p] = chunks[p]
      BY <1>12, <2>3 DEF IsAppended
    <3> QED BY <2>1, <3>1
  <2> QED BY <2>2, <2>3
<1>17. used + n = ChunksUpTo(texts, e)
  <2>1. e - 1 \in Nat /\ (e - 1) + 1 = e
    BY <1>1
  <2> QED BY <1>1, <1>2, <1>3, <2>1, ChunksUpToSteps
<1>18. WrittenInOrder'
  <2>1. ASSUME NEW p \in DOMAIN cs2 PROVE p[1] # 0
    BY <1>1, <1>16 DEF Intact
  <2> QED BY <1>1, <1>6, <1>7, <1>8, <1>10, <1>11, <1>13, <1>17, <2>1
          DEF WrittenInOrder, Intact, MinToastCapacity
<1>19. SizesArePadded'
  <2>1. Padded(text.size) = text.size
    BY <1>1, <1>4 DEF Padded
  <2>2. ASSUME NEW f \in 1 .. e
        PROVE  fc2[f].size = Padded(texts[f].size) /\ Rem(fc2[f].size) # 0
    <3>1. CASE f = e
      BY <1>1, <1>4, <1>11, <1>14, <2>1, <3>1
    <3>2. CASE f # e
      BY <1>1, <1>11, <3>2 DEF SizesArePadded
    <3> QED BY <3>1, <3>2
  <2> QED BY <1>6, <1>10, <1>11, <2>2 DEF SizesArePadded
<1>20. ChunksAreUsed'
  <2>1. ASSUME NEW p \in DOMAIN cs2
        PROVE  /\ p \in (DOMAIN ts2 \ {0}) \X Nat /\ p[2] < ts2[p[1]].used
    <3>1. CASE p \in DOMAIN chunks
      <4>1. p \in (DOMAIN toasts \ {0}) \X Nat /\ p[2] < toasts[p[1]].used
        BY <1>1, <3>1 DEF ChunksAreUsed
      <4>2. p[1] = 1 /\ p[2] \in Nat
        BY <1>1, <4>1
      <4>3. p[2] < used + n
        BY <1>1, <1>3, <4>1, <4>2
      <4> QED BY <1>1, <1>13, <4>1, <4>2, <4>3
    <3>2. ASSUME NEW k \in Nat, k < n, p = <<1, used + k>>
          PROVE  /\ p \in (DOMAIN ts2 \ {0}) \X Nat /\ p[2] < ts2[p[1]].used
      <4>1. p[1] = 1 /\ p[2] = used + k /\ used + k < used + n
            /\ used + k \in Nat
        BY <1>1, <3>2
      <4> QED BY <1>13, <3>2, <4>1
    <3> QED BY <1>16, <3>1, <3>2
  <2>2. ts2[0].used = 0
    BY <1>1, <1>13 DEF ChunksAreUsed
  <2> QED BY <1>7, <1>8, <1>16, <2>1, <2>2 DEF ChunksAreUsed, IsChunk
<1>21. SpillsWhenFull'
  <2>1. ts2[0].used <= ts2[0].capacity
    BY <1>1, <1>13 DEF SpillsWhenFull
  <2>2. ts2[1].used <= ts2[1].capacity
    <3>1. PICK N \in Nat : N = Cardinality(Elements)
      BY <1>1
    <3>2. /\ ChunksUpTo(texts, e) \in Nat /\ ChunksUpTo(texts, N) \in Nat
          /\ ChunksUpTo(texts, e) <= ChunksUpTo(texts, N)
      BY <1>1, <3>1, ChunksUpToGrows
    <3> QED BY <1>1, <1>3, <1>13, <1>17, <3>1, <3>2 DEF MinToastCapacity
  <2> QED BY <1>7, <1>8, <1>13, <1>16, <2>1, <2>2 DEF SpillsWhenFull
<1>22. ChainsAreDisjoint' /\ ChunksHoldTexts'
  <2>1. PICK D : D = DOMAIN firstChunk
    OBVIOUS
  <2>2. ChainsAreDisjoint /\ ChunksHoldTexts
    BY <1>1 DEF ReadyToWrite, TextInv
  <2>3. D \subseteq Elements
    BY <1>1, <2>1 DEF TypeOK
  <2>4. Sized(firstChunk, texts)
    BY <1>1, <2>1, <2>3, SizedNow
  <2>5. Apart(chunks, firstChunk, D) /\ AllHeld(chunks, firstChunk, texts, D)
    BY <2>1, <2>2, <2>4, LayoutSeen
  <2>6. Sized(fc2, texts)
    <3>1. ASSUME NEW f \in 1 .. e
          PROVE  /\ texts[f].size \in Nat
                 /\ Count(fc2, f) = ChunksPadded(texts[f].size)
                 /\ Count(fc2, f) \in Nat \ {0}
      <4>1. CASE f = e
        BY <1>1, <1>2, <1>4, <1>11, <1>14, <4>1 DEF Count
      <4>2. CASE f # e
        <5>1. f \in DOMAIN firstChunk /\ Count(fc2, f) = Count(firstChunk, f)
          BY <1>1, <1>11, <4>2 DEF Count
        <5> QED BY <2>4, <5>1 DEF Sized
      <4> QED BY <4>1, <4>2
    <3> QED BY <1>11, <3>1 DEF Sized
  <2>7. PICK path : path = [k \in Nat |-> <<1, used + k>>]
    OBVIOUS
  <2>8. /\ IsPath(cs2, <<1, used>>, n, path)
        /\ \A k \in Nat : k < n => path[k] \in DOMAIN cs2
        /\ \A k, l \in Nat : k < n /\ l < n /\ path[k] = path[l] => k = l
        /\ PathHolds(cs2, path, n, text)
    <3>1. n = ChunksPadded(text.size) /\ text.size \in Nat
      BY <1>1, <1>4, <1>14
    <3>2. IsAppended(chunks, cs2, 1, used, n, text, 0, Rem(text.size), 1)
      BY <1>9, <1>12
    <3>3. Behind(path, used)
      BY <2>7 DEF Behind
    <3>4. /\ IsPath(cs2, <<1, used>>, n, path) /\ PathHolds(cs2, path, n, text)
          /\ \A k \in Nat : k < n => path[k] \in DOMAIN cs2
      BY <3>1, <3>2, <3>3, AppendedHolds
    <3>5. ASSUME NEW k \in Nat, NEW l \in Nat, path[k] = path[l]
          PROVE  k = l
      <4>1. <<1, used + k>> = <<1, used + l>>
        BY <3>3, <3>5 DEF Behind
      <4>2. used + k = used + l
        BY <4>1
      <4> QED BY <4>2
    <3> QED BY <3>4, <3>5
  <2>9. Start(fc2, e) = <<1, used>> /\ Count(fc2, e) = n
    BY <1>2, <1>4, <1>11, <1>14 DEF Start, Count
  <2>10. \A f \in D : /\ fc2[f] = firstChunk[f] /\ texts[f] = texts[f]
                      /\ Count(firstChunk, f) \in Nat
    BY <1>11, <2>1, <2>4 DEF Sized
  <2>11. ASSUME NEW f \in D, NEW l \in Nat, l < Count(firstChunk, f)
         PROVE  /\ At(chunks, Start(firstChunk, f), l) \in DOMAIN cs2
                /\ cs2[At(chunks, Start(firstChunk, f), l)]
                      = chunks[At(chunks, Start(firstChunk, f), l)]
                /\ \A k \in Nat : k < n =>
                      path[k] # At(chunks, Start(firstChunk, f), l)
    <3>1. PICK p : p = At(chunks, Start(firstChunk, f), l)
      OBVIOUS
    <3>2. p \in DOMAIN chunks
      BY <2>5, <2>11, <3>1 DEF Apart
    <3>3. \A k \in Nat : <<1, used + k>> \notin DOMAIN chunks
      BY <1>1, <1>3, BehindTheUsed
    <3>4. \A k \in Nat : k < n => p # <<1, used + k>> /\ path[k] # p
      BY <2>7, <3>2, <3>3
    <3>5. p \in DOMAIN cs2 /\ cs2[p] = chunks[p]
      BY <1>12, <3>2, <3>4 DEF IsAppended
    <3> QED BY <3>1, <3>4, <3>5
  <2>12. /\ Apart(cs2, fc2, D \cup {e})
         /\ AllHeld(cs2, fc2, texts, D \cup {e})
    <3>1. e \notin D
      BY <1>1, <2>1
    <3>2. n \in Nat /\ n = Count(fc2, e)
      BY <1>1, <2>9
    <3>3. IsPath(cs2, Start(fc2, e), n, path)
      BY <2>8, <2>9
    <3>4. PathHolds(cs2, path, n, texts[e])
      BY <1>4, <2>8
    <3>5. /\ \A k \in Nat : k < n => path[k] \in DOMAIN cs2
          /\ \A k, l \in Nat : k < n /\ l < n /\ path[k] = path[l] => k = l
      BY <2>8
    <3>6. PICK cs, fc, tx, tx2 :
             cs = chunks /\ fc = firstChunk /\ tx = texts /\ tx2 = texts
      OBVIOUS
    <3>7. \A f \in D : fc2[f] = fc[f] /\ tx2[f] = tx[f] /\ Count(fc, f) \in Nat
      BY <2>10, <3>6
    <3>8. /\ Apart(cs, fc, D) /\ AllHeld(cs, fc, tx, D)
          /\ PathHolds(cs2, path, n, tx2[e])
      BY <2>5, <3>4, <3>6
    <3>9. \A f \in D : \A l \in Nat : l < Count(fc, f) =>
             /\ At(cs, Start(fc, f), l) \in DOMAIN cs2
             /\ cs2[At(cs, Start(fc, f), l)] = cs[At(cs, Start(fc, f), l)]
             /\ \A k \in Nat : k < n => path[k] # At(cs, Start(fc, f), l)
      BY <2>11, <3>6
    <3>10. Apart(cs2, fc2, D \cup {e}) /\ AllHeld(cs2, fc2, tx2, D \cup {e})
      BY <3>1, <3>2, <3>3, <3>5, <3>7, <3>8, <3>9, OneTextChanges
    <3> QED BY <3>6, <3>10
  <2>13. D \cup {e} = DOMAIN fc2
    BY <1>1, <1>11, <2>1
  <2> QED BY <1>6, <1>7, <1>10, <2>6, <2>12, <2>13, LayoutSeenNext
<1> QED BY <1>15, <1>18, <1>19, <1>20, <1>21, <1>22 DEF TextInv

LEMMA EmptyTuple == DOMAIN <<>> = {}
OBVIOUS

LEMMA PairOfToasts == {0, 1} = 0 .. Cardinality({0, 1}) - 1 /\ IsFiniteSet({0, 1})
<1>1. Cardinality({0, 1}) = 2 /\ IsFiniteSet({0, 1})
  <2>1. Cardinality({0}) = 1 /\ IsFiniteSet({0})
    BY FS_Singleton
  <2>2. {0, 1} = {0} \cup {1} /\ 1 \notin {0}
    OBVIOUS
  <2> QED BY <2>1, <2>2, FS_AddElement
<1>2. {0, 1} = 0 .. 2 - 1
  OBVIOUS
<1> QED BY <1>1, <1>2

LEMMA CreateToastKeepsInv ==
    ASSUME TextInv, NEW schema \in [Elements -> [update : {0}, size : InitialSizes]],
           NEW slack \in Slacks, CreateToast(schema, slack)
    PROVE  TextInv'
<1>1. TypeOK /\ WrittenInOrder
  BY DEF TextInv
<1>2. /\ firstChunk = <<>> /\ chunks = <<>> /\ toasts = NoToasts
  BY <1>1 DEF CreateToast, WrittenInOrder
<1>3. PICK min : min = MinToastCapacity(schema)
  OBVIOUS
<1>4. PICK capacity : capacity = 2 * min - 1 + slack
  OBVIOUS
<1>5. PICK ts2 : ts2 = toasts'
  OBVIOUS
<1>6. PICK r : r = [NoToast EXCEPT !.capacity = capacity]
  OBVIOUS
<1>7. /\ ts2 = With(NoToasts, 1, r)
      /\ texts' = schema
      /\ UNCHANGED <<chunks, firstChunk, updates>>
  BY <1>2, <1>3, <1>4, <1>5, <1>6 DEF CreateToast
<1>8. \A e \in Elements : schema[e].size \in InitialSizes
                          /\ schema[e].size \in Nat \ {0}
                          /\ schema[e] \in Text
  <2> SUFFICES ASSUME NEW e \in Elements
               PROVE  /\ schema[e].size \in InitialSizes
                      /\ schema[e].size \in Nat \ {0}
                      /\ schema[e] \in Text
    OBVIOUS
  <2>1. schema[e] \in [update : {0}, size : InitialSizes]
    OBVIOUS
  <2>2. PICK text : text = schema[e]
    OBVIOUS
  <2>3. /\ text = [update |-> text.update, size |-> text.size]
        /\ text.update = 0 /\ text.size \in InitialSizes
    BY <2>1, <2>2
  <2>4. 0 \in 0 .. MaxUpdates
    BY ConstantsAssumption
  <2>5. text \in [update : 0 .. MaxUpdates, size : InitialSizes \cup Sizes]
    BY <2>3, <2>4
  <2> QED BY <2>2, <2>3, <2>5, ConstantsAssumption DEF Text
<1>9. PICK N \in Nat : N = Cardinality(Elements)
  BY ConstantsAssumption, FS_CardinalityType
<1>10. N >= 1 /\ 1 \in Elements
  BY <1>9, ConstantsAssumption
<1>11. min \in Nat /\ min >= 1
  <2>1. ChunksUpTo(schema, 0 + 1) = 0 + ChunksOf(schema[0 + 1].size)
    BY ChunksUpToSteps
  <2>2. 0 + 1 = 1
    OBVIOUS
  <2>3. PICK c \in Nat : c = ChunksOf(schema[1].size) /\ c > 0
    BY <1>8, <1>10, ChunksAreNat
  <2>4. ChunksUpTo(schema, 1) >= 1
    BY <2>1, <2>2, <2>3
  <2>5. /\ ChunksUpTo(schema, 1) \in Nat /\ ChunksUpTo(schema, N) \in Nat
        /\ ChunksUpTo(schema, 1) <= ChunksUpTo(schema, N)
    BY <1>8, <1>9, <1>10, ChunksUpToGrows
  <2> QED BY <1>3, <1>9, <2>4, <2>5 DEF MinToastCapacity
<1>12. capacity \in Nat /\ min <= capacity
  BY <1>4, <1>11, ConstantsAssumption
<1>13. /\ r \in [capacity : Nat, used : Nat, nextToastIndex : {0, 1}]
       /\ r.capacity = capacity /\ r.used = 0
  BY <1>6, <1>12 DEF NoToast
<1>14. /\ DOMAIN ts2 = {0, 1} /\ ts2[0] = NoToast /\ ts2[1] = r
       /\ ts2 = [t \in {0, 1} |-> IF t = 1 THEN r ELSE NoToast]
  BY <1>7 DEF With, NoToasts
<1>15. NoToast \in [capacity : Nat, used : Nat, nextToastIndex : {0, 1}]
       /\ NoToast.used = 0 /\ NoToast.capacity = 0
  BY DEF NoToast
<1>16. ToastsOK(ts2)
  <2>1. ts2 \in [{0, 1} -> [capacity : Nat, used : Nat,
                            nextToastIndex : {0, 1}]]
    BY <1>13, <1>14, <1>15
  <2> QED BY <1>14, <2>1, PairOfToasts DEF ToastsOK
<1>17. /\ DOMAIN firstChunk' = {} /\ DOMAIN chunks' = {} /\ firstChunk' = <<>>
       /\ DOMAIN firstChunk = {}
  BY <1>2, <1>7, EmptyTuple
<1>18. schema \in [Elements -> Text]
  BY <1>8
<1>19. TypeOK'
  BY <1>1, <1>5, <1>7, <1>16, <1>17, <1>18 DEF TypeOK, ToastsOK
<1>20. Cardinality({}) = 0 /\ {} = 1 .. 0
  BY FS_EmptySet
<1>21. schema # <<>>
  BY <1>10, EmptyTuple
<1>22. WrittenInOrder'
  <2>1. Intact'
    BY <1>17 DEF Intact
  <2>2. ts2[1].used = ChunksUpTo(schema, 0)
    BY <1>13, <1>14, ChunksUpToSteps
  <2>3. MinToastCapacity(schema) <= ts2[1].capacity
    BY <1>3, <1>12, <1>13, <1>14
  <2>4. texts' = schema /\ toasts' = ts2 /\ DOMAIN ts2 = {0, 1}
    BY <1>5, <1>7, <1>14
  <2> QED BY <1>8, <1>17, <1>20, <1>21, <2>1, <2>2, <2>3, <2>4
          DEF WrittenInOrder
<1>23. SizesArePadded' /\ ChainsAreDisjoint' /\ ChunksHoldTexts'
  BY <1>17 DEF SizesArePadded, ChainsAreDisjoint, ChunksHoldTexts
<1>24. ChunksAreUsed'
  BY <1>5, <1>14, <1>15, <1>17 DEF ChunksAreUsed
<1>25. SpillsWhenFull'
  BY <1>5, <1>12, <1>13, <1>14, <1>15, <1>17 DEF SpillsWhenFull
<1> QED BY <1>19, <1>22, <1>23, <1>24, <1>25 DEF TextInv

-----------------------------------------------------------------------------
(* The invariant.                                                          *)

LEMMA TextInvInit == Init => TextInv
<1> SUFFICES ASSUME Init PROVE TextInv
  OBVIOUS
<1>1. /\ toasts = NoToasts /\ chunks = <<>> /\ firstChunk = <<>>
      /\ texts = <<>> /\ updates = 0
  BY DEF Init
<1>2. DOMAIN chunks = {} /\ DOMAIN firstChunk = {}
  BY <1>1, EmptyTuple
<1>3. /\ DOMAIN toasts = {0} /\ toasts[0] = NoToast
      /\ toasts = [t \in {0} |-> NoToast]
  BY <1>1 DEF NoToasts
<1>4. /\ NoToast \in [capacity : Nat, used : Nat, nextToastIndex : {0}]
      /\ NoToast.used = 0 /\ NoToast.capacity = 0
  BY DEF NoToast
<1>5. TypeOK
  <2>1. Cardinality({0}) = 1 /\ IsFiniteSet({0})
    BY FS_Singleton
  <2>2. {0} = 0 .. 1 - 1
    OBVIOUS
  <2>3. toasts \in [{0} -> [capacity : Nat, used : Nat, nextToastIndex : {0}]]
    BY <1>3, <1>4
  <2>4. firstChunk \in [DOMAIN firstChunk ->
                           [size : Nat \ {0}, offsetInToast : Nat]]
    BY <1>1, <1>2
  <2> QED BY <1>1, <1>2, <1>3, <2>1, <2>2, <2>3, <2>4, ConstantsAssumption
          DEF TypeOK
<1>6. WrittenInOrder
  <2>1. Cardinality({}) = 0 /\ {} = 1 .. 0
    BY FS_EmptySet
  <2> QED BY <1>1, <1>2, <2>1 DEF WrittenInOrder
<1>7. SizesArePadded /\ ChainsAreDisjoint /\ ChunksHoldTexts
  BY <1>2 DEF SizesArePadded, ChainsAreDisjoint, ChunksHoldTexts
<1>8. ChunksAreUsed
  BY <1>2, <1>3, <1>4 DEF ChunksAreUsed
<1>9. SpillsWhenFull
  BY <1>2, <1>3, <1>4 DEF SpillsWhenFull
<1> QED BY <1>5, <1>6, <1>7, <1>8, <1>9 DEF TextInv

LEMMA TextInvNext ==
    ASSUME NoFullChunks, TextInv, [Next]_vars
    PROVE  TextInv'
<1>1. CASE Create
  <2>1. ASSUME NEW schema \in [Elements -> [update : {0}, size : InitialSizes]],
               NEW slack \in Slacks, CreateToast(schema, slack)
        PROVE  TextInv'
    BY <2>1, CreateToastKeepsInv
  <2>2. ASSUME texts # <<>>, NEW e \in Elements, WriteElement(e)
        PROVE  TextInv'
    <3>1. PICK n : n = ChunksOf(texts[e].size)
      OBVIOUS
    <3>2. ReadyToWrite(e, n)
      BY <2>2, <3>1 DEF ReadyToWrite, WriteElement
    <3> QED BY <2>2, <3>2, WriteElementKeepsInv
  <2> QED BY <1>1, <2>1, <2>2 DEF Create
<1>2. CASE Update
  <2>1. PICK e \in Elements, size \in Sizes :
           LET new == NewText(size) IN
           /\ DOMAIN firstChunk = Elements
           /\ Intact
           /\ updates < MaxUpdates
           /\ \/ UpdateEqual(e, new)
              \/ UpdateShorter(e, new)
              \/ UpdateInChunks(e, new)
              \/ UpdateInRoom(e, new)
              \/ \E slack \in Slacks : UpdateInNewToast(e, new, slack)
    BY <1>2 DEF Update
  <2>2. PICK new : new = NewText(size)
    OBVIOUS
  <2>3. Ready(e, new)
    BY <2>1, <2>2 DEF Ready
  <2>4. CASE UpdateEqual(e, new)
    BY <2>3, <2>4, UpdateEqualKeepsInv
  <2>5. CASE UpdateShorter(e, new)
    BY <2>3, <2>5, UpdateShorterKeepsInv
  <2>6. CASE UpdateInChunks(e, new)
    BY <2>3, <2>6, UpdateInChunksKeepsInv
  <2>7. CASE UpdateInRoom(e, new)
    BY <2>3, <2>7, UpdateInRoomKeepsInv
  <2>8. ASSUME NEW slack \in Slacks, UpdateInNewToast(e, new, slack)
        PROVE  TextInv'
    BY <2>3, <2>8, UpdateInNewToastKeepsInv
  <2> QED BY <2>1, <2>2, <2>4, <2>5, <2>6, <2>7, <2>8
<1>3. CASE UNCHANGED vars
  <2>1. UNCHANGED <<toasts, chunks, firstChunk, texts, updates>>
    BY <1>3 DEF vars
  <2>2. /\ TypeOK' <=> TypeOK
        /\ WrittenInOrder' <=> WrittenInOrder
        /\ Intact' <=> Intact
        /\ SizesArePadded' <=> SizesArePadded
    BY <2>1 DEF TypeOK, WrittenInOrder, Intact, SizesArePadded
  <2>3. /\ ChunksAreUsed' <=> ChunksAreUsed
        /\ SpillsWhenFull' <=> SpillsWhenFull
    BY <2>1 DEF ChunksAreUsed, SpillsWhenFull
  <2>4. ASSUME NEW e, NEW k PROVE PlaceOf(e, k)' = PlaceOf(e, k)
    BY <2>1, Zenon DEF PlaceOf, Places
  <2>5. ChainsAreDisjoint' <=> ChainsAreDisjoint
    BY <2>1, <2>4 DEF ChainsAreDisjoint, Positions
  <2>6. ChunksHoldTexts' <=> ChunksHoldTexts
    BY <2>1, <2>4 DEF ChunksHoldTexts
  <2> QED BY <2>2, <2>3, <2>5, <2>6 DEF TextInv
<1> QED BY <1>1, <1>2, <1>3 DEF Next

-----------------------------------------------------------------------------
(* What the invariant says of reading.                                     *)

LEMMA SizesOfInv ==
    ASSUME TextInv, Intact, NEW e \in DOMAIN firstChunk
    PROVE  /\ texts[e].size \in Nat \ {0}
           /\ firstChunk[e].size = Padded(texts[e].size)
           /\ Rem(firstChunk[e].size) # 0
           /\ firstChunk[e].size \in Nat \ {0}
<1>1. TypeOK /\ WrittenInOrder /\ SizesArePadded
  BY DEF TextInv
<1>2. texts \in [Elements -> Text]
  <2>1. texts # <<>>
    <3>1. SUFFICES ASSUME texts = <<>> PROVE FALSE
      OBVIOUS
    <3> QED BY <1>1, <3>1, EmptyTuple DEF WrittenInOrder
  <2> QED BY <1>1, <2>1 DEF TypeOK
<1>3. texts[e] \in Text
  BY <1>1, <1>2 DEF TypeOK
<1>4. texts[e].size \in Nat \ {0}
  BY <1>3, ConstantsAssumption DEF Text
<1>5. firstChunk[e].size = Padded(texts[e].size) /\ Rem(firstChunk[e].size) # 0
  BY <1>1 DEF SizesArePadded
<1> QED BY <1>4, <1>5, PaddedSize

\* A terminator is told from every byte of a text.
LEMMA BytesAreNoTerminators ==
    ASSUME NEW text, text.size \in Nat, NEW i
    PROVE  /\ i < text.size => ByteOf(text, i) # NULL_TERMINATOR
           /\ ByteOf(text, text.size) = NULL_TERMINATOR
<1>1. ASSUME NEW u, NEW j PROVE <<u, j>> # NULL_TERMINATOR
  BY DEF NULL_TERMINATOR
<1>2. ~ (text.size < text.size)
  OBVIOUS
<1> QED BY <1>1, <1>2 DEF ByteOf

\* The buffer that nextEl fills holds the text and its terminator.
LEMMA BufferHoldsText ==
    ASSUME TextInv, Intact, NEW e \in DOMAIN firstChunk,
           NEW i \in 0 .. texts[e].size - 1
    PROVE  /\ i \in 0 .. firstChunk[e].size - 1
           /\ ~ (i \div CHUNK_SIZE = ChunksOf(firstChunk[e].size) - 1
                    /\ i % CHUNK_SIZE >= Rem(firstChunk[e].size))
           /\ ChunkAt(chunks, PlaceOf(e, i \div CHUNK_SIZE))
                 .data[(i % CHUNK_SIZE) + 1] = ByteOf(texts[e], i + 1)
<1>1. PICK size \in Nat \ {0} : size = firstChunk[e].size
  BY SizesOfInv
<1>2. PICK ts \in Nat \ {0} : ts = texts[e].size
  BY SizesOfInv
<1>3. size = Padded(ts) /\ Rem(size) # 0 /\ ts <= size
  BY <1>1, <1>2, SizesOfInv, PaddedSize
<1>4. i \in Nat /\ i + 1 \in 1 .. ts /\ (i + 1) - 1 = i /\ i < size
  BY <1>2, <1>3
<1>5. PICK n \in Nat \ {0} : n = ChunksOf(size) /\ n = ChunksPadded(size)
  BY <1>1, <1>3, ChunksAreNat
<1>6. PICK k \in Nat, r \in Nat : /\ k = Quot(i) /\ r = Rem(i) /\ r < CHUNK_SIZE
                                  /\ i = k * CHUNK_SIZE + r
  BY <1>4, SizeIsCut
<1>7. r + 1 \in 1 .. CHUNK_SIZE
  BY <1>6, ChunkSizeIsNat
<1>8. k * CHUNK_SIZE + (r + 1) <= size
  <2>1. PICK p \in Nat : p = k * CHUNK_SIZE
    BY <1>6, ProductIsNat, ChunkSizeIsNat
  <2>2. i = p + r
    BY <1>6, <2>1
  <2>3. p + (r + 1) <= size
    BY <1>4, <1>6, <2>2
  <2> QED BY <2>1, <2>3
<1>9. k < n /\ (k = n - 1 => r + 1 <= Rem(size))
  BY <1>1, <1>5, <1>6, <1>7, <1>8, BytesOfLastChunk
<1>10. Rem(size) \in Nat
  BY <1>1, SizeIsCut
<1>11. ~ (k = n - 1 /\ r >= Rem(size))
  BY <1>6, <1>9, <1>10
<1>12. k \in Positions(e)
  BY <1>1, <1>5, <1>6, <1>9 DEF Positions
<1>13. PlaceOf(e, k) \in DOMAIN chunks
  BY <1>12 DEF TextInv, ChainsAreDisjoint
<1>14. ChunkAt(chunks, PlaceOf(e, k)) = chunks[PlaceOf(e, k)]
  BY <1>13 DEF ChunkAt
<1>15. k = i \div CHUNK_SIZE /\ r = i % CHUNK_SIZE
  BY <1>6 DEF Quot, Rem
<1>16. chunks[PlaceOf(e, k)].data[r + 1] = ByteOf(texts[e], i + 1)
  <2>1. \A j \in 1 .. ts :
           chunks[PlaceOf(e, (j - 1) \div CHUNK_SIZE)]
               .data[((j - 1) % CHUNK_SIZE) + 1] = ByteOf(texts[e], j)
    BY <1>2 DEF TextInv, ChunksHoldTexts
  <2>2. PICK j : j = i + 1
    OBVIOUS
  <2>3. j \in 1 .. ts /\ j - 1 = i
    BY <1>4, <2>2
  <2> QED BY <1>15, <2>1, <2>2, <2>3, Zenon
<1> QED BY <1>1, <1>4, <1>5, <1>11, <1>14, <1>15, <1>16

LEMMA TextReadsBack ==
    ASSUME TextInv, Intact, NEW e \in DOMAIN firstChunk
    PROVE  ReadText(e) = [i \in 1 .. texts[e].size - 1 |-> ByteOf(texts[e], i)]
<1> DEFINE size  == firstChunk[e].size
           n     == ChunksOf(size)
           place == Places(e, n)
           byte(i) == ChunkAt(chunks, place[i \div CHUNK_SIZE])
                          .data[(i % CHUNK_SIZE) + 1]
           buf   == [i \in 0 .. size - 1 |->
                        IF i \div CHUNK_SIZE = n - 1 /\ i % CHUNK_SIZE >= Rem(size)
                        THEN NULL_TERMINATOR ELSE byte(i)]
           ends  == {i \in DOMAIN buf : buf[i] = NULL_TERMINATOR}
<1>1. ReadText(e) = [i \in 1 .. IF ends = {} THEN size ELSE Min(ends)
                        |-> buf[i - 1]]
  BY Zenon DEF ReadText
<1>2. PICK text : text = texts[e]
  OBVIOUS
<1>3. PICK ts \in Nat \ {0} : ts = text.size
  BY <1>2, SizesOfInv
<1>4. ASSUME NEW i \in 0 .. ts - 1
      PROVE  i \in DOMAIN buf /\ buf[i] = ByteOf(text, i + 1)
  <2>1. i \in 0 .. texts[e].size - 1
    BY <1>2, <1>3
  <2>2. /\ i \in 0 .. size - 1
        /\ ~ (i \div CHUNK_SIZE = n - 1 /\ i % CHUNK_SIZE >= Rem(size))
        /\ byte(i) = ByteOf(text, i + 1)
    BY <1>2, <2>1, BufferHoldsText, Zenon DEF PlaceOf
  <2> HIDE DEF byte, n, size
  <2> QED BY <2>2
<1>5. DOMAIN buf \subseteq Nat
  <2>1. size \in Nat
    BY SizesOfInv
  <2> HIDE DEF size
  <2> QED BY <2>1
<1>6. PICK f : f = buf
  OBVIOUS
<1> HIDE DEF buf, size
<1>7. ts - 1 \in ends
  <2>1. ts - 1 \in 0 .. ts - 1 /\ (ts - 1) + 1 = ts
    OBVIOUS
  <2>2. ts - 1 \in DOMAIN buf /\ buf[ts - 1] = ByteOf(text, ts)
    BY <1>4, <2>1
  <2> QED BY <1>3, <2>2, BytesAreNoTerminators
<1>8. ASSUME NEW i \in ends PROVE i \in Nat /\ ts - 1 <= i
  <2>1. i \in Nat /\ i \in DOMAIN buf /\ buf[i] = NULL_TERMINATOR
    BY <1>5
  <2>2. ASSUME i < ts - 1 PROVE FALSE
    <3>1. i \in 0 .. ts - 1 /\ i + 1 < text.size
      BY <1>3, <2>1, <2>2
    <3>2. buf[i] = ByteOf(text, i + 1)
      BY <1>4, <3>1
    <3> QED BY <1>3, <2>1, <3>1, <3>2, BytesAreNoTerminators
  <2> QED BY <2>1, <2>2
<1> HIDE DEF ends
<1>9. Min(ends) = ts - 1
  BY <1>7, <1>8 DEF Min
<1>10. ReadText(e) = [i \in 1 .. ts - 1 |-> buf[i - 1]]
  BY <1>1, <1>7, <1>9
<1>11. \A i \in 1 .. ts - 1 : buf[i - 1] = ByteOf(text, i)
  <2> SUFFICES ASSUME NEW i \in 1 .. ts - 1
               PROVE  buf[i - 1] = ByteOf(text, i)
    OBVIOUS
  <2>1. PICK j : j = i - 1
    OBVIOUS
  <2>2. j \in 0 .. ts - 1 /\ j + 1 = i
    BY <2>1
  <2>3. buf[j] = ByteOf(text, j + 1)
    BY <1>4, <2>2
  <2> QED BY <2>1, <2>2, <2>3
<1>12. ReadText(e) = [i \in 1 .. ts - 1 |-> ByteOf(text, i)]
  BY <1>10, <1>11
<1> QED BY <1>2, <1>3, <1>12

-----------------------------------------------------------------------------
(* The theorems.                                                           *)

\* Whatever is written, the toasts keep the inductive invariant.
THEOREM TextInvariant == ASSUME NoFullChunks PROVE Spec => []TextInv
<1>1. Init => TextInv
  BY TextInvInit
<1>2. TextInv /\ [Next]_vars => TextInv'
  BY TextInvNext
<1> QED BY <1>1, <1>2, PTL DEF Spec

\* The toasts, the first chunks and the texts are in range.
THEOREM TextTypeCorrect == ASSUME NoFullChunks PROVE Spec => []TypeOK
<1>1. TextInv => TypeOK
  BY DEF TextInv
<1> QED BY <1>1, TextInvariant, PTL

\* Every text reads as it was last written: the walks of writeElement, of
\* the branches of updateElement and of nextEl agree.
THEOREM WrittenIsRead == ASSUME NoFullChunks PROVE Spec => []TextsReadBack
<1>1. TextInv => TextsReadBack
  BY TextReadsBack DEF TextsReadBack
<1> QED BY <1>1, TextInvariant, PTL

\* An update writes to no chunk of another element's text.
THEOREM NoSharedChunks == ASSUME NoFullChunks PROVE Spec => []TextsAreDisjoint
<1>1. ASSUME TextInv, Intact, NEW e \in DOMAIN firstChunk
      PROVE  LET places(x) == LET n == ChunksOf(firstChunk[x].size)
                              IN {Places(x, n)[k] : k \in 0 .. n - 1}
             IN  /\ places(e) \subseteq DOMAIN chunks
                 /\ \A f \in DOMAIN firstChunk \ {e} :
                       places(e) \cap places(f) = {}
  <2> DEFINE places(x) == {PlaceOf(x, k) : k \in Positions(x)}
  <2>1. ChainsAreDisjoint
    BY <1>1 DEF TextInv
  <2>2. /\ places(e) \subseteq DOMAIN chunks
        /\ \A f \in DOMAIN firstChunk \ {e} : places(e) \cap places(f) = {}
    BY <2>1 DEF ChainsAreDisjoint
  <2> QED BY <2>2, Zenon DEF PlaceOf, Positions
<1>2. TextInv => TextsAreDisjoint
  BY <1>1, Zenon DEF TextsAreDisjoint
<1> QED BY <1>2, TextInvariant, PTL

\* Chunks lie in the used part of their toast and used never exceeds the
\* capacity: no text is written over the block that follows the toast's.
THEOREM ChunksFit == ASSUME NoFullChunks PROVE Spec => []ChunksFitTheirToast
<1>1. TextInv => ChunksFitTheirToast
  BY DEF TextInv, ChunksAreUsed, SpillsWhenFull, ChunksFitTheirToast
<1> QED BY <1>1, TextInvariant, PTL
=============================================================================
