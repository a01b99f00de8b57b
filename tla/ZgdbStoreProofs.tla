-------------------------- MODULE ZgdbStoreProofs ---------------------------
(***************************************************************************)
(* The storage core keeps its invariants for every size of the table, of   *)
(* the blocks and of the requests: the inductive invariant IInv holds      *)
(* initially and every action keeps it.  Before that, the links between    *)
(* documents and to toasts: what the steps of a request do to the          *)
(* invariants about them (TreeInv, ToastInv), which are first restated one *)
(* kind of link at a time.                                                 *)
(***************************************************************************)
EXTENDS ZgdbSpaceProofs

-----------------------------------------------------------------------------
(* The links between documents, kind by kind.                              *)

Son(p) == block[p].indexSon
Brother(p) == block[p].indexBrother

SonHolders == LiveDocuments \ StaleSons
BrotherHolders == LiveDocuments \ StaleBrothers
Positions == 1 .. Len(stack)
Visiting == pc = "subtree"

\* The documents a link may name.
Linkable == LiveDocuments \ ({0} \cup Unlinked)

LinksNameLinkable ==
    /\ \A p \in SonHolders : Son(p) # 0 => Son(p) \in Linkable
    /\ \A p \in BrotherHolders : Brother(p) # 0 => Brother(p) \in Linkable
    /\ \A k \in Positions : stack[k] # 0 => stack[k] \in Linkable
    /\ Visiting /\ call.temp # 0 => call.temp \in Linkable

LinksDiffer ==
    /\ \A p, q \in SonHolders : Son(p) = Son(q) /\ Son(p) # 0 => p = q
    /\ \A p, q \in BrotherHolders :
          Brother(p) = Brother(q) /\ Brother(p) # 0 => p = q
    /\ \A k, m \in Positions : stack[k] = stack[m] /\ stack[k] # 0 => k = m
    /\ \A p \in SonHolders, q \in BrotherHolders :
          Son(p) # 0 => Son(p) # Brother(q)
    /\ \A p \in SonHolders, k \in Positions : Son(p) # 0 => Son(p) # stack[k]
    /\ \A p \in BrotherHolders, k \in Positions :
          Brother(p) # 0 => Brother(p) # stack[k]
    /\ Visiting /\ call.temp # 0 =>
          /\ \A p \in SonHolders : Son(p) # call.temp
          /\ \A p \in BrotherHolders : Brother(p) # call.temp
          /\ \A k \in Positions : stack[k] # call.temp

IsLinked(d) ==
    \/ \E p \in SonHolders : Son(p) = d
    \/ \E p \in BrotherHolders : Brother(p) = d
    \/ \E k \in Positions : stack[k] = d
    \/ Visiting /\ call.temp = d

TreeFacts ==
    /\ RootIsAlive
    /\ LinksNameLinkable
    /\ LinksDiffer
    /\ \A d \in Linkable : IsLinked(d)

LEMMA LinkKinds ==
    /\ \A p \in SonHolders : /\ <<"son", p>> \in DocumentLinks
                             /\ DocumentAt(<<"son", p>>) = Son(p)
    /\ \A p \in BrotherHolders : /\ <<"brother", p>> \in DocumentLinks
                                 /\ DocumentAt(<<"brother", p>>) = Brother(p)
    /\ \A k \in Positions : /\ <<"stack", k>> \in DocumentLinks
                            /\ DocumentAt(<<"stack", k>>) = stack[k]
    /\ Visiting => /\ <<"next", 0>> \in DocumentLinks
                   /\ DocumentAt(<<"next", 0>>) = call.temp
    /\ \A l \in DocumentLinks :
          \/ \E p \in SonHolders : l = <<"son", p>>
          \/ \E p \in BrotherHolders : l = <<"brother", p>>
          \/ \E k \in Positions : l = <<"stack", k>>
          \/ Visiting /\ l = <<"next", 0>>
BY DEF DocumentLinks, DocumentAt, SonHolders, BrotherHolders, Positions,
       Visiting, Son, Brother

\* The invariants about links, said of each kind of link.
LEMMA TreeInvIsTreeFacts == TreeInv <=> TreeFacts
<1>1. ASSUME TreeInv PROVE TreeFacts
  <2>1. \A l \in DocumentLinks :
           DocumentAt(l) # 0 => DocumentAt(l) \in Linkable
    BY <1>1 DEF TreeInv, LinksNameLiveDocuments, UnlinkedIsNotLinked, Linkable
  <2>2. LinksNameLinkable
    BY <2>1, LinkKinds DEF LinksNameLinkable
  <2>3. \A l, m \in DocumentLinks :
           DocumentAt(l) = DocumentAt(m) /\ DocumentAt(l) # 0 => l = m
    BY <1>1 DEF TreeInv, LinksAreUnique
  <2>4. LinksDiffer
    BY <2>3, LinkKinds DEF LinksDiffer
  <2>5. ASSUME NEW d \in Linkable PROVE IsLinked(d)
    <3>1. PICK l \in DocumentLinks : DocumentAt(l) = d
      BY <1>1 DEF TreeInv, NoDocumentLost, Linkable
    <3> QED BY <3>1, LinkKinds DEF IsLinked
  <2> QED BY <1>1, <2>2, <2>4, <2>5 DEF TreeFacts, TreeInv
<1>2. ASSUME TreeFacts PROVE TreeInv
  <2>1. \A l \in DocumentLinks :
           DocumentAt(l) # 0 => DocumentAt(l) \in Linkable
    BY <1>2, LinkKinds DEF TreeFacts, LinksNameLinkable
  <2>2. LinksNameLiveDocuments /\ UnlinkedIsNotLinked
    BY <2>1 DEF LinksNameLiveDocuments, UnlinkedIsNotLinked, Linkable
  <2>3. LinksAreUnique
    BY <1>2, LinkKinds DEF TreeFacts, LinksDiffer, LinksAreUnique
  <2>4. NoDocumentLost
    <3> SUFFICES ASSUME NEW d \in Linkable
                 PROVE  \E l \in DocumentLinks : DocumentAt(l) = d
      BY DEF NoDocumentLost, Linkable
    <3>1. IsLinked(d)
      BY <1>2 DEF TreeFacts
    <3> QED BY <3>1, LinkKinds DEF IsLinked
  <2> QED BY <1>2, <2>2, <2>3, <2>4 DEF TreeFacts, TreeInv
<1> QED BY <1>1, <1>2

LEMMA TreeInvIsTreeFactsNext == TreeInv' <=> TreeFacts'
BY TreeInvIsTreeFacts, PTL

-----------------------------------------------------------------------------
(* What a step does to the sets of live documents and toasts.              *)

LEMMA LiveAfterAttach ==
    ASSUME TypeOK, UNCHANGED indexCount,
           NEW t \in Indexes, flag[t] # "ALIVE", NEW header \in Block,
           flag' = [flag EXCEPT ![t] = "ALIVE"],
           block' = [block EXCEPT ![t] = header]
    PROVE  /\ LiveDocuments' = IF header.blockType = "DOCUMENT"
                               THEN LiveDocuments \cup {t} ELSE LiveDocuments
           /\ LiveToasts' = IF header.blockType = "TOAST"
                            THEN LiveToasts \cup {t} ELSE LiveToasts
           /\ t \notin LiveDocuments
           /\ t \notin LiveToasts
           /\ LiveDocuments \subseteq Indexes
           /\ LiveToasts \subseteq Indexes
           /\ block'[t] = header
           /\ \A i \in Indexes : i # t => block'[i] = block[i]
BY DEF TypeOK, LiveDocuments, LiveToasts, Indexes

LEMMA LiveAfterFree ==
    ASSUME TypeOK, UNCHANGED <<indexCount, block>>,
           NEW i \in Indexes, flag' = [flag EXCEPT ![i] = "DEAD"]
    PROVE  /\ LiveDocuments' = LiveDocuments \ {i}
           /\ LiveToasts' = LiveToasts \ {i}
BY DEF TypeOK, LiveDocuments, LiveToasts, Indexes

LEMMA LiveAfterLink ==
    ASSUME UNCHANGED <<indexCount, flag>>,
           \A i \in Indexes : block'[i].blockType = block[i].blockType
    PROVE  /\ LiveDocuments' = LiveDocuments
           /\ LiveToasts' = LiveToasts
BY DEF LiveDocuments, LiveToasts, Indexes

-----------------------------------------------------------------------------
(* The document tree.                                                      *)

\* A step that neither changes a link between documents nor is about to.
LEMMA TreeFactsUnchanged ==
    ASSUME TreeFacts, LiveDocuments' = LiveDocuments, UNCHANGED stack,
           \A p \in LiveDocuments : /\ block'[p].indexSon = block[p].indexSon
                                    /\ block'[p].indexBrother =
                                          block[p].indexBrother,
           pc \notin {"linkSon", "del", "subtree"},
           pc' \notin {"linkSon", "del", "subtree"}
    PROVE  TreeFacts'
<1>1. /\ SonHolders = LiveDocuments
      /\ SonHolders' = LiveDocuments
      /\ BrotherHolders = LiveDocuments
      /\ BrotherHolders' = LiveDocuments
      /\ Positions' = Positions
      /\ ~ Visiting
      /\ ~ Visiting'
      /\ Linkable' = Linkable
  BY DEF SonHolders, BrotherHolders, Positions, Visiting, Linkable,
         StaleSons, StaleBrothers, Unlinked
<1>2. \A p \in LiveDocuments : Son(p)' = Son(p) /\ Brother(p)' = Brother(p)
  BY DEF Son, Brother
<1>3. LinksNameLinkable'
  BY <1>1, <1>2 DEF TreeFacts, LinksNameLinkable
<1>4. LinksDiffer'
  BY <1>1, <1>2 DEF TreeFacts, LinksDiffer
<1>5. \A d \in Linkable : IsLinked(d)'
  BY <1>1, <1>2 DEF TreeFacts, IsLinked
<1> QED BY <1>1, <1>3, <1>4, <1>5 DEF TreeFacts, RootIsAlive

\* createDocument writes the new document t, whose brothers are the sons the
\* parent had.
LEMMA CreateDocumentKeepsTree ==
    ASSUME TreeFacts, pc = "document", pc' = "linkSon", UNCHANGED stack,
           NEW parent \in LiveDocuments, call'.parent = parent,
           NEW t, t \notin LiveDocuments, LiveDocuments' = LiveDocuments \cup {t},
           call'.target = t,
           block'[t].indexSon = 0,
           block'[t].indexBrother = block[parent].indexSon,
           \A p \in LiveDocuments : block'[p] = block[p]
    PROVE  TreeFacts'
<1>1. /\ SonHolders = LiveDocuments
      /\ SonHolders' = (LiveDocuments \cup {t}) \ {parent}
      /\ BrotherHolders = LiveDocuments
      /\ BrotherHolders' = LiveDocuments \cup {t}
      /\ Positions' = Positions
      /\ ~ Visiting
      /\ ~ Visiting'
      /\ Linkable' = Linkable
      /\ 0 # t
  BY DEF SonHolders, BrotherHolders, Positions, Visiting, Linkable,
         StaleSons, StaleBrothers, Unlinked, TreeFacts, RootIsAlive
<1>2. /\ \A p \in LiveDocuments : /\ Son(p)' = Son(p)
                                  /\ Brother(p)' = Brother(p)
                                  /\ p # t
      /\ Son(t)' = 0
      /\ Brother(t)' = Son(parent)
      /\ parent \in LiveDocuments
  BY DEF Son, Brother
<1>3. LinksNameLinkable'
  BY <1>1, <1>2 DEF TreeFacts, LinksNameLinkable
<1>4. LinksDiffer'
  BY <1>1, <1>2 DEF TreeFacts, LinksDiffer
<1>5. ASSUME NEW d \in Linkable PROVE IsLinked(d)'
  <2>1. IsLinked(d) /\ d # 0
    BY DEF TreeFacts, Linkable
  <2>2. CASE Son(parent) = d
    BY <1>1, <1>2, <2>2 DEF IsLinked
  <2>3. CASE Son(parent) # d
    BY <1>1, <1>2, <2>1, <2>3 DEF IsLinked
  <2> QED BY <2>2, <2>3
<1> QED BY <1>1, <1>3, <1>4, <1>5 DEF TreeFacts, RootIsAlive

\* createDocument writes the parent's header with its new first son.
LEMMA LinkSonKeepsTree ==
    ASSUME TreeFacts, pc = "linkSon", pc' = "idle", UNCHANGED stack,
           LiveDocuments' = LiveDocuments,
           NEW parent \in LiveDocuments, call.parent = parent,
           NEW target \in LiveDocuments \ {0, parent}, call.target = target,
           block'[parent].indexSon = target,
           block'[parent].indexBrother = block[parent].indexBrother,
           \A p \in LiveDocuments \ {parent} : block'[p] = block[p]
    PROVE  TreeFacts'
<1>1. /\ SonHolders = LiveDocuments \ {parent}
      /\ SonHolders' = LiveDocuments
      /\ BrotherHolders = LiveDocuments
      /\ BrotherHolders' = LiveDocuments
      /\ Positions' = Positions
      /\ ~ Visiting
      /\ ~ Visiting'
      /\ Linkable = LiveDocuments \ {0, target}
      /\ Linkable' = LiveDocuments \ {0}
  BY DEF SonHolders, BrotherHolders, Positions, Visiting, Linkable,
         StaleSons, StaleBrothers, Unlinked
<1>2. /\ \A p \in LiveDocuments : /\ p # parent => Son(p)' = Son(p)
                                  /\ Brother(p)' = Brother(p)
      /\ Son(parent)' = target
      /\ parent \in LiveDocuments
      /\ target \in LiveDocuments \ {0}
  BY DEF Son, Brother
<1>3. LinksNameLinkable'
  BY <1>1, <1>2 DEF TreeFacts, LinksNameLinkable
<1>4. /\ \A p \in SonHolders : Son(p) # target
      /\ \A p \in BrotherHolders : Brother(p) # target
      /\ \A k \in Positions : stack[k] # target
  BY <1>1, <1>2 DEF TreeFacts, LinksNameLinkable
<1>5. LinksDiffer'
  BY <1>1, <1>2, <1>4 DEF TreeFacts, LinksDiffer
<1>6. ASSUME NEW d \in Linkable' PROVE IsLinked(d)'
  <2>1. CASE d = target
    BY <1>1, <1>2, <2>1 DEF IsLinked
  <2>2. CASE d # target
    <3>1. IsLinked(d)
      BY <1>1, <2>2 DEF TreeFacts
    <3> QED BY <1>1, <1>2, <3>1 DEF IsLinked
  <2> QED BY <2>1, <2>2
<1> QED BY <1>3, <1>5, <1>6 DEF TreeFacts, RootIsAlive

\* deleteDocument takes the target out of its parent's list: the link that
\* named the target, a son link or the brother link of prev, gets the name of
\* the target's brother.
LEMMA UnlinkKeepsTree ==
    ASSUME TreeFacts, pc = "unlink", pc' = "del", UNCHANGED stack,
           LiveDocuments' = LiveDocuments,
           NEW target \in LiveDocuments \ {0}, call'.target = target,
           NEW holder \in LiveDocuments \ {target},
           \/ /\ block[holder].indexSon = target
              /\ block'[holder].indexSon = block[target].indexBrother
              /\ block'[holder].indexBrother = block[holder].indexBrother
           \/ /\ block[holder].indexBrother = target
              /\ block'[holder].indexBrother = block[target].indexBrother
              /\ block'[holder].indexSon = block[holder].indexSon,
           \A p \in LiveDocuments \ {holder} : block'[p] = block[p]
    PROVE  TreeFacts'
<1>1. /\ SonHolders = LiveDocuments
      /\ SonHolders' = LiveDocuments
      /\ BrotherHolders = LiveDocuments
      /\ BrotherHolders' = LiveDocuments \ {target}
      /\ Positions' = Positions
      /\ ~ Visiting
      /\ ~ Visiting'
      /\ Linkable = LiveDocuments \ {0}
      /\ Linkable' = LiveDocuments \ {0, target}
  BY DEF SonHolders, BrotherHolders, Positions, Visiting, Linkable,
         StaleSons, StaleBrothers, Unlinked
<1>2. /\ \A p \in LiveDocuments : p # holder => /\ Son(p)' = Son(p)
                                                /\ Brother(p)' = Brother(p)
      /\ \/ /\ Son(holder) = target
            /\ Son(holder)' = Brother(target)
            /\ Brother(holder)' = Brother(holder)
         \/ /\ Brother(holder) = target
            /\ Brother(holder)' = Brother(target)
            /\ Son(holder)' = Son(holder)
  BY DEF Son, Brother
<1>3. LinksNameLinkable /\ LinksDiffer /\ \A d \in Linkable : IsLinked(d)
  BY DEF TreeFacts
<1>4. CASE /\ Son(holder) = target
           /\ Son(holder)' = Brother(target)
           /\ Brother(holder)' = Brother(holder)
  <2>1. LinksNameLinkable'
    BY <1>1, <1>2, <1>3, <1>4 DEF LinksNameLinkable, LinksDiffer
  <2>2. LinksDiffer'
    BY <1>1, <1>2, <1>3, <1>4 DEF LinksDiffer
  <2>3. ASSUME NEW d \in Linkable' PROVE IsLinked(d)'
    <3>1. IsLinked(d) /\ d # target
      BY <1>1, <1>3
    <3>2. CASE Brother(target) = d
      BY <1>1, <1>4, <3>2 DEF IsLinked
    <3>3. CASE Brother(target) # d
      BY <1>1, <1>2, <1>4, <3>1, <3>3 DEF IsLinked
    <3> QED BY <3>2, <3>3
  <2> QED BY <2>1, <2>2, <2>3 DEF TreeFacts, RootIsAlive
<1>5. CASE /\ Brother(holder) = target
           /\ Brother(holder)' = Brother(target)
           /\ Son(holder)' = Son(holder)
  <2>1. LinksNameLinkable'
    BY <1>1, <1>2, <1>3, <1>5 DEF LinksNameLinkable, LinksDiffer
  <2>2. LinksDiffer'
    BY <1>1, <1>2, <1>3, <1>5 DEF LinksDiffer
  <2>3. ASSUME NEW d \in Linkable' PROVE IsLinked(d)'
    <3>1. IsLinked(d) /\ d # target
      BY <1>1, <1>3
    <3>2. CASE Brother(target) = d
      BY <1>1, <1>5, <3>2 DEF IsLinked
    <3>3. CASE Brother(target) # d
      BY <1>1, <1>2, <1>5, <3>1, <3>3 DEF IsLinked
    <3> QED BY <3>2, <3>3
  <2> QED BY <2>1, <2>2, <2>3 DEF TreeFacts, RootIsAlive
<1> QED BY <1>2, <1>4, <1>5

\* deleteDocument kills the target; its sons are visited next.
LEMMA DeleteTargetKeepsTree ==
    ASSUME TreeFacts, pc = "del", pc' \in {"subtree", "toasts", "idle"},
           UNCHANGED <<stack, block>>,
           NEW target \in LiveDocuments \ {0}, call.target = target,
           LiveDocuments' = LiveDocuments \ {target},
           pc' = "subtree" <=> block[target].indexSon # 0,
           pc' = "subtree" => call'.temp = block[target].indexSon
    PROVE  TreeFacts'
<1>1. /\ SonHolders = LiveDocuments
      /\ SonHolders' = LiveDocuments \ {target}
      /\ BrotherHolders = LiveDocuments \ {target}
      /\ BrotherHolders' = LiveDocuments \ {target}
      /\ Positions' = Positions
      /\ ~ Visiting
      /\ Visiting' <=> Son(target) # 0
      /\ Visiting' => call'.temp = Son(target)
      /\ Linkable = LiveDocuments \ {0, target}
      /\ Linkable' = LiveDocuments \ {0, target}
  BY DEF SonHolders, BrotherHolders, Positions, Visiting, Linkable,
         StaleSons, StaleBrothers, Unlinked, Son
<1>2. \A p : Son(p)' = Son(p) /\ Brother(p)' = Brother(p)
  BY DEF Son, Brother
<1>3. LinksNameLinkable /\ LinksDiffer /\ \A d \in Linkable : IsLinked(d)
  BY DEF TreeFacts
<1>4. LinksNameLinkable'
  BY <1>1, <1>2, <1>3 DEF LinksNameLinkable
<1>5. LinksDiffer'
  BY <1>1, <1>2, <1>3 DEF LinksDiffer
<1>6. ASSUME NEW d \in Linkable' PROVE IsLinked(d)'
  <2>1. IsLinked(d) /\ d # 0
    BY <1>1, <1>3
  <2>2. CASE Son(target) = d
    BY <1>1, <2>1, <2>2 DEF IsLinked
  <2>3. CASE Son(target) # d
    BY <1>1, <1>2, <2>1, <2>3 DEF IsLinked
  <2> QED BY <2>2, <2>3
<1>7. RootIsAlive'
  BY DEF TreeFacts, RootIsAlive
<1> QED BY <1>4, <1>5, <1>6, <1>7 DEF TreeFacts

\* forEachDocument kills the document it visits; the document's links move
\* to the iterator.
LEMMA DeleteDescendantKeepsTree ==
    ASSUME TreeFacts, pc = "subtree", pc' \in {"subtree", "toasts", "idle"},
           UNCHANGED block, stack \in Seq(Nat),
           NEW doc \in LiveDocuments \ {0}, call.temp = doc, block[doc] \in Block,
           LiveDocuments' = LiveDocuments \ {doc},
           stack' = NextStack(block[doc]),
           pc' = "subtree" <=> NextDoc(block[doc]) # 0,
           pc' = "subtree" => call'.temp = NextDoc(block[doc])
    PROVE  TreeFacts'
<1>1. /\ SonHolders = LiveDocuments
      /\ SonHolders' = LiveDocuments \ {doc}
      /\ BrotherHolders = LiveDocuments
      /\ BrotherHolders' = LiveDocuments \ {doc}
      /\ Visiting
      /\ Visiting' <=> NextDoc(block[doc]) # 0
      /\ Visiting' => call'.temp = NextDoc(block[doc])
      /\ Linkable = LiveDocuments \ {0}
      /\ Linkable' = LiveDocuments \ {0, doc}
      /\ doc \in Linkable
  BY DEF SonHolders, BrotherHolders, Visiting, Linkable,
         StaleSons, StaleBrothers, Unlinked
<1>2. \A p : Son(p)' = Son(p) /\ Brother(p)' = Brother(p)
  BY DEF Son, Brother
<1>3. LinksNameLinkable /\ LinksDiffer /\ \A d \in Linkable : IsLinked(d)
  BY DEF TreeFacts
<1>4. RootIsAlive'
  BY DEF TreeFacts, RootIsAlive
\* No other link names the document that is being visited.
<1>5. /\ \A p \in LiveDocuments : Son(p) # doc /\ Brother(p) # doc
      /\ \A k \in Positions : stack[k] # doc
  BY <1>1, <1>3 DEF LinksDiffer
<1>6. /\ Len(stack) \in Nat
      /\ Positions = 1 .. Len(stack)
      /\ Positions' = 1 .. Len(stack')
  BY DEF Positions
<1>7. CASE Brother(doc) # 0 /\ Son(doc) # 0
  <2>1. /\ NextDoc(block[doc]) = Brother(doc)
        /\ stack' = Append(stack, Son(doc))
    BY <1>7 DEF NextDoc, NextStack, Son, Brother
  <2>2. Son(doc) \in Nat
    BY DEF Son, Block
  <2>3. /\ Positions' = Positions \cup {Len(stack) + 1}
        /\ \A k \in Positions : stack'[k] = stack[k]
        /\ stack'[Len(stack) + 1] = Son(doc)
        /\ Len(stack) + 1 \notin Positions
    BY <1>6, <2>1, <2>2, AppendProperties
  <2>4. Visiting' /\ call'.temp = Brother(doc)
    BY <1>1, <1>7, <2>1
  <2>5. LinksNameLinkable'
    BY <1>1, <1>2, <1>3, <1>5, <1>7, <2>3, <2>4 DEF LinksNameLinkable
  <2>6. LinksDiffer'
    BY <1>1, <1>2, <1>3, <1>7, <2>3, <2>4 DEF LinksDiffer
  <2>7. ASSUME NEW d \in Linkable' PROVE IsLinked(d)'
    <3>1. IsLinked(d) /\ d # doc
      BY <1>1, <1>3
    <3>2. CASE Son(doc) = d
      BY <2>3, <3>2 DEF IsLinked
    <3>3. CASE Brother(doc) = d
      BY <2>4, <3>3 DEF IsLinked
    <3>4. CASE Son(doc) # d /\ Brother(doc) # d
      BY <1>1, <1>2, <2>3, <3>1, <3>4 DEF IsLinked
    <3> QED BY <3>2, <3>3, <3>4
  <2> QED BY <1>4, <2>5, <2>6, <2>7 DEF TreeFacts
<1>8. CASE Brother(doc) # 0 /\ Son(doc) = 0
  <2>1. /\ NextDoc(block[doc]) = Brother(doc)
        /\ stack' = stack
    BY <1>8 DEF NextDoc, NextStack, Son, Brother
  <2>2. Visiting' /\ call'.temp = Brother(doc) /\ Positions' = Positions
    BY <1>1, <1>6, <1>8, <2>1
  <2>3. LinksNameLinkable'
    BY <1>1, <1>2, <1>3, <1>5, <1>8, <2>1, <2>2 DEF LinksNameLinkable
  <2>4. LinksDiffer'
    BY <1>1, <1>2, <1>3, <1>8, <2>1, <2>2 DEF LinksDiffer
  <2>5. ASSUME NEW d \in Linkable' PROVE IsLinked(d)'
    <3>1. IsLinked(d) /\ d # doc /\ d # 0
      BY <1>1, <1>3
    <3>2. CASE Brother(doc) = d
      BY <2>2, <3>2 DEF IsLinked
    <3>3. CASE Brother(doc) # d
      BY <1>1, <1>2, <1>8, <2>1, <2>2, <3>1, <3>3 DEF IsLinked
    <3> QED BY <3>2, <3>3
  <2> QED BY <1>4, <2>3, <2>4, <2>5 DEF TreeFacts
<1>9. CASE Brother(doc) = 0 /\ Son(doc) # 0
  <2>1. /\ NextDoc(block[doc]) = Son(doc)
        /\ stack' = stack
    BY <1>9 DEF NextDoc, NextStack, Son, Brother
  <2>2. Visiting' /\ call'.temp = Son(doc) /\ Positions' = Positions
    BY <1>1, <1>6, <1>9, <2>1
  <2>3. LinksNameLinkable'
    BY <1>1, <1>2, <1>3, <1>5, <1>9, <2>1, <2>2 DEF LinksNameLinkable
  <2>4. LinksDiffer'
    BY <1>1, <1>2, <1>3, <1>9, <2>1, <2>2 DEF LinksDiffer
  <2>5. ASSUME NEW d \in Linkable' PROVE IsLinked(d)'
    <3>1. IsLinked(d) /\ d # doc /\ d # 0
      BY <1>1, <1>3
    <3>2. CASE Son(doc) = d
      BY <2>2, <3>2 DEF IsLinked
    <3>3. CASE Son(doc) # d
      BY <1>1, <1>2, <1>9, <2>1, <2>2, <3>1, <3>3 DEF IsLinked
    <3> QED BY <3>2, <3>3
  <2> QED BY <1>4, <2>3, <2>4, <2>5 DEF TreeFacts
<1>10. CASE Brother(doc) = 0 /\ Son(doc) = 0 /\ stack # <<>>
  <2> DEFINE top == Len(stack)
  <2>1. /\ NextDoc(block[doc]) = stack[top]
        /\ stack' = Front(stack)
    BY <1>10 DEF NextDoc, NextStack, Son, Brother, Last
  <2>2. /\ top \in Positions
        /\ Positions' = Positions \ {top}
        /\ \A k \in Positions' : stack'[k] = stack[k]
    <3>1. /\ top \in 1 .. top
          /\ Len(Front(stack)) = top - 1
          /\ \A k \in 1 .. top - 1 : Front(stack)[k] = stack[k]
      BY <1>10, FrontProperties
    <3> QED BY <1>6, <2>1, <3>1
  <2> HIDE DEF top
  <2>3. /\ Visiting' <=> stack[top] # 0
        /\ Visiting' => call'.temp = stack[top]
    BY <1>1, <2>1
  <2>4. LinksNameLinkable'
    BY <1>1, <1>2, <1>3, <1>5, <2>2, <2>3 DEF LinksNameLinkable
  <2>5. LinksDiffer'
    BY <1>1, <1>2, <1>3, <2>2, <2>3 DEF LinksDiffer
  <2>6. ASSUME NEW d \in Linkable' PROVE IsLinked(d)'
    <3>1. IsLinked(d) /\ d # doc /\ d # 0
      BY <1>1, <1>3
    <3>2. CASE stack[top] = d
      BY <2>3, <3>1, <3>2 DEF IsLinked
    <3>3. CASE stack[top] # d
      BY <1>1, <1>2, <1>10, <2>2, <3>1, <3>3 DEF IsLinked
    <3> QED BY <3>2, <3>3
  <2> QED BY <1>4, <2>4, <2>5, <2>6 DEF TreeFacts
<1>11. CASE Brother(doc) = 0 /\ Son(doc) = 0 /\ stack = <<>>
  <2>1. /\ NextDoc(block[doc]) = 0
        /\ stack' = <<>>
    BY <1>11 DEF NextDoc, NextStack, Son, Brother
  <2>2. ~ Visiting' /\ Positions = {} /\ Positions' = {}
    BY <1>1, <1>6, <1>11, <2>1
  <2>3. LinksNameLinkable'
    BY <1>1, <1>2, <1>3, <1>5, <2>2 DEF LinksNameLinkable
  <2>4. LinksDiffer'
    BY <1>1, <1>2, <1>3, <2>2 DEF LinksDiffer
  <2>5. ASSUME NEW d \in Linkable' PROVE IsLinked(d)'
    <3>1. IsLinked(d) /\ d # doc /\ d # 0
      BY <1>1, <1>3
    <3> QED BY <1>1, <1>2, <1>11, <2>2, <3>1 DEF IsLinked
  <2> QED BY <1>4, <2>3, <2>4, <2>5 DEF TreeFacts
<1> QED BY <1>7, <1>8, <1>9, <1>10, <1>11

-----------------------------------------------------------------------------
(* The links to toasts, kind by kind.                                      *)

First(d) == block[d].firstToastIndex
NextToast(t) == block[t].nextToastIndex

ToastFacts ==
    /\ \A d \in LiveDocuments : First(d) # 0 => First(d) \in LiveToasts
    /\ \A t \in LiveToasts : NextToast(t) # 0 => NextToast(t) \in LiveToasts
    /\ HeldToast # 0 => HeldToast \in LiveToasts
    /\ \A d, e \in LiveDocuments : First(d) = First(e) /\ First(d) # 0 => d = e
    /\ \A t, u \in LiveToasts :
          NextToast(t) = NextToast(u) /\ NextToast(t) # 0 => t = u
    /\ \A d \in LiveDocuments, t \in LiveToasts :
          First(d) # 0 => First(d) # NextToast(t)
    /\ HeldToast # 0 => /\ \A d \in LiveDocuments : First(d) # HeldToast
                        /\ \A t \in LiveToasts : NextToast(t) # HeldToast

LEMMA ToastLinkKinds ==
    /\ \A d \in LiveDocuments : /\ <<"first", d>> \in ToastLinks
                                /\ ToastAt(<<"first", d>>) = First(d)
    /\ \A t \in LiveToasts : /\ <<"next", t>> \in ToastLinks
                             /\ ToastAt(<<"next", t>>) = NextToast(t)
    /\ <<"held", 0>> \in ToastLinks
    /\ ToastAt(<<"held", 0>>) = HeldToast
    /\ \A l \in ToastLinks :
          \/ \E d \in LiveDocuments : l = <<"first", d>>
          \/ \E t \in LiveToasts : l = <<"next", t>>
          \/ l = <<"held", 0>>
BY DEF ToastLinks, ToastAt, First, NextToast

LEMMA ToastInvIsToastFacts == ToastInv <=> ToastFacts
<1>1. ASSUME ToastInv PROVE ToastFacts
  BY <1>1, ToastLinkKinds
     DEF ToastFacts, ToastInv, ToastLinksNameLiveToasts, ToastLinksAreUnique
<1>2. ASSUME ToastFacts PROVE ToastInv
  <2>1. ToastLinksNameLiveToasts
    BY <1>2, ToastLinkKinds DEF ToastFacts, ToastLinksNameLiveToasts
  <2>2. ToastLinksAreUnique
    BY <1>2, ToastLinkKinds DEF ToastFacts, ToastLinksAreUnique
  <2> QED BY <2>1, <2>2 DEF ToastInv
<1> QED BY <1>1, <1>2

LEMMA ToastInvIsToastFactsNext == ToastInv' <=> ToastFacts'
BY ToastInvIsToastFacts, PTL

\* A step that changes no link to a toast; documents may die.
LEMMA ToastFactsUnchanged ==
    ASSUME ToastFacts, LiveDocuments' \subseteq LiveDocuments,
           LiveToasts' = LiveToasts, HeldToast' = HeldToast,
           \A d \in LiveDocuments :
              block'[d].firstToastIndex = block[d].firstToastIndex,
           \A t \in LiveToasts :
              block'[t].nextToastIndex = block[t].nextToastIndex
    PROVE  ToastFacts'
<1>1. /\ \A d \in LiveDocuments' : d \in LiveDocuments /\ First(d)' = First(d)
      /\ \A t \in LiveToasts : NextToast(t)' = NextToast(t)
  BY DEF First, NextToast
<1> QED BY <1>1 DEF ToastFacts

\* createNewToast: the new toast t has no successor and is held.
LEMMA NewToastKeepsToasts ==
    ASSUME ToastFacts, LiveDocuments' = LiveDocuments, HeldToast = 0,
           NEW t, t \notin LiveToasts, t \notin LiveDocuments,
           LiveToasts' = LiveToasts \cup {t}, HeldToast' = t,
           block'[t].nextToastIndex = 0,
           \A i \in LiveDocuments \cup LiveToasts : block'[i] = block[i]
    PROVE  ToastFacts'
<1>1. /\ \A d \in LiveDocuments : First(d)' = First(d)
      /\ \A u \in LiveToasts : NextToast(u)' = NextToast(u)
      /\ NextToast(t)' = 0
  BY DEF First, NextToast
<1> QED BY <1>1 DEF ToastFacts

\* createDocument: the held toast becomes the first toast of document d.
LEMMA NewDocumentKeepsToasts ==
    ASSUME ToastFacts, LiveToasts' = LiveToasts,
           NEW d, d \notin LiveDocuments, LiveDocuments' = LiveDocuments \cup {d},
           HeldToast' = 0, block'[d].firstToastIndex = HeldToast,
           d \notin LiveToasts,
           \A i \in LiveDocuments \cup LiveToasts : block'[i] = block[i]
    PROVE  ToastFacts'
<1>1. /\ \A e \in LiveDocuments : First(e)' = First(e)
      /\ \A u \in LiveToasts : NextToast(u)' = NextToast(u)
      /\ First(d)' = HeldToast
  BY DEF First, NextToast
<1> QED BY <1>1 DEF ToastFacts

\* updateElement: the held toast becomes the successor of toast t.
LEMMA LinkToastKeepsToasts ==
    ASSUME ToastFacts, LiveToasts' = LiveToasts, LiveDocuments' = LiveDocuments,
           HeldToast' = 0, NEW t \in LiveToasts,
           block'[t].nextToastIndex = HeldToast,
           \A d \in LiveDocuments :
              block'[d].firstToastIndex = block[d].firstToastIndex,
           \A u \in LiveToasts \ {t} : block'[u] = block[u]
    PROVE  ToastFacts'
<1>1. /\ \A e \in LiveDocuments : First(e)' = First(e)
      /\ \A u \in LiveToasts : u # t => NextToast(u)' = NextToast(u)
      /\ NextToast(t)' = HeldToast
  BY DEF First, NextToast
<1> QED BY <1>1 DEF ToastFacts

\* deleteDocument: the target's first toast is held instead of linked.
LEMMA DeadDocumentKeepsToasts ==
    ASSUME ToastFacts, LiveToasts' = LiveToasts, UNCHANGED block,
           NEW d \in LiveDocuments, LiveDocuments' = LiveDocuments \ {d},
           HeldToast = 0, HeldToast' = block[d].firstToastIndex
    PROVE  ToastFacts'
<1>1. /\ \A e : First(e)' = First(e)
      /\ \A u : NextToast(u)' = NextToast(u)
      /\ HeldToast' = First(d)
  BY DEF First, NextToast
<1> QED BY <1>1 DEF ToastFacts

\* deleteDocument: the held toast dies and its successor is held.
LEMMA DeadToastKeepsToasts ==
    ASSUME ToastFacts, UNCHANGED block, LiveDocuments' = LiveDocuments,
           NEW t \in LiveToasts, HeldToast = t, t # 0,
           LiveToasts' = LiveToasts \ {t},
           HeldToast' = block[t].nextToastIndex
    PROVE  ToastFacts'
<1>1. /\ \A e : First(e)' = First(e)
      /\ \A u : NextToast(u)' = NextToast(u)
      /\ HeldToast' = NextToast(t)
  BY DEF First, NextToast
<1> QED BY <1>1 DEF ToastFacts

-----------------------------------------------------------------------------
(* What a search finds.                                                    *)

\* Between requests every live document holds a son and a brother link.
LEMMA LinksWhenIdle ==
    ASSUME TreeFacts, pc = "idle"
    PROVE  /\ 0 \in LiveDocuments
           /\ \A p \in LiveDocuments :
                 /\ Son(p) # 0 => Son(p) \in LiveDocuments
                 /\ Brother(p) # 0 => Brother(p) \in LiveDocuments
           /\ \A p, q \in LiveDocuments :
                 /\ Son(p) = Son(q) /\ Son(p) # 0 => p = q
                 /\ Brother(p) = Brother(q) /\ Brother(p) # 0 => p = q
                 /\ Son(p) # 0 => Son(p) # Brother(q)
BY DEF TreeFacts, RootIsAlive, LinksNameLinkable, LinksDiffer, SonHolders,
       BrotherHolders, StaleSons, StaleBrothers, Linkable

\* What a search finds is alive.
LEMMA ReachableIsLive ==
    ASSUME TreeFacts, pc = "idle", NEW p \in Reachable
    PROVE  p \in LiveDocuments
<1>1. /\ LiveDocuments \in SUBSET Indexes
      /\ 0 \in LiveDocuments
      /\ \A x \in LiveDocuments :
            {block[x].indexSon, block[x].indexBrother} \ {0}
               \subseteq LiveDocuments
  BY LinksWhenIdle DEF LiveDocuments, Son, Brother
<1> QED BY <1>1 DEF Reachable

\* A child of a document is alive, is not the root and is not the document.
LEMMA ChildIsLive ==
    ASSUME TreeFacts, pc = "idle", NEW p \in Reachable, NEW d \in Children(p)
    PROVE  /\ p \in LiveDocuments
           /\ d \in LiveDocuments \ {0, p}
           /\ Son(p) # 0
           /\ Son(p) \in LiveDocuments
<1>1. p \in LiveDocuments /\ LiveDocuments \subseteq Indexes
  BY ReachableIsLive DEF LiveDocuments
<1> DEFINE C == Children(p)
           Closed(S) == /\ {Son(p)} \ {0} \subseteq S
                        /\ \A x \in S : {Brother(x)} \ {0} \subseteq S
<1>2. C = {y \in Indexes : \A S \in SUBSET Indexes : Closed(S) => y \in S}
  BY DEF Children, BrothersFrom, Son, Brother
<1> HIDE DEF C
<1>3. C \subseteq LiveDocuments \ {0}
  <2>1. Closed(LiveDocuments \ {0})
    BY <1>1, LinksWhenIdle
  <2>2. LiveDocuments \ {0} \in SUBSET Indexes
    BY <1>1
  <2> HIDE DEF Closed
  <2> QED BY <1>2, <2>1, <2>2
<1>4. Son(p) # 0
  <2> SUFFICES ASSUME Son(p) = 0 PROVE FALSE
    OBVIOUS
  <2>1. Closed({})
    OBVIOUS
  <2>2. C = {}
    BY <1>2, <2>1
  <2> QED BY <2>2 DEF C
<1>5. \A y \in C : y = Son(p) \/ \E x \in C : Brother(x) = y
  <2> SUFFICES ASSUME NEW y \in C, y # Son(p), \A x \in C : Brother(x) # y
               PROVE  FALSE
    OBVIOUS
  <2>1. Closed(C)
    <3>1. Son(p) \in Indexes
      BY <1>1, <1>4, LinksWhenIdle
    <3>2. Son(p) \in C
      BY <1>2, <1>4, <3>1
    <3>3. ASSUME NEW x \in C, Brother(x) # 0 PROVE Brother(x) \in C
      <4>1. Brother(x) \in Indexes
        BY <1>1, <1>3, <3>3, LinksWhenIdle
      <4> QED BY <1>2, <3>3, <4>1
    <3> QED BY <3>2, <3>3
  <2>2. Closed(C \ {y})
    BY <2>1
  <2>3. C \ {y} \in SUBSET Indexes
    BY <1>2
  <2> HIDE DEF Closed
  <2> QED BY <1>2, <2>2, <2>3
<1>6. p \notin C
  \* Otherwise C is a ring no link leads into, and p cannot be reached.
  <2> SUFFICES ASSUME p \in C PROVE FALSE
    OBVIOUS
  <2> DEFINE T == LiveDocuments \ C
  <2>1. T \in SUBSET Indexes /\ 0 \in T
    BY <1>1, <1>3, LinksWhenIdle
  <2>2. ASSUME NEW x \in T, Son(x) # 0 PROVE Son(x) \in T
    <3>1. Son(x) \in LiveDocuments
      BY <2>2, LinksWhenIdle
    <3>2. ASSUME Son(x) \in C PROVE FALSE
      <4>1. CASE Son(x) = Son(p)
        BY <1>1, <2>2, <4>1, LinksWhenIdle
      <4>2. CASE \E z \in C : Brother(z) = Son(x)
        BY <1>3, <2>2, <4>2, LinksWhenIdle
      <4> QED BY <1>5, <3>2, <4>1, <4>2
    <3> QED BY <3>1, <3>2
  <2>3. ASSUME NEW x \in T, Brother(x) # 0 PROVE Brother(x) \in T
    <3>1. Brother(x) \in LiveDocuments
      BY <2>3, LinksWhenIdle
    <3>2. ASSUME Brother(x) \in C PROVE FALSE
      <4>1. CASE Brother(x) = Son(p)
        BY <1>1, <1>4, <2>3, <4>1, LinksWhenIdle
      <4>2. CASE \E z \in C : Brother(z) = Brother(x)
        BY <1>3, <2>3, <4>2, LinksWhenIdle
      <4> QED BY <1>5, <3>2, <4>1, <4>2
    <3> QED BY <3>1, <3>2
  <2>4. \A x \in T :
           {block[x].indexSon, block[x].indexBrother} \ {0} \subseteq T
    BY <2>2, <2>3 DEF Son, Brother
  <2> HIDE DEF T
  <2>5. p \in T
    BY <2>1, <2>4 DEF Reachable
  <2> QED BY <2>5 DEF T
<1>7. d \in C
  BY DEF C
<1> QED BY <1>1, <1>3, <1>4, <1>6, <1>7, LinksWhenIdle

\* A document behind temp in its list is temp or behind temp's brother.
LEMMA BrothersFromStep ==
    ASSUME NEW temp \in Indexes, temp # 0, NEW d \in BrothersFrom(temp),
           d # temp
    PROVE  /\ Brother(temp) # 0
           /\ d \in BrothersFrom(Brother(temp))
<1>1. /\ d \in Indexes
      /\ \A S \in SUBSET Indexes :
            (/\ {temp} \ {0} \subseteq S
             /\ \A x \in S : {Brother(x)} \ {0} \subseteq S)
            => d \in S
  BY DEF BrothersFrom, Brother
<1>2. ASSUME NEW S \in SUBSET Indexes, {Brother(temp)} \ {0} \subseteq S,
             \A x \in S : {Brother(x)} \ {0} \subseteq S
      PROVE  d \in S
  <2>1. S \cup {temp} \in SUBSET Indexes
    OBVIOUS
  <2>2. \A x \in S \cup {temp} : {Brother(x)} \ {0} \subseteq S \cup {temp}
    BY <1>2
  <2>3. d \in S \cup {temp}
    BY <1>1, <2>1, <2>2
  <2> QED BY <2>3
<1>3. Brother(temp) # 0
  <2> SUFFICES ASSUME Brother(temp) = 0 PROVE FALSE
    OBVIOUS
  <2>1. {} \in SUBSET Indexes /\ {Brother(temp)} \ {0} \subseteq {}
    OBVIOUS
  <2>2. d \in {}
    BY <1>2, <2>1
  <2> QED BY <2>2
<1>4. d \in BrothersFrom(Brother(temp))
  BY <1>1, <1>2 DEF BrothersFrom, Brother
<1> QED BY <1>3, <1>4

-----------------------------------------------------------------------------
(* Every action keeps the inductive invariant.                             *)

LEMMA IInvUnfolded ==
    IInv <=> TypeOK /\ SpaceInv /\ TreeFacts /\ ToastFacts /\ RequestInv
BY TreeInvIsTreeFacts, ToastInvIsToastFacts DEF IInv

LEMMA IInvUnfoldedNext ==
    IInv' <=> TypeOK' /\ SpaceInv' /\ TreeFacts' /\ ToastFacts' /\ RequestInv'
BY IInvUnfolded, PTL

LEMMA StartCreateKeepsIInv ==
    ASSUME IInv, NEW p \in Reachable, NEW docSize \in DocumentSizes,
           NEW toastSize \in ToastSizes \cup {0},
           StartCreate(p, docSize, toastSize)
    PROVE  IInv'
<1>1. /\ pc = "idle"
      /\ pc' \in {"expand", "toast", "document"}
      /\ call' = [NoCall EXCEPT !.parent = p, !.header = block[p],
                                !.docSize = docSize, !.toastSize = toastSize]
      /\ UNCHANGED <<indexCount, flag, block, nodes, savedList, freeList,
                     stack>>
  BY DEF StartCreate, Goto, AllocationStep, file
<1>2. TypeOK /\ SpaceInv /\ TreeFacts /\ ToastFacts /\ RequestInv
  BY IInvUnfolded
<1>3. /\ p \in LiveDocuments
      /\ p \in Nat
      /\ block[p] \in Block
      /\ docSize \in Nat \ {0}
      /\ toastSize \in Nat
      /\ freeList.newIndexesCount \in Nat
  <2>1. p \in LiveDocuments /\ p \in Indexes
    BY <1>1, <1>2, ReachableIsLive DEF LiveDocuments
  <2> QED BY <1>2, <2>1, ConstantsAssumption
          DEF TypeOK, Indexes, FreeIndexesList
<1>4. /\ call'.parent = p
      /\ call'.header = block[p]
      /\ call'.docSize = docSize
      /\ call'.toastSize = toastSize
      /\ call'.toastIndex = 0
      /\ call' \in Call
  BY <1>1, <1>3 DEF NoCall, Call
<1>5. TypeOK'
  BY <1>1, <1>2, <1>4 DEF TypeOK, Steps, Indexes
<1>6. SpaceInv'
  BY <1>1, <1>2, LinkKeepsSpaceInv
<1>7. LiveDocuments' = LiveDocuments /\ LiveToasts' = LiveToasts
  BY <1>1, LiveAfterLink
<1>8. TreeFacts'
  BY <1>1, <1>2, <1>7, TreeFactsUnchanged
<1>9. HeldToast = 0 /\ HeldToast' = 0
  BY <1>1, <1>4 DEF HeldToast
<1>10. ToastFacts'
  BY <1>1, <1>2, <1>7, <1>9, ToastFactsUnchanged
<1>11. pc' = "toast" => toastSize > 0
  BY <1>1, <1>3 DEF StartCreate, Goto, AllocationStep
<1>12. pc' # "expand" => freeList.newIndexesCount >= 2
  BY <1>1, <1>3, ConstantsAssumption DEF StartCreate, Goto, NeedsExpansion
<1>13. RequestInv'
  BY <1>1, <1>3, <1>4, <1>7, <1>11, <1>12
     DEF RequestInv, CreateKeepsTrack, DeleteKeepsTrack, GrowKeepsTrack
<1> QED BY <1>5, <1>6, <1>8, <1>10, <1>13, IInvUnfoldedNext

LEMMA ExpandIndexesKeepsIInv ==
    ASSUME IInv, NEW n \in ExpandCounts, ExpandIndexes(n)
    PROVE  IInv'
<1>1. /\ pc = "expand"
      /\ pc' \in {"toast", "document"}
      /\ pc' = "toast" <=> call.toastSize # 0
      /\ call' = call
      /\ UNCHANGED <<nodes, savedList, stack>>
  BY DEF ExpandIndexes, Goto, AllocationStep
<1>2. TypeOK /\ SpaceInv /\ TreeFacts /\ ToastFacts /\ RequestInv
  BY IInvUnfolded
<1>3. /\ indexCount' \in Nat \ {0}
      /\ Indexes \subseteq Indexes'
      /\ flag' \in [Indexes' -> Flags]
      /\ block' \in [Indexes' -> Block]
      /\ \A i \in Indexes : flag'[i] = flag[i] /\ block'[i] = block[i]
      /\ \A i \in Indexes' \ Indexes : flag'[i] = "NEW"
      /\ freeList' \in FreeIndexesList
      /\ freeList'.newIndexesCount >= 2
      /\ SpaceInv'
  BY <1>2, ExpandKeepsSpaceInv
<1>4. TypeOK'
  BY <1>1, <1>2, <1>3 DEF TypeOK, Steps
<1>5. /\ LiveDocuments' = LiveDocuments
      /\ LiveToasts' = LiveToasts
      /\ LiveDocuments \subseteq Indexes
      /\ LiveToasts \subseteq Indexes
  BY <1>3 DEF LiveDocuments, LiveToasts
<1>6. TreeFacts'
  BY <1>1, <1>2, <1>3, <1>5, TreeFactsUnchanged
<1>7. HeldToast' = HeldToast
  BY <1>1, <1>2 DEF HeldToast, RequestInv, CreateKeepsTrack
<1>8. ToastFacts'
  BY <1>2, <1>3, <1>5, <1>7, ToastFactsUnchanged
<1>9. call.toastSize \in Nat /\ freeList'.newIndexesCount \in Nat
  BY <1>2, <1>3 DEF TypeOK, Call, FreeIndexesList
<1>10. RequestInv'
  BY <1>1, <1>2, <1>3, <1>5, <1>9
     DEF RequestInv, CreateKeepsTrack, DeleteKeepsTrack, GrowKeepsTrack
<1> QED BY <1>3, <1>4, <1>6, <1>8, <1>10, IInvUnfoldedNext

LEMMA CreateToastKeepsIInv ==
    ASSUME IInv, CreateToast
    PROVE  IInv'
<1> DEFINE size == call.toastSize
           capacity == call.toastSize + TOAST_HEADER
           header == ToastBlock(CapacityFor(size, capacity))
           t == Taken(size).indexOrder
<1>1. /\ pc = "toast"
      /\ pc' = "document"
      /\ call' = [call EXCEPT !.toastIndex = t]
      /\ HasRelevantIndex(freeList, size)
      /\ Attach(size, header)
      /\ UNCHANGED <<indexCount, nodes, savedList, stack>>
  BY DEF CreateToast, Goto
<1>2. TypeOK /\ SpaceInv /\ TreeFacts /\ ToastFacts /\ RequestInv
  BY IInvUnfolded
<1>3. /\ size \in Nat \ {0}
      /\ capacity \in Nat \ {0}
      /\ freeList.newIndexesCount \in Nat
      /\ freeList.newIndexesCount >= 2
      /\ call.toastIndex = 0
  <2>1. size \in Nat /\ size > 0 /\ TOAST_HEADER \in Nat
    BY <1>1, <1>2, ConstantsAssumption
       DEF TypeOK, Call, RequestInv, CreateKeepsTrack
  <2> QED BY <1>1, <1>2, <2>1
          DEF TypeOK, FreeIndexesList, RequestInv, CreateKeepsTrack
<1>4. /\ header \in Block
      /\ header.capacity = CapacityFor(size, capacity)
      /\ header.blockType = "TOAST"
      /\ header.nextToastIndex = 0
  <2>1. Taken(size) \in Node
    BY <1>1, <1>2, <1>3, RelevantIndexProperties
       DEF Taken, TypeOK, SpaceInv, FreeListWellFormed
  <2>2. CapacityFor(size, capacity) \in Nat
    BY <1>3, <2>1 DEF CapacityFor, Node
  <2> QED BY <2>2 DEF ToastBlock, NoBlock, Block, BlockTypes
<1> HIDE DEF size, capacity, header
<1>5. /\ t \in Indexes
      /\ flag[t] # "ALIVE"
      /\ flag' = [flag EXCEPT ![t] = "ALIVE"]
      /\ block' = [block EXCEPT ![t] = header]
      /\ flag' \in [Indexes -> Flags]
      /\ block' \in [Indexes -> Block]
      /\ freeList' \in FreeIndexesList
      /\ freeList'.newIndexesCount + 1 >= freeList.newIndexesCount
      /\ SpaceInv'
  BY <1>1, <1>2, <1>3, <1>4, AttachKeepsSpaceInv
<1> HIDE DEF t
<1>6. /\ LiveDocuments' = LiveDocuments
      /\ LiveToasts' = LiveToasts \cup {t}
      /\ t \notin LiveDocuments
      /\ t \notin LiveToasts
      /\ LiveDocuments \subseteq Indexes
      /\ LiveToasts \subseteq Indexes
      /\ block'[t] = header
      /\ \A i \in Indexes : i # t => block'[i] = block[i]
  BY <1>1, <1>2, <1>4, <1>5, LiveAfterAttach
<1>7. /\ call' \in Call
      /\ call'.toastIndex = t
      /\ call'.parent = call.parent
      /\ call'.header = call.header
      /\ call'.docSize = call.docSize
  <2>1. t \in Nat
    BY <1>2, <1>5 DEF TypeOK, Indexes
  <2>2. call \in Call
    BY <1>2 DEF TypeOK
  <2> QED BY <1>1, <2>1, <2>2 DEF Call
<1>8. TypeOK'
  BY <1>1, <1>2, <1>5, <1>7 DEF TypeOK, Steps, Indexes
<1>9. TreeFacts'
  BY <1>1, <1>2, <1>6, TreeFactsUnchanged
<1>10. HeldToast = 0 /\ HeldToast' = t
  BY <1>1, <1>7 DEF HeldToast
<1>11. ToastFacts'
  BY <1>2, <1>4, <1>6, <1>10, NewToastKeepsToasts
<1>12. freeList'.newIndexesCount >= 1
  <2>1. freeList'.newIndexesCount \in Nat
    BY <1>5 DEF FreeIndexesList
  <2> QED BY <1>3, <1>5, <2>1
<1>13. RequestInv'
  <2>1. /\ call.parent \in LiveDocuments
        /\ call.header = block[call.parent]
        /\ call.docSize > 0
    BY <1>1, <1>2 DEF RequestInv, CreateKeepsTrack
  <2> QED BY <1>1, <1>6, <1>7, <1>12, <2>1
      DEF RequestInv, CreateKeepsTrack, DeleteKeepsTrack, GrowKeepsTrack
<1> QED BY <1>5, <1>8, <1>9, <1>11, <1>13, IInvUnfoldedNext

LEMMA CreateDocumentKeepsIInv ==
    ASSUME IInv, CreateDocument
    PROVE  IInv'
<1> DEFINE size == call.docSize
           header == DocumentBlock(CapacityFor(size, size),
                                   call.header.indexSon, call.toastIndex)
           t == Taken(size).indexOrder
           parent == call.parent
<1>1. /\ pc = "document"
      /\ pc' = "linkSon"
      /\ call' = [call EXCEPT !.target = t]
      /\ HasRelevantIndex(freeList, size)
      /\ Attach(size, header)
      /\ nodes' = nodes + 1
      /\ UNCHANGED <<indexCount, savedList, stack>>
  BY DEF CreateDocument, Goto
<1>2. TypeOK /\ SpaceInv /\ TreeFacts /\ ToastFacts /\ RequestInv
  BY IInvUnfolded
<1>3. /\ size \in Nat \ {0}
      /\ parent \in LiveDocuments
      /\ call.header = block[parent]
      /\ call.header \in Block
      /\ call.toastIndex \in Nat
  BY <1>1, <1>2 DEF TypeOK, Call, RequestInv, CreateKeepsTrack
<1>4. /\ header \in Block
      /\ header.capacity = CapacityFor(size, size)
      /\ header.blockType = "DOCUMENT"
      /\ header.indexSon = 0
      /\ header.indexBrother = block[parent].indexSon
      /\ header.firstToastIndex = call.toastIndex
  <2>1. Taken(size) \in Node
    BY <1>1, <1>2, <1>3, RelevantIndexProperties
       DEF Taken, TypeOK, SpaceInv, FreeListWellFormed
  <2>2. CapacityFor(size, size) \in Nat
    BY <1>3, <2>1 DEF CapacityFor, Node
  <2> QED BY <1>3, <2>2 DEF DocumentBlock, NoBlock, Block, BlockTypes
<1> HIDE DEF size, header
<1>5. /\ t \in Indexes
      /\ flag[t] # "ALIVE"
      /\ flag' = [flag EXCEPT ![t] = "ALIVE"]
      /\ block' = [block EXCEPT ![t] = header]
      /\ flag' \in [Indexes -> Flags]
      /\ block' \in [Indexes -> Block]
      /\ freeList' \in FreeIndexesList
      /\ SpaceInv'
  BY <1>1, <1>2, <1>3, <1>4, AttachKeepsSpaceInv
<1> HIDE DEF t, parent
<1>6. /\ LiveDocuments' = LiveDocuments \cup {t}
      /\ LiveToasts' = LiveToasts
      /\ t \notin LiveDocuments
      /\ t \notin LiveToasts
      /\ LiveDocuments \subseteq Indexes
      /\ LiveToasts \subseteq Indexes
      /\ block'[t] = header
      /\ \A i \in Indexes : i # t => block'[i] = block[i]
  BY <1>1, <1>2, <1>4, <1>5, LiveAfterAttach
<1>7. /\ call' \in Call
      /\ call'.target = t
      /\ call'.parent = parent
      /\ call'.header = call.header
      /\ call'.docSize = call.docSize
  <2>1. t \in Nat
    BY <1>2, <1>5 DEF TypeOK, Indexes
  <2>2. call \in Call
    BY <1>2 DEF TypeOK
  <2> QED BY <1>1, <2>1, <2>2 DEF Call, parent
<1>8. TypeOK'
  BY <1>1, <1>2, <1>5, <1>7 DEF TypeOK, Steps, Indexes
<1>9. TreeFacts'
  BY <1>1, <1>2, <1>3, <1>4, <1>6, <1>7, CreateDocumentKeepsTree
<1>10. HeldToast = call.toastIndex /\ HeldToast' = 0
  BY <1>1 DEF HeldToast
<1>11. ToastFacts'
  BY <1>2, <1>4, <1>6, <1>10, NewDocumentKeepsToasts
<1>12. t # 0 /\ t # parent
  BY <1>2, <1>3, <1>6 DEF TreeFacts, RootIsAlive
<1>13. RequestInv'
  <2>1. call.docSize > 0
    BY <1>1, <1>2 DEF RequestInv, CreateKeepsTrack
  <2> QED BY <1>1, <1>3, <1>6, <1>7, <1>12, <2>1
      DEF RequestInv, CreateKeepsTrack, DeleteKeepsTrack, GrowKeepsTrack
<1> QED BY <1>5, <1>8, <1>9, <1>11, <1>13, IInvUnfoldedNext

LEMMA LinkSonKeepsIInv ==
    ASSUME IInv, LinkSon
    PROVE  IInv'
<1> DEFINE parent == call.parent
           target == call.target
           header == [call.header EXCEPT !.indexSon = target]
<1>1. /\ pc = "linkSon"
      /\ pc' = "idle"
      /\ call' = NoCall
      /\ block' = [block EXCEPT ![parent] = header]
      /\ UNCHANGED <<indexCount, flag, nodes, savedList, freeList, stack>>
  BY DEF LinkSon, Goto
<1>2. TypeOK /\ SpaceInv /\ TreeFacts /\ ToastFacts /\ RequestInv
  BY IInvUnfolded
<1>3. /\ parent \in LiveDocuments
      /\ parent \in Indexes
      /\ target \in LiveDocuments \ {0, parent}
      /\ target \in Nat
      /\ call.header = block[parent]
      /\ block \in [Indexes -> Block]
  BY <1>1, <1>2
     DEF TypeOK, Call, RequestInv, CreateKeepsTrack, LiveDocuments
<1>4. /\ header \in Block
      /\ header.indexSon = target
      /\ header.blockType = block[parent].blockType
      /\ header.capacity = block[parent].capacity
      /\ header.indexBrother = block[parent].indexBrother
      /\ header.firstToastIndex = block[parent].firstToastIndex
      /\ header.nextToastIndex = block[parent].nextToastIndex
  <2>1. call.header \in Block
    BY <1>3
  <2> QED BY <1>3, <2>1 DEF Block
<1> HIDE DEF header, parent, target
<1>5. /\ block' \in [Indexes -> Block]
      /\ block'[parent] = header
      /\ \A i \in Indexes : i # parent => block'[i] = block[i]
  BY <1>1, <1>3, <1>4
<1>6. TypeOK'
  <2>1. NoCall \in Call
    BY DEF NoCall, Call, NoBlock, Block, BlockTypes
  <2> QED BY <1>1, <1>2, <1>5, <2>1 DEF TypeOK, Steps, Indexes
<1>7. SpaceInv'
  BY <1>1, <1>2, <1>4, <1>5, LinkKeepsSpaceInv
<1>8. LiveDocuments' = LiveDocuments /\ LiveToasts' = LiveToasts
  BY <1>1, <1>4, <1>5, LiveAfterLink
<1>9. LiveDocuments \subseteq Indexes /\ LiveToasts \subseteq Indexes
  BY DEF LiveDocuments, LiveToasts
<1>10. TreeFacts'
  BY <1>1, <1>2, <1>3, <1>4, <1>5, <1>8, <1>9, LinkSonKeepsTree
     DEF parent, target
<1>11. HeldToast = 0 /\ HeldToast' = 0
  BY <1>1 DEF HeldToast
<1>12. ToastFacts'
  BY <1>2, <1>4, <1>5, <1>8, <1>9, <1>11, ToastFactsUnchanged
<1>13. RequestInv'
  BY <1>1 DEF RequestInv, CreateKeepsTrack, DeleteKeepsTrack, GrowKeepsTrack
<1> QED BY <1>6, <1>7, <1>10, <1>12, <1>13, IInvUnfoldedNext

LEMMA StartDeleteKeepsIInv ==
    ASSUME IInv, NEW p \in Reachable, NEW d \in Children(p), StartDelete(p, d)
    PROVE  IInv'
<1>1. /\ pc = "idle"
      /\ pc' = IF block[p].indexSon = 0 THEN "unlink" ELSE "walk"
      /\ call' = [NoCall EXCEPT !.parent = p, !.target = d,
                     !.header = block[d], !.temp = block[p].indexSon,
                     !.tail = p]
      /\ UNCHANGED <<indexCount, flag, block, nodes, savedList, freeList,
                     stack>>
  BY DEF StartDelete, Goto, file
<1>2. TypeOK /\ SpaceInv /\ TreeFacts /\ ToastFacts /\ RequestInv
  BY IInvUnfolded
<1>3. /\ p \in LiveDocuments
      /\ d \in LiveDocuments \ {0, p}
      /\ block[p].indexSon # 0
      /\ block[p].indexSon \in LiveDocuments
  BY <1>1, <1>2, ChildIsLive DEF Son
<1>4. /\ p \in Nat
      /\ d \in Nat
      /\ block[d] \in Block
      /\ block[p].indexSon \in Nat
  BY <1>2, <1>3 DEF TypeOK, LiveDocuments, Indexes
<1>5. pc' = "walk"
  BY <1>1, <1>3
<1>6. /\ call' \in Call
      /\ call'.parent = p
      /\ call'.target = d
      /\ call'.header = block[d]
      /\ call'.temp = block[p].indexSon
      /\ call'.tail = p
  BY <1>1, <1>4 DEF NoCall, Call
<1>7. TypeOK'
  BY <1>1, <1>2, <1>5, <1>6 DEF TypeOK, Steps, Indexes
<1>8. SpaceInv'
  BY <1>1, <1>2, <1>5, LinkKeepsSpaceInv
<1>9. LiveDocuments' = LiveDocuments /\ LiveToasts' = LiveToasts
  BY <1>1, LiveAfterLink
<1>10. TreeFacts'
  BY <1>1, <1>2, <1>5, <1>9, TreeFactsUnchanged
<1>11. HeldToast = 0 /\ HeldToast' = 0
  BY <1>1, <1>5 DEF HeldToast
<1>12. ToastFacts'
  BY <1>1, <1>2, <1>9, <1>11, ToastFactsUnchanged
<1>13. (call.target \in BrothersFrom(call.temp))'
  BY <1>1, <1>6 DEF Children, BrothersFrom, Indexes
<1>14. RequestInv'
  <2>1. CreateKeepsTrack' /\ GrowKeepsTrack'
    BY <1>5 DEF CreateKeepsTrack, GrowKeepsTrack
  <2>2. DeleteKeepsTrack'
    BY <1>1, <1>3, <1>5, <1>6, <1>9, <1>13 DEF DeleteKeepsTrack
  <2> QED BY <2>1, <2>2 DEF RequestInv
<1> QED BY <1>7, <1>8, <1>10, <1>12, <1>14, IInvUnfoldedNext

LEMMA WalkSiblingsKeepsIInv ==
    ASSUME IInv, WalkSiblings
    PROVE  IInv'
<1> DEFINE temp == call.temp
           target == call.target
           brother == block[temp].indexBrother
<1>1. /\ pc = "walk"
      /\ pc' = IF temp = target \/ brother = 0 THEN "unlink" ELSE "walk"
      /\ call' = [call EXCEPT !.prev = call.tail, !.tail = temp,
                              !.temp = brother]
      /\ UNCHANGED <<indexCount, flag, block, nodes, savedList, freeList,
                     stack>>
  BY DEF WalkSiblings, Goto, file
<1>2. TypeOK /\ SpaceInv /\ TreeFacts /\ ToastFacts /\ RequestInv
  BY IInvUnfolded
<1>3. /\ temp \in LiveDocuments \ {0}
      /\ temp \in Indexes
      /\ target \in BrothersFrom(temp)
      /\ target \in LiveDocuments \ {0, call.parent}
      /\ call.tail \in LiveDocuments \ {target}
      /\ \/ block[call.parent].indexSon = temp
         \/ block[call.tail].indexBrother = temp
  BY <1>1, <1>2 DEF RequestInv, DeleteKeepsTrack, LiveDocuments
<1>4. brother # 0 => brother \in LiveDocuments
  BY <1>1, <1>2, <1>3
     DEF TreeFacts, LinksNameLinkable, BrotherHolders, StaleBrothers,
         Linkable, Brother
<1>5. temp # target => brother # 0 /\ target \in BrothersFrom(brother)
  BY <1>3, BrothersFromStep DEF Brother
<1>6. temp \in Nat /\ brother \in Nat /\ call \in Call
  BY <1>2, <1>3 DEF TypeOK, Block, Indexes
<1>7. /\ call' \in Call
      /\ call'.parent = call.parent
      /\ call'.target = target
      /\ call'.header = call.header
      /\ call'.temp = brother
      /\ call'.tail = temp
      /\ call'.prev = call.tail
  BY <1>1, <1>6 DEF Call
<1> HIDE DEF temp, target, brother
<1>8. TypeOK'
  BY <1>1, <1>2, <1>7 DEF TypeOK, Steps, Indexes
<1>9. SpaceInv'
  BY <1>1, <1>2, LinkKeepsSpaceInv
<1>10. LiveDocuments' = LiveDocuments /\ LiveToasts' = LiveToasts
  BY <1>1, LiveAfterLink
<1>11. TreeFacts'
  BY <1>1, <1>2, <1>10, TreeFactsUnchanged
<1>12. HeldToast = 0 /\ HeldToast' = 0
  BY <1>1 DEF HeldToast
<1>13. ToastFacts'
  BY <1>1, <1>2, <1>10, <1>12, ToastFactsUnchanged
<1>14. RequestInv'
  <2>1. CreateKeepsTrack' /\ GrowKeepsTrack'
    BY <1>1 DEF CreateKeepsTrack, GrowKeepsTrack
  <2>2. /\ call.parent \in LiveDocuments
        /\ call.header.capacity = block[target].capacity
        /\ call.header.indexSon = block[target].indexSon
        /\ call.header.firstToastIndex = block[target].firstToastIndex
    BY <1>1, <1>2 DEF RequestInv, DeleteKeepsTrack, target
  <2>3. brother = block[temp].indexBrother
    BY DEF brother
  <2>4. DeleteKeepsTrack'
    <3>1. CASE temp = target
      BY <1>1, <1>3, <1>7, <1>10, <2>2, <3>1 DEF DeleteKeepsTrack
    <3>2. CASE temp # target
      <4>1. pc' = "walk" /\ brother # 0 /\ brother \in LiveDocuments
        BY <1>1, <1>4, <1>5, <3>2
      <4>2. (call.target \in BrothersFrom(call.temp))'
        BY <1>1, <1>5, <1>7, <3>2 DEF BrothersFrom, Indexes
      <4> QED BY <1>1, <1>3, <1>7, <1>10, <2>2, <2>3, <3>2, <4>1, <4>2
              DEF DeleteKeepsTrack
    <3> QED BY <3>1, <3>2
  <2> QED BY <2>1, <2>4 DEF RequestInv
<1> QED BY <1>8, <1>9, <1>11, <1>13, <1>14, IInvUnfoldedNext

LEMMA UnlinkKeepsIInv ==
    ASSUME IInv, Unlink
    PROVE  IInv'
<1> DEFINE parent == call.parent
           prev == call.prev
           target == call.target
           brother == block[target].indexBrother
           holder == IF block[parent].indexSon = target THEN parent ELSE prev
<1>1. TypeOK /\ SpaceInv /\ TreeFacts /\ ToastFacts /\ RequestInv
  BY IInvUnfolded
<1>2. /\ pc = "unlink"
      /\ pc' = "del"
      /\ call' = call
      /\ call.tail = target
      /\ UNCHANGED <<indexCount, flag, nodes, savedList, freeList, stack>>
  BY <1>1 DEF Unlink, Goto, RequestInv, DeleteKeepsTrack
<1>3. block' = IF block[parent].indexSon = target
               THEN [block EXCEPT ![parent].indexSon = brother]
               ELSE [block EXCEPT ![prev].indexBrother = brother]
  BY <1>2 DEF Unlink, IsFirstSon
<1>4. /\ target \in LiveDocuments \ {0, parent}
      /\ parent \in LiveDocuments
      /\ \/ block[parent].indexSon = target
         \/ /\ prev \in LiveDocuments \ {target}
            /\ block[prev].indexBrother = target
      /\ call.header.capacity = block[target].capacity
      /\ call.header.indexSon = block[target].indexSon
      /\ call.header.firstToastIndex = block[target].firstToastIndex
  BY <1>1, <1>2 DEF RequestInv, DeleteKeepsTrack
<1>5. LiveDocuments \subseteq Indexes /\ LiveToasts \subseteq Indexes
  BY DEF LiveDocuments, LiveToasts
<1>6. block \in [Indexes -> Block] /\ brother \in Nat
  BY <1>1, <1>4, <1>5 DEF TypeOK, Block
<1> HIDE DEF parent, prev, target, brother
<1>7. /\ holder \in LiveDocuments \ {target}
      /\ \/ /\ block[holder].indexSon = target
            /\ block'[holder].indexSon = brother
            /\ block'[holder].indexBrother = block[holder].indexBrother
         \/ /\ block[holder].indexBrother = target
            /\ block'[holder].indexBrother = brother
            /\ block'[holder].indexSon = block[holder].indexSon
      /\ \A i \in Indexes : i # holder => block'[i] = block[i]
      /\ \A i \in Indexes :
            /\ block'[i].capacity = block[i].capacity
            /\ block'[i].blockType = block[i].blockType
            /\ block'[i].firstToastIndex = block[i].firstToastIndex
            /\ block'[i].nextToastIndex = block[i].nextToastIndex
      /\ block' \in [Indexes -> Block]
  <2>1. CASE block[parent].indexSon = target
    <3>1. block' = [block EXCEPT ![parent].indexSon = brother]
      BY <1>3, <2>1
    <3>2. /\ block' \in [Indexes -> Block]
          /\ parent \in Indexes
          /\ \A i \in Indexes : block[i] \in Block
      BY <1>4, <1>5, <1>6, <3>1 DEF Block
    <3> QED BY <1>4, <1>6, <2>1, <3>1, <3>2 DEF Block
  <2>2. CASE block[parent].indexSon # target
    <3>1. /\ block' = [block EXCEPT ![prev].indexBrother = brother]
          /\ prev \in LiveDocuments \ {target}
          /\ block[prev].indexBrother = target
      BY <1>3, <1>4, <2>2
    <3>2. /\ block' \in [Indexes -> Block]
          /\ prev \in Indexes
          /\ \A i \in Indexes : block[i] \in Block
      BY <1>5, <1>6, <3>1 DEF Block
    <3> QED BY <1>6, <2>2, <3>1, <3>2 DEF Block
  <2> QED BY <2>1, <2>2
<1> HIDE DEF holder
<1>8. TypeOK'
  BY <1>1, <1>2, <1>7 DEF TypeOK, Steps, Indexes
<1>9. SpaceInv'
  BY <1>1, <1>2, <1>7, LinkKeepsSpaceInv
<1>10. LiveDocuments' = LiveDocuments /\ LiveToasts' = LiveToasts
  BY <1>2, <1>7, LiveAfterLink
<1>11. TreeFacts'
  <2>1. /\ call'.target = target
        /\ brother = block[target].indexBrother
        /\ \A p \in LiveDocuments \ {holder} : block'[p] = block[p]
    BY <1>2, <1>5, <1>7 DEF target, brother
  <2> QED BY <1>1, <1>2, <1>4, <1>7, <1>10, <2>1, UnlinkKeepsTree
<1>12. HeldToast = 0 /\ HeldToast' = 0
  BY <1>2 DEF HeldToast
<1>13. ToastFacts'
  BY <1>1, <1>5, <1>7, <1>10, <1>12, ToastFactsUnchanged
<1>14. RequestInv'
  <2>1. /\ call'.target = target
        /\ call'.parent = parent
        /\ call'.header = call.header
        /\ block'[target] = block[target]
    BY <1>2, <1>4, <1>5, <1>7 DEF target, parent
  <2> QED BY <1>2, <1>4, <1>10, <2>1
          DEF RequestInv, CreateKeepsTrack, DeleteKeepsTrack, GrowKeepsTrack
<1> QED BY <1>8, <1>9, <1>11, <1>13, <1>14, IInvUnfoldedNext

LEMMA DeleteTargetKeepsIInv ==
    ASSUME IInv, DeleteTarget
    PROVE  IInv'
<1> DEFINE target == call.target
           son == block[target].indexSon
           toast == block[target].firstToastIndex
<1>1. TypeOK /\ SpaceInv /\ TreeFacts /\ ToastFacts /\ RequestInv
  BY IInvUnfolded
<1>2. /\ pc = "del"
      /\ target \in LiveDocuments \ {0}
      /\ call.header.capacity = block[target].capacity
      /\ call.header.indexSon = son
      /\ call.header.firstToastIndex = toast
      /\ UNCHANGED <<indexCount, block, savedList, stack>>
  BY <1>1 DEF DeleteTarget, RequestInv, DeleteKeepsTrack
<1>3. Free(target, block[target].capacity) /\ nodes' = nodes - 1
  BY <1>2 DEF DeleteTarget
<1>4. /\ pc' = IF son # 0 THEN "subtree"
               ELSE IF toast # 0 THEN "toasts" ELSE "idle"
      /\ call' = IF son # 0 THEN [call EXCEPT !.temp = son]
                 ELSE IF toast # 0 THEN [call EXCEPT !.temp = toast]
                 ELSE NoCall
  BY <1>2 DEF DeleteTarget, AfterTarget, AfterSubtree, Goto
<1>5. /\ target \in Indexes
      /\ flag[target] = "ALIVE"
      /\ son \in Nat
      /\ toast \in Nat
      /\ call \in Call
      /\ NoCall \in Call
  BY <1>1, <1>2
     DEF TypeOK, LiveDocuments, Block, NoCall, Call, NoBlock, BlockTypes
<1> HIDE DEF target, son, toast
<1>6. /\ flag' = [flag EXCEPT ![target] = "DEAD"]
      /\ flag' \in [Indexes -> Flags]
      /\ freeList' \in FreeIndexesList
      /\ SpaceInv'
  BY <1>1, <1>2, <1>3, <1>4, <1>5, FreeKeepsSpaceInv
<1>7. call' \in Call
  BY <1>4, <1>5 DEF Call
<1>8. /\ son # 0 => call'.temp = son /\ call'.header = call.header
      /\ son = 0 /\ toast # 0 => call'.temp = toast
  BY <1>4, <1>5 DEF Call
<1>9. TypeOK'
  BY <1>1, <1>2, <1>3, <1>4, <1>6, <1>7 DEF TypeOK, Steps, Indexes
<1>10. /\ LiveDocuments' = LiveDocuments \ {target}
       /\ LiveToasts' = LiveToasts
  <2>1. LiveToasts' = LiveToasts \ {target}
    BY <1>1, <1>2, <1>5, <1>6, LiveAfterFree
  <2>2. target \notin LiveToasts
    BY <1>2 DEF LiveDocuments, LiveToasts
  <2> QED BY <1>1, <1>2, <1>5, <1>6, <2>1, <2>2, LiveAfterFree
<1>11. TreeFacts'
  <2>1. /\ pc' \in {"subtree", "toasts", "idle"}
        /\ pc' = "subtree" <=> block[target].indexSon # 0
        /\ pc' = "subtree" => call'.temp = block[target].indexSon
    BY <1>4, <1>8 DEF son
  <2> QED BY <1>1, <1>2, <1>10, <2>1, DeleteTargetKeepsTree DEF target
<1>12. HeldToast = 0 /\ HeldToast' = toast
  BY <1>2, <1>4, <1>8 DEF HeldToast
<1>13. ToastFacts'
  BY <1>1, <1>2, <1>10, <1>12, DeadDocumentKeepsToasts DEF toast
<1>14. RequestInv'
  BY <1>4, <1>8
     DEF RequestInv, CreateKeepsTrack, DeleteKeepsTrack, GrowKeepsTrack
<1> QED BY <1>6, <1>9, <1>11, <1>13, <1>14, IInvUnfoldedNext

LEMMA DeleteDescendantKeepsIInv ==
    ASSUME IInv, DeleteDescendant
    PROVE  IInv'
<1> DEFINE doc == call.temp
           next == NextDoc(block[doc])
           toast == call.header.firstToastIndex
<1>1. TypeOK /\ SpaceInv /\ TreeFacts /\ ToastFacts /\ RequestInv
  BY IInvUnfolded
<1>2. /\ pc = "subtree"
      /\ Free(doc, block[doc].capacity)
      /\ nodes' = nodes - 1
      /\ stack' = NextStack(block[doc])
      /\ UNCHANGED <<indexCount, block, savedList>>
  BY DEF DeleteDescendant
<1>3. /\ pc' = IF next # 0 THEN "subtree"
               ELSE IF toast # 0 THEN "toasts" ELSE "idle"
      /\ call' = IF next # 0 THEN [call EXCEPT !.temp = next]
                 ELSE IF toast # 0 THEN [call EXCEPT !.temp = toast]
                 ELSE NoCall
  BY DEF DeleteDescendant, AfterSubtree, Goto
<1>4. doc \in LiveDocuments \ {0}
  BY <1>1, <1>2
     DEF RequestInv, DeleteKeepsTrack, TreeFacts, LinksNameLinkable, Visiting,
         Linkable
<1>5. /\ doc \in Indexes
      /\ flag[doc] = "ALIVE"
      /\ block[doc] \in Block
      /\ stack \in Seq(Nat)
      /\ call \in Call
      /\ toast \in Nat
  BY <1>1, <1>4 DEF TypeOK, LiveDocuments, Call, Block
<1>6. next \in Nat /\ stack' \in Seq(Nat)
  <2>1. block[doc].indexBrother \in Nat /\ block[doc].indexSon \in Nat
    BY <1>5 DEF Block
  <2>2. stack # <<>> => Last(stack) \in Nat /\ Front(stack) \in Seq(Nat)
    BY <1>5, FrontProperties DEF Last
  <2>3. Append(stack, block[doc].indexSon) \in Seq(Nat)
    BY <1>5, <2>1
  <2> QED BY <1>2, <1>5, <2>1, <2>2, <2>3 DEF NextDoc, NextStack
<1> HIDE DEF doc, next, toast
<1>7. /\ flag' = [flag EXCEPT ![doc] = "DEAD"]
      /\ flag' \in [Indexes -> Flags]
      /\ freeList' \in FreeIndexesList
      /\ SpaceInv'
  BY <1>1, <1>2, <1>3, <1>5, FreeKeepsSpaceInv
<1>8. call' \in Call
  <2>1. NoCall \in Call
    BY DEF NoCall, Call, NoBlock, Block, BlockTypes
  <2> QED BY <1>3, <1>5, <1>6, <2>1 DEF Call
<1>9. /\ next # 0 => call'.temp = next /\ call'.header = call.header
      /\ next = 0 /\ toast # 0 => call'.temp = toast
  BY <1>3, <1>5 DEF Call
<1>10. TypeOK'
  BY <1>1, <1>2, <1>3, <1>6, <1>7, <1>8 DEF TypeOK, Steps, Indexes
<1>11. /\ LiveDocuments' = LiveDocuments \ {doc}
       /\ LiveToasts' = LiveToasts
  <2>1. LiveToasts' = LiveToasts \ {doc}
    BY <1>1, <1>2, <1>5, <1>7, LiveAfterFree
  <2>2. doc \notin LiveToasts
    BY <1>4 DEF LiveDocuments, LiveToasts
  <2> QED BY <1>1, <1>2, <1>5, <1>7, <2>1, <2>2, LiveAfterFree
<1>12. TreeFacts'
  <2>1. /\ pc' \in {"subtree", "toasts", "idle"}
        /\ pc' = "subtree" <=> NextDoc(block[doc]) # 0
        /\ pc' = "subtree" => call'.temp = NextDoc(block[doc])
        /\ call.temp = doc
    BY <1>3, <1>9 DEF next, doc
  <2> QED BY <1>1, <1>2, <1>4, <1>5, <1>11, <2>1, DeleteDescendantKeepsTree
<1>13. HeldToast' = HeldToast
  BY <1>2, <1>3, <1>9 DEF HeldToast, toast
<1>14. ToastFacts'
  BY <1>1, <1>2, <1>11, <1>13, ToastFactsUnchanged
<1>15. RequestInv'
  BY <1>3, <1>9
     DEF RequestInv, CreateKeepsTrack, DeleteKeepsTrack, GrowKeepsTrack
<1> QED BY <1>7, <1>10, <1>12, <1>14, <1>15, IInvUnfoldedNext

LEMMA DeleteToastKeepsIInv ==
    ASSUME IInv, DeleteToast
    PROVE  IInv'
<1> DEFINE toast == call.temp
           next == block[toast].nextToastIndex
<1>1. TypeOK /\ SpaceInv /\ TreeFacts /\ ToastFacts /\ RequestInv
  BY IInvUnfolded
<1>2. /\ pc = "toasts"
      /\ Free(toast, block[toast].capacity)
      /\ pc' = IF next # 0 THEN "toasts" ELSE "idle"
      /\ call' = IF next # 0 THEN [call EXCEPT !.temp = next] ELSE NoCall
      /\ UNCHANGED <<indexCount, block, nodes, savedList, stack>>
  BY DEF DeleteToast, Goto
<1>3. HeldToast = toast
  BY <1>2 DEF HeldToast
<1>4. toast \in LiveToasts /\ toast # 0
  BY <1>1, <1>2, <1>3
     DEF RequestInv, DeleteKeepsTrack, ToastFacts
<1>5. /\ toast \in Indexes
      /\ flag[toast] = "ALIVE"
      /\ next \in Nat
      /\ call \in Call
      /\ NoCall \in Call
  BY <1>1, <1>4
     DEF TypeOK, LiveToasts, Block, NoCall, Call, NoBlock, BlockTypes
<1> HIDE DEF toast, next
<1>6. /\ flag' = [flag EXCEPT ![toast] = "DEAD"]
      /\ flag' \in [Indexes -> Flags]
      /\ freeList' \in FreeIndexesList
      /\ SpaceInv'
  BY <1>1, <1>2, <1>5, FreeKeepsSpaceInv
<1>7. call' \in Call /\ (next # 0 => call'.temp = next)
  BY <1>2, <1>5 DEF Call
<1>8. TypeOK'
  BY <1>1, <1>2, <1>6, <1>7 DEF TypeOK, Steps, Indexes
<1>9. /\ LiveDocuments' = LiveDocuments
      /\ LiveToasts' = LiveToasts \ {toast}
  <2>1. LiveDocuments' = LiveDocuments \ {toast}
    BY <1>1, <1>2, <1>5, <1>6, LiveAfterFree
  <2>2. toast \notin LiveDocuments
    BY <1>4 DEF LiveDocuments, LiveToasts
  <2> QED BY <1>1, <1>2, <1>5, <1>6, <2>1, <2>2, LiveAfterFree
<1>10. TreeFacts'
  BY <1>1, <1>2, <1>9, TreeFactsUnchanged
<1>11. HeldToast' = block[toast].nextToastIndex
  BY <1>2, <1>7 DEF HeldToast, next
<1>12. ToastFacts'
  BY <1>1, <1>2, <1>3, <1>4, <1>9, <1>11, DeadToastKeepsToasts
<1>13. RequestInv'
  BY <1>2, <1>7
     DEF RequestInv, CreateKeepsTrack, DeleteKeepsTrack, GrowKeepsTrack
<1> QED BY <1>6, <1>8, <1>10, <1>12, <1>13, IInvUnfoldedNext

LEMMA GrowTextKeepsIInv ==
    ASSUME IInv, NEW d \in Reachable, NEW extra \in GrowSizes,
           block[d].firstToastIndex # 0, GrowText(d, extra)
    PROVE  IInv'
<1> DEFINE first == block[d].firstToastIndex
           size == GrowSize(d, extra)
           header == ToastBlock(CapacityFor(size, size))
           t == Taken(size).indexOrder
<1>1. /\ pc = "idle"
      /\ pc' = "linkToast"
      /\ call' = [NoCall EXCEPT !.target = first, !.toastIndex = t]
      /\ HasRelevantIndex(freeList, size)
      /\ Attach(size, header)
      /\ UNCHANGED <<indexCount, nodes, savedList, stack>>
  BY DEF GrowText, Goto
<1>2. TypeOK /\ SpaceInv /\ TreeFacts /\ ToastFacts /\ RequestInv
  BY IInvUnfolded
<1>3. first \in LiveToasts /\ first \in Indexes
  <2>1. d \in LiveDocuments
    BY <1>1, <1>2, ReachableIsLive
  <2> QED BY <1>2, <2>1 DEF ToastFacts, First, LiveToasts
<1>4. first \in Nat /\ size \in Nat \ {0}
  <2>1. block[first].capacity \in Nat
    BY <1>2, <1>3 DEF TypeOK, Block
  <2> QED BY <1>2, <1>3, <2>1, ConstantsAssumption
          DEF TypeOK, Indexes, GrowSize
<1>5. /\ header \in Block
      /\ header.capacity = CapacityFor(size, size)
      /\ header.blockType = "TOAST"
      /\ header.nextToastIndex = 0
  <2>1. Taken(size) \in Node
    BY <1>1, <1>2, <1>4, RelevantIndexProperties
       DEF Taken, TypeOK, SpaceInv, FreeListWellFormed
  <2>2. CapacityFor(size, size) \in Nat
    BY <1>4, <2>1 DEF CapacityFor, Node
  <2> QED BY <2>2 DEF ToastBlock, NoBlock, Block, BlockTypes
<1> HIDE DEF first, size, header
<1>6. /\ t \in Indexes
      /\ flag[t] # "ALIVE"
      /\ flag' = [flag EXCEPT ![t] = "ALIVE"]
      /\ block' = [block EXCEPT ![t] = header]
      /\ flag' \in [Indexes -> Flags]
      /\ block' \in [Indexes -> Block]
      /\ freeList' \in FreeIndexesList
      /\ SpaceInv'
  BY <1>1, <1>2, <1>4, <1>5, AttachKeepsSpaceInv
<1> HIDE DEF t
<1>7. /\ LiveDocuments' = LiveDocuments
      /\ LiveToasts' = LiveToasts \cup {t}
      /\ t \notin LiveDocuments
      /\ t \notin LiveToasts
      /\ LiveDocuments \subseteq Indexes
      /\ LiveToasts \subseteq Indexes
      /\ block'[t] = header
      /\ \A i \in Indexes : i # t => block'[i] = block[i]
  BY <1>1, <1>2, <1>5, <1>6, LiveAfterAttach
<1>8. /\ call' \in Call
      /\ call'.target = first
      /\ call'.toastIndex = t
  <2>1. t \in Nat
    BY <1>2, <1>6 DEF TypeOK, Indexes
  <2>2. NoCall \in Call
    BY DEF NoCall, Call, NoBlock, Block, BlockTypes
  <2> QED BY <1>1, <1>4, <2>1, <2>2 DEF Call
<1>9. TypeOK'
  BY <1>1, <1>2, <1>6, <1>8 DEF TypeOK, Steps, Indexes
<1>10. TreeFacts'
  BY <1>1, <1>2, <1>7, TreeFactsUnchanged
<1>11. HeldToast = 0 /\ HeldToast' = t
  BY <1>1, <1>8 DEF HeldToast
<1>12. ToastFacts'
  BY <1>2, <1>5, <1>7, <1>11, NewToastKeepsToasts
<1>13. RequestInv'
  BY <1>1, <1>3, <1>7, <1>8
     DEF RequestInv, CreateKeepsTrack, DeleteKeepsTrack, GrowKeepsTrack
<1> QED BY <1>6, <1>9, <1>10, <1>12, <1>13, IInvUnfoldedNext

LEMMA GrowTextAbortsKeepsIInv ==
    ASSUME IInv, NEW d \in Reachable, NEW extra \in GrowSizes,
           block[d].firstToastIndex # 0, GrowTextAborts(d, extra)
    PROVE  IInv'
<1>1. /\ pc = "idle"
      /\ pc' = "aborted"
      /\ call' = [NoCall EXCEPT !.target = d]
      /\ UNCHANGED <<indexCount, flag, block, nodes, savedList, freeList,
                     stack>>
  BY DEF GrowTextAborts, Goto, file
<1>2. TypeOK /\ SpaceInv /\ TreeFacts /\ ToastFacts /\ RequestInv
  BY IInvUnfolded
<1>3. d \in LiveDocuments /\ d \in Nat
  <2>1. d \in LiveDocuments
    BY <1>1, <1>2, ReachableIsLive
  <2> QED BY <1>2, <2>1 DEF TypeOK, LiveDocuments, Indexes
<1>4. GrowSize(d, extra) \in Nat \ {0}
  <2>1. block[d].firstToastIndex \in LiveToasts
    BY <1>2, <1>3 DEF ToastFacts, First
  <2>2. block[block[d].firstToastIndex].capacity \in Nat
    BY <1>2, <2>1 DEF TypeOK, LiveToasts, Block
  <2> QED BY <2>2, ConstantsAssumption DEF GrowSize
<1>5. freeList.newIndexesCount = 0
  <2>1. ~ HasRelevantIndex(freeList, GrowSize(d, extra))
    BY DEF GrowTextAborts
  <2>2. freeList \in FreeIndexesList /\ WellFormedList(freeList)
    BY <1>2 DEF TypeOK, SpaceInv, FreeListWellFormed
  <2> QED BY <1>4, <2>1, <2>2, NewIndexIsRelevant DEF FreeIndexesList
<1>6. TypeOK'
  <2>1. call' \in Call
    BY <1>1, <1>3 DEF NoCall, Call, NoBlock, Block, BlockTypes
  <2> QED BY <1>1, <1>2, <2>1 DEF TypeOK, Steps, Indexes
<1>7. SpaceInv'
  BY <1>1, <1>2, LinkKeepsSpaceInv
<1>8. LiveDocuments' = LiveDocuments /\ LiveToasts' = LiveToasts
  BY <1>1, LiveAfterLink
<1>9. TreeFacts'
  BY <1>1, <1>2, <1>8, TreeFactsUnchanged
<1>10. HeldToast = 0 /\ HeldToast' = 0
  BY <1>1 DEF HeldToast
<1>11. ToastFacts'
  BY <1>1, <1>2, <1>8, <1>10, ToastFactsUnchanged
<1>12. RequestInv'
  BY <1>1, <1>5
     DEF RequestInv, CreateKeepsTrack, DeleteKeepsTrack, GrowKeepsTrack
<1> QED BY <1>6, <1>7, <1>9, <1>11, <1>12, IInvUnfoldedNext

LEMMA LinkToastKeepsIInv ==
    ASSUME IInv, LinkToast
    PROVE  IInv'
<1> DEFINE first == call.target
           toast == call.toastIndex
<1>1. /\ pc = "linkToast"
      /\ pc' = "idle"
      /\ call' = NoCall
      /\ block' = [block EXCEPT ![first].nextToastIndex = toast]
      /\ UNCHANGED <<indexCount, flag, nodes, savedList, freeList, stack>>
  BY DEF LinkToast, Goto
<1>2. TypeOK /\ SpaceInv /\ TreeFacts /\ ToastFacts /\ RequestInv
  BY IInvUnfolded
<1>3. /\ first \in LiveToasts
      /\ first \in Indexes
      /\ toast \in Nat
      /\ block \in [Indexes -> Block]
  BY <1>1, <1>2
     DEF TypeOK, Call, RequestInv, GrowKeepsTrack, LiveToasts
<1> HIDE DEF first, toast
<1>4. /\ block' \in [Indexes -> Block]
      /\ block'[first].nextToastIndex = toast
      /\ \A i \in Indexes : i # first => block'[i] = block[i]
      /\ \A i \in Indexes :
            /\ block'[i].capacity = block[i].capacity
            /\ block'[i].blockType = block[i].blockType
            /\ block'[i].firstToastIndex = block[i].firstToastIndex
            /\ block'[i].indexSon = block[i].indexSon
            /\ block'[i].indexBrother = block[i].indexBrother
  <2>1. block[first] \in Block /\ [block[first] EXCEPT !.nextToastIndex = toast]
                                     \in Block
    BY <1>3 DEF Block
  <2> QED BY <1>1, <1>3, <2>1 DEF Block
<1>5. TypeOK'
  <2>1. NoCall \in Call
    BY DEF NoCall, Call, NoBlock, Block, BlockTypes
  <2> QED BY <1>1, <1>2, <1>4, <2>1 DEF TypeOK, Steps, Indexes
<1>6. SpaceInv'
  BY <1>1, <1>2, <1>4, LinkKeepsSpaceInv
<1>7. /\ LiveDocuments' = LiveDocuments
      /\ LiveToasts' = LiveToasts
      /\ LiveDocuments \subseteq Indexes
      /\ LiveToasts \subseteq Indexes
  BY <1>1, <1>4, LiveAfterLink DEF LiveDocuments, LiveToasts
<1>8. TreeFacts'
  BY <1>1, <1>2, <1>4, <1>7, TreeFactsUnchanged
<1>9. HeldToast = toast /\ HeldToast' = 0
  BY <1>1 DEF HeldToast, toast
<1>10. ToastFacts'
  BY <1>2, <1>3, <1>4, <1>7, <1>9, LinkToastKeepsToasts
<1>11. RequestInv'
  BY <1>1 DEF RequestInv, CreateKeepsTrack, DeleteKeepsTrack, GrowKeepsTrack
<1> QED BY <1>5, <1>6, <1>8, <1>10, <1>11, IInvUnfoldedNext

LEMMA FinishKeepsIInv ==
    ASSUME IInv, Finish
    PROVE  IInv'
<1>1. /\ pc = "idle"
      /\ pc' = "closed"
      /\ call' = NoCall
      /\ UNCHANGED <<indexCount, flag, block, nodes, stack>>
  BY DEF Finish, Goto
<1>2. TypeOK /\ SpaceInv /\ TreeFacts /\ ToastFacts /\ RequestInv
  BY IInvUnfolded
<1>3. /\ SpaceInv'
      /\ savedList' \in Seq(Node)
      /\ freeList' \in FreeIndexesList
  BY <1>2, FinishKeepsSpaceInv
<1>4. TypeOK'
  <2>1. NoCall \in Call
    BY DEF NoCall, Call, NoBlock, Block, BlockTypes
  <2> QED BY <1>1, <1>2, <1>3, <2>1 DEF TypeOK, Steps, Indexes
<1>5. LiveDocuments' = LiveDocuments /\ LiveToasts' = LiveToasts
  BY <1>1, LiveAfterLink
<1>6. TreeFacts'
  BY <1>1, <1>2, <1>5, TreeFactsUnchanged
<1>7. HeldToast = 0 /\ HeldToast' = 0
  BY <1>1 DEF HeldToast
<1>8. ToastFacts'
  BY <1>1, <1>2, <1>5, <1>7, ToastFactsUnchanged
<1>9. RequestInv'
  BY <1>1 DEF RequestInv, CreateKeepsTrack, DeleteKeepsTrack, GrowKeepsTrack
<1> QED BY <1>3, <1>4, <1>6, <1>8, <1>9, IInvUnfoldedNext

\* What Open and LoadNode have in common.
LEMMA ReadingKeepsIInv ==
    ASSUME IInv, pc \in {"closed", "load"}, NEW position \in Nat,
           Load(position), UNCHANGED <<indexCount, flag, block, nodes, stack>>,
           SpaceInv', savedList' \in Seq(Node), freeList' \in FreeIndexesList
    PROVE  IInv'
<1>1. /\ pc' \in {"load", "idle"}
      /\ call' \in Call
  BY DEF Load, Goto, NoCall, Call, NoBlock, Block, BlockTypes
<1>2. TypeOK /\ SpaceInv /\ TreeFacts /\ ToastFacts /\ RequestInv
  BY IInvUnfolded
<1>3. TypeOK'
  BY <1>1, <1>2 DEF TypeOK, Steps, Indexes
<1>4. LiveDocuments' = LiveDocuments /\ LiveToasts' = LiveToasts
  BY LiveAfterLink
<1>5. TreeFacts'
  BY <1>1, <1>2, <1>4, TreeFactsUnchanged
<1>6. HeldToast = 0 /\ HeldToast' = 0
  BY <1>1 DEF HeldToast
<1>7. ToastFacts'
  BY <1>2, <1>4, <1>6, ToastFactsUnchanged
<1>8. RequestInv'
  BY <1>1 DEF RequestInv, CreateKeepsTrack, DeleteKeepsTrack, GrowKeepsTrack
<1> QED BY <1>3, <1>5, <1>7, <1>8, IInvUnfoldedNext

LEMMA OpenKeepsIInv ==
    ASSUME IInv, Open
    PROVE  IInv'
<1>1. TypeOK /\ SpaceInv
  BY IInvUnfolded
<1>2. /\ pc = "closed"
      /\ Load(1)
      /\ UNCHANGED <<indexCount, flag, block, nodes, freeList, stack>>
  BY DEF Open
<1>3. SpaceInv' /\ savedList' \in Seq(Node) /\ freeList' \in FreeIndexesList
  BY <1>1, <1>2, OpenKeepsSpaceInv DEF TypeOK
<1> QED BY <1>2, <1>3, ReadingKeepsIInv

LEMMA LoadNodeKeepsIInv ==
    ASSUME IInv, LoadNode
    PROVE  IInv'
<1>1. TypeOK /\ SpaceInv
  BY IInvUnfolded
<1>2. /\ pc = "load"
      /\ Load(call.temp + 1)
      /\ UNCHANGED <<indexCount, flag, block, nodes, stack>>
  BY DEF LoadNode
<1>3. SpaceInv' /\ savedList' \in Seq(Node) /\ freeList' \in FreeIndexesList
  BY <1>1, LoadNodeKeepsSpaceInv
<1>4. call.temp + 1 \in Nat
  BY <1>1 DEF TypeOK, Call
<1> QED BY <1>2, <1>3, <1>4, ReadingKeepsIInv

LEMMA InitIsIInv == Init => IInv
<1> SUFFICES ASSUME Init
             PROVE  TypeOK /\ SpaceInv /\ TreeFacts /\ ToastFacts /\ RequestInv
  BY IInvUnfolded
<1> DEFINE count == INDEX_INITIAL_CAPACITY
           new(order) == [indexOrder |-> order, blockSize |-> 0]
<1>1. /\ count \in Nat \ {0}
      /\ indexCount = count
      /\ flag = [i \in 0 .. count - 1 |-> IF i = 0 THEN "ALIVE" ELSE "NEW"]
      /\ block = [i \in 0 .. count - 1 |->
                     IF i = 0 THEN DocumentBlock(1, 0, 0) ELSE NoBlock]
      /\ nodes = 1
      /\ savedList = <<>>
      /\ freeList = InsertNewIndexes(EmptyList, 1, count - 1)
      /\ pc = "idle"
      /\ call = NoCall
      /\ stack = <<>>
  BY ConstantsAssumption DEF Init
<1> HIDE DEF count
<1>2. /\ NoBlock \in Block
      /\ DocumentBlock(1, 0, 0) \in Block
      /\ DocumentBlock(1, 0, 0).blockType = "DOCUMENT"
      /\ DocumentBlock(1, 0, 0).capacity = 1
      /\ DocumentBlock(1, 0, 0).indexSon = 0
      /\ DocumentBlock(1, 0, 0).indexBrother = 0
      /\ DocumentBlock(1, 0, 0).firstToastIndex = 0
  BY DEF DocumentBlock, NoBlock, Block, BlockTypes
<1>3. /\ Indexes = 0 .. count - 1
      /\ 0 \in Indexes
      /\ \A i \in Indexes : i # 0 => i \in 1 .. count - 1
      /\ \A i \in 1 .. count - 1 : i \in Indexes /\ i # 0
  BY <1>1 DEF Indexes
<1>4. /\ freeList \in FreeIndexesList
      /\ WellFormedList(freeList)
      /\ \A node : Offers(freeList, node) <=>
            \E order \in 1 .. count - 1 : node = new(order)
  <2>1. /\ EmptyList \in FreeIndexesList
        /\ WellFormedList(EmptyList)
        /\ Len(EmptyList.nodes) = 0
    BY DEF EmptyList, FreeIndexesList, WellFormedList, Sorted, NoDuplicates,
           Counted
  <2>2. /\ 1 \in Nat
        /\ count - 1 \in Nat
        /\ \A k \in 1 .. Len(EmptyList.nodes) :
              EmptyList.nodes[k].indexOrder < 1
        /\ \A node : ~ Offers(EmptyList, node)
        /\ 1 + (count - 1) - 1 = count - 1
    BY <1>1, <2>1 DEF Offers
  <2> DEFINE filled == InsertNewIndexes(EmptyList, 1, count - 1)
  <2>3. /\ filled \in FreeIndexesList
        /\ WellFormedList(filled)
        /\ \A node : Offers(filled, node) <=>
              \/ Offers(EmptyList, node)
              \/ \E order \in 1 .. 1 + (count - 1) - 1 :
                    node = [indexOrder |-> order, blockSize |-> 0]
    BY <2>1, <2>2, InsertNewIndexesProperties
  <2> QED BY <1>1, <2>2, <2>3
<1>5. TypeOK
  <2>1. NoCall \in Call
    BY DEF NoCall, Call, NoBlock, Block, BlockTypes
  <2> QED BY <1>1, <1>2, <1>3, <1>4, <2>1 DEF TypeOK, Flags, Steps
<1>6. Unread = {} /\ UnreadNodes = {}
  BY <1>1, <1>5, NothingUnread
<1>7. \A node : node \in ListedNodes <=>
         \E order \in 1 .. count - 1 : node = new(order)
  BY <1>4, ListedIsOffered
<1>8. \A i \in Indexes : i # 0 => flag[i] = "NEW" /\ FreeNodeOf(i) = new(i)
  BY <1>1, <1>3 DEF FreeNodeOf
<1>9. SpaceInv
  <2>1. FreeIndexesAreUnused
    BY <1>3, <1>6, <1>7, <1>8 DEF FreeIndexesAreUnused
  <2>2. NoIndexLost
    BY <1>1, <1>3, <1>6, <1>7, <1>8 DEF NoIndexLost
  <2>3. SavedListIsDisjoint
    BY <1>1, <1>6 DEF SavedListIsDisjoint
  <2>4. BlocksHaveRoom
    BY <1>1, <1>2, <1>3, <1>8 DEF BlocksHaveRoom
  <2> QED BY <1>4, <2>1, <2>2, <2>3, <2>4 DEF SpaceInv, FreeListWellFormed
<1>10. LiveDocuments = {0} /\ LiveToasts = {}
  BY <1>1, <1>2, <1>3, <1>8 DEF LiveDocuments, LiveToasts
<1>11. Son(0) = 0 /\ Brother(0) = 0 /\ First(0) = 0 /\ HeldToast = 0
  BY <1>1, <1>2, <1>3 DEF Son, Brother, First, HeldToast
<1>12. TreeFacts
  <2>1. /\ SonHolders = {0}
        /\ BrotherHolders = {0}
        /\ Positions = {}
        /\ ~ Visiting
        /\ Linkable = {}
    BY <1>1, <1>10
       DEF SonHolders, BrotherHolders, Positions, Visiting, Linkable,
           StaleSons, StaleBrothers, Unlinked
  <2> QED BY <1>10, <1>11, <2>1
          DEF TreeFacts, RootIsAlive, LinksNameLinkable, LinksDiffer
<1>13. ToastFacts
  BY <1>10, <1>11 DEF ToastFacts
<1>14. RequestInv
  BY <1>1 DEF RequestInv, CreateKeepsTrack, DeleteKeepsTrack, GrowKeepsTrack
<1> QED BY <1>5, <1>9, <1>12, <1>13, <1>14

LEMMA StutteringKeepsIInv == IInv /\ UNCHANGED vars => IInv'
<1> SUFFICES ASSUME IInv, UNCHANGED vars PROVE IInv'
  OBVIOUS
<1>1. /\ indexCount' = indexCount
      /\ flag' = flag
      /\ block' = block
      /\ nodes' = nodes
      /\ savedList' = savedList
      /\ freeList' = freeList
      /\ pc' = pc
      /\ call' = call
      /\ stack' = stack
  BY DEF vars
<1>2. TypeOK /\ SpaceInv /\ TreeFacts /\ ToastFacts /\ RequestInv
  BY IInvUnfolded
<1>3. TypeOK'
  BY <1>1, <1>2 DEF TypeOK, Indexes
<1>4. SpaceInv'
  BY <1>1, <1>2
     DEF SpaceInv, FreeListWellFormed, FreeIndexesAreUnused, NoIndexLost,
         SavedListIsDisjoint, BlocksHaveRoom, ListedNodes, UnreadNodes,
         Unread, UnreadFrom, Indexes, FreeNodeOf
<1>5. LiveDocuments' = LiveDocuments /\ LiveToasts' = LiveToasts
  BY <1>1 DEF LiveDocuments, LiveToasts, Indexes
<1>6. TreeFacts'
  BY <1>1, <1>2, <1>5
     DEF TreeFacts, RootIsAlive, LinksNameLinkable, LinksDiffer, IsLinked,
         SonHolders, BrotherHolders, Positions, Visiting, Linkable, Son,
         Brother, StaleSons, StaleBrothers, Unlinked
<1>7. ToastFacts'
  BY <1>1, <1>2, <1>5 DEF ToastFacts, First, NextToast, HeldToast
<1>8. RequestInv'
  BY <1>1, <1>2, <1>5
     DEF RequestInv, CreateKeepsTrack, DeleteKeepsTrack, GrowKeepsTrack,
         BrothersFrom, Indexes
<1> QED BY <1>3, <1>4, <1>6, <1>7, <1>8, IInvUnfoldedNext

LEMMA NextKeepsIInv == IInv /\ [Next]_vars => IInv'
<1> SUFFICES ASSUME IInv, [Next]_vars PROVE IInv'
  OBVIOUS
<1>1. ASSUME NEW p \in Reachable, NEW docSize \in DocumentSizes,
             NEW toastSize \in ToastSizes \cup {0},
             StartCreate(p, docSize, toastSize)
      PROVE  IInv'
  BY <1>1, StartCreateKeepsIInv
<1>2. ASSUME NEW p \in Reachable, NEW d \in Children(p), StartDelete(p, d)
      PROVE  IInv'
  BY <1>2, StartDeleteKeepsIInv
<1>3. ASSUME NEW d \in Reachable, NEW extra \in GrowSizes,
             block[d].firstToastIndex # 0,
             GrowText(d, extra) \/ GrowTextAborts(d, extra)
      PROVE  IInv'
  BY <1>3, GrowTextKeepsIInv, GrowTextAbortsKeepsIInv
<1>4. CASE Finish
  BY <1>4, FinishKeepsIInv
<1>5. CASE Open
  BY <1>5, OpenKeepsIInv
<1>6. ASSUME NEW n \in ExpandCounts, ExpandIndexes(n) PROVE IInv'
  BY <1>6, ExpandIndexesKeepsIInv
<1>7. CASE CreateToast
  BY <1>7, CreateToastKeepsIInv
<1>8. CASE CreateDocument
  BY <1>8, CreateDocumentKeepsIInv
<1>9. CASE LinkSon
  BY <1>9, LinkSonKeepsIInv
<1>10. CASE WalkSiblings
  BY <1>10, WalkSiblingsKeepsIInv
<1>11. CASE Unlink
  BY <1>11, UnlinkKeepsIInv
<1>12. CASE DeleteTarget
  BY <1>12, DeleteTargetKeepsIInv
<1>13. CASE DeleteDescendant
  BY <1>13, DeleteDescendantKeepsIInv
<1>14. CASE DeleteToast
  BY <1>14, DeleteToastKeepsIInv
<1>15. CASE LinkToast
  BY <1>15, LinkToastKeepsIInv
<1>16. CASE LoadNode
  BY <1>16, LoadNodeKeepsIInv
<1>17. CASE UNCHANGED vars
  BY <1>17, StutteringKeepsIInv
<1> QED BY <1>1, <1>2, <1>3, <1>4, <1>5, <1>6, <1>7, <1>8, <1>9, <1>10,
           <1>11, <1>12, <1>13, <1>14, <1>15, <1>16, <1>17
        DEF Next, Request, Command, Execute

-----------------------------------------------------------------------------
(* What follows for every behaviour.                                       *)

\* The inductive invariant always holds: the table, the free list and the
\* links stay consistent through every interleaving of the steps of ADD,
\* DELETE, UPDATE, finish() and init().
THEOREM InductiveInvariant == Spec => []IInv
BY InitIsIInv, NextKeepsIInv, PTL DEF Spec

\* Every variable keeps its type, and the table covers the indexes the header
\* counts.
THEOREM TypeCorrect == Spec => []TypeOK
<1>1. IInv => TypeOK
  BY DEF IInv
<1> QED BY <1>1, InductiveInvariant, PTL

\* The free list in memory stays sorted, without duplicates and counted.
THEOREM FreeListStaysWellFormed == Spec => []FreeListWellFormed
<1>1. IInv => FreeListWellFormed
  BY DEF IInv, SpaceInv
<1> QED BY <1>1, InductiveInvariant, PTL

\* findRelevantIndex can never hand out an index that is in use.
THEOREM NoBlockInUseIsOffered == Spec => []FreeIndexesAreUnused
<1>1. IInv => FreeIndexesAreUnused
  BY DEF IInv, SpaceInv
<1> QED BY <1>1, InductiveInvariant, PTL

\* Deletions, expansions, finish() and init() lose no index.
THEOREM EveryFreeIndexIsOffered == Spec => []NoIndexLost
<1>1. IInv => NoIndexLost
  BY DEF IInv, SpaceInv
<1> QED BY <1>1, InductiveInvariant, PTL

\* No link a request follows leads to a dead block, a toast or the root.
THEOREM LinksStayLive == Spec => []LinksNameLiveDocuments
<1>1. IInv => LinksNameLiveDocuments
  BY DEF IInv, TreeInv
<1> QED BY <1>1, InductiveInvariant, PTL

\* No document is ever named by two links.
THEOREM LinksStayUnique == Spec => []LinksAreUnique
<1>1. IInv => LinksAreUnique
  BY DEF IInv, TreeInv
<1> QED BY <1>1, InductiveInvariant, PTL

\* No living document but the root is ever without a link that names it.
THEOREM DocumentsStayLinked == Spec => []NoDocumentLost
<1>1. IInv => NoDocumentLost
  BY DEF IInv, TreeInv
<1> QED BY <1>1, InductiveInvariant, PTL

\* The chains of toasts consist of living toasts.
THEOREM ToastLinksStayLive == Spec => []ToastLinksNameLiveToasts
<1>1. IInv => ToastLinksNameLiveToasts
  BY DEF IInv, ToastInv
<1> QED BY <1>1, InductiveInvariant, PTL

\* No toast is in two chains: no document loses a text to another's DELETE.
THEOREM ToastLinksStayUnique == Spec => []ToastLinksAreUnique
<1>1. IInv => ToastLinksAreUnique
  BY DEF IInv, ToastInv
<1> QED BY <1>1, InductiveInvariant, PTL

\* createDocument never dereferences NULL, whatever the threshold and the
\* yield of an expansion.
THEOREM CreateNeverFails == Spec => []CreateFindsIndex
<1>1. IInv => CreateFindsIndex
  <2> SUFFICES ASSUME IInv PROVE CreateFindsIndex
    OBVIOUS
  <2>1. freeList \in FreeIndexesList /\ WellFormedList(freeList)
    BY DEF IInv, TypeOK, SpaceInv, FreeListWellFormed
  <2>2. pc \in {"toast", "document"} => freeList.newIndexesCount > 0
    BY <2>1 DEF IInv, RequestInv, CreateKeepsTrack, FreeIndexesList
  <2> QED BY <2>1, <2>2, NewIndexIsRelevant DEF CreateFindsIndex
<1> QED BY <1>1, InductiveInvariant, PTL

\* When an UPDATE does dereference NULL, the table has no new index left.
THEOREM OnlyAnExhaustedUpdateAborts == Spec => []AbortsOnlyWhenExhausted
<1>1. IInv => AbortsOnlyWhenExhausted
  <2> SUFFICES ASSUME IInv, pc = "aborted"
               PROVE  /\ freeList.newIndexesCount = 0
                      /\ \A i \in Indexes : flag[i] # "NEW"
    BY DEF AbortsOnlyWhenExhausted
  <2>1. freeList.newIndexesCount = 0
    BY DEF IInv, RequestInv, GrowKeepsTrack
  <2>2. ASSUME NEW i \in Indexes, flag[i] = "NEW" PROVE FALSE
    <3>1. UnreadNodes = {}
      BY NothingUnread DEF IInv
    <3>2. FreeNodeOf(i) \in ListedNodes /\ FreeNodeOf(i).blockSize = 0
      BY <2>2, <3>1 DEF IInv, SpaceInv, NoIndexLost, FreeNodeOf
    <3>3. PICK k \in 1 .. Len(freeList.nodes) :
             freeList.nodes[k] = FreeNodeOf(i)
      BY <3>2 DEF ListedNodes
    <3>4. k <= freeList.newIndexesCount
      BY <3>2, <3>3
         DEF IInv, SpaceInv, FreeListWellFormed, WellFormedList, Counted
    <3> QED BY <2>1, <3>3, <3>4
  <2> QED BY <2>1, <2>2
<1> QED BY <1>1, InductiveInvariant, PTL

-----------------------------------------------------------------------------
(* What a step never does to a block.                                      *)

\* attachIndexToBlock writes an unused block, and keeps its capacity if the
\* index owned one; either way there is room for what was asked.
LEMMA AttachKeepsBlocks ==
    ASSUME IInv, pc \notin {"closed", "load"}, NEW reqSize \in Nat \ {0},
           HasRelevantIndex(freeList, reqSize), NEW newCapacity, NEW header,
           header.capacity = CapacityFor(reqSize, newCapacity),
           Attach(reqSize, header)
    PROVE  /\ CapacitiesKept
           /\ OwnersKept
           /\ newCapacity \in Nat /\ newCapacity >= reqSize =>
                 \A i \in Indexes :
                     flag[i] # "ALIVE" /\ flag'[i] = "ALIVE" =>
                         block'[i].capacity >= reqSize
<1> DEFINE taken == Taken(reqSize)
           t == taken.indexOrder
<1>1. TypeOK /\ SpaceInv
  BY DEF IInv
<1>2. /\ Offers(freeList, taken)
      /\ taken.blockSize \in Nat
      /\ taken.blockSize = 0 \/ taken.blockSize >= reqSize
  BY <1>1, RelevantIndexProperties
     DEF TypeOK, SpaceInv, FreeListWellFormed, Taken, Node
<1>3. /\ flag[t] # "ALIVE"
      /\ taken = FreeNodeOf(t)
  BY <1>1, <1>2, ListedIsOffered DEF SpaceInv, FreeIndexesAreUnused
<1>4. /\ block \in [Indexes -> Block] /\ block' = [block EXCEPT ![t] = header]
      /\ flag' = [flag EXCEPT ![t] = "ALIVE"]
  BY <1>1 DEF TypeOK, Attach
<1>5. header.capacity = IF taken.blockSize = 0 THEN newCapacity
                        ELSE taken.blockSize
  BY DEF CapacityFor
<1> HIDE DEF taken
<1>6. ASSUME t \in Indexes, flag[t] # "NEW"
      PROVE  header.capacity = block[t].capacity
  BY <1>1, <1>3, <1>5, <1>6 DEF FreeNodeOf, SpaceInv, BlocksHaveRoom
<1>7. CapacitiesKept
  BY <1>4, <1>6 DEF CapacitiesKept
<1>8. OwnersKept
  BY <1>3, <1>4 DEF OwnersKept
<1>9. ASSUME newCapacity \in Nat, newCapacity >= reqSize,
             NEW i \in Indexes, flag[i] # "ALIVE", flag'[i] = "ALIVE"
      PROVE  block'[i].capacity >= reqSize
  <2>1. i = t
    BY <1>4, <1>9
  <2>2. block'[i] = header
    BY <1>4, <1>9, <2>1
  <2>3. header.capacity >= reqSize
    BY ONLY <1>2, <1>5, <1>9, reqSize \in Nat \ {0}
  <2> QED BY ONLY <2>2, <2>3
<1> QED BY <1>7, <1>8, <1>9

LEMMA NextKeepsBlocks == IInv /\ [Next]_vars => CapacitiesKept /\ OwnersKept
<1> SUFFICES ASSUME IInv, [Next]_vars PROVE CapacitiesKept /\ OwnersKept
  OBVIOUS
<1>1. /\ block \in [Indexes -> Block]
      /\ call \in Call
      /\ TypeOK
      /\ SpaceInv
      /\ RequestInv
  BY DEF IInv, TypeOK
<1>2. CASE UNCHANGED block
  BY <1>2 DEF CapacitiesKept, OwnersKept
<1>3. ASSUME NEW n \in ExpandCounts, ExpandIndexes(n)
      PROVE  CapacitiesKept /\ OwnersKept
  BY <1>1, <1>3, ExpandKeepsSpaceInv DEF CapacitiesKept, OwnersKept
<1>4. CASE CreateToast
  <2>1. call.toastSize \in Nat \ {0}
    BY <1>1, <1>4 DEF CreateToast, Call, RequestInv, CreateKeepsTrack
  <2> DEFINE capacity == call.toastSize + TOAST_HEADER
             header == ToastBlock(CapacityFor(call.toastSize, capacity))
  <2>2. header.capacity = CapacityFor(call.toastSize, capacity)
    BY DEF ToastBlock, NoBlock
  <2>3. /\ HasRelevantIndex(freeList, call.toastSize)
        /\ Attach(call.toastSize, header)
        /\ pc \notin {"closed", "load"}
    BY <1>4 DEF CreateToast
  <2> HIDE DEF header, capacity
  <2> QED BY <2>1, <2>2, <2>3, AttachKeepsBlocks
<1>5. CASE CreateDocument
  <2>1. call.docSize \in Nat \ {0}
    BY <1>1, <1>5 DEF CreateDocument, Call, RequestInv, CreateKeepsTrack
  <2> DEFINE header == DocumentBlock(CapacityFor(call.docSize, call.docSize),
                                     call.header.indexSon, call.toastIndex)
  <2>2. header.capacity = CapacityFor(call.docSize, call.docSize)
    BY DEF DocumentBlock, NoBlock
  <2>3. /\ HasRelevantIndex(freeList, call.docSize)
        /\ Attach(call.docSize, header)
        /\ pc \notin {"closed", "load"}
    BY <1>5 DEF CreateDocument
  <2> HIDE DEF header
  <2> QED BY <2>1, <2>2, <2>3, AttachKeepsBlocks
<1>6. ASSUME NEW d \in Reachable, NEW extra \in GrowSizes,
             block[d].firstToastIndex # 0, GrowText(d, extra)
      PROVE  CapacitiesKept /\ OwnersKept
  <2> DEFINE size == GrowSize(d, extra)
             header == ToastBlock(CapacityFor(size, size))
  <2>1. /\ pc = "idle"
        /\ HasRelevantIndex(freeList, size)
        /\ Attach(size, header)
    BY <1>6 DEF GrowText
  <2>2. size \in Nat \ {0}
    <3>1. TreeFacts /\ ToastFacts
      BY IInvUnfolded
    <3>2. block[d].firstToastIndex \in LiveToasts
      BY <1>6, <2>1, <3>1, ReachableIsLive DEF ToastFacts, First
    <3>3. block[block[d].firstToastIndex].capacity \in Nat
      BY <1>1, <3>2 DEF LiveToasts, Block
    <3> QED BY <3>3, ConstantsAssumption DEF GrowSize
  <2>3. header.capacity = CapacityFor(size, size)
    BY DEF ToastBlock, NoBlock
  <2> HIDE DEF header, size
  <2> QED BY <2>1, <2>2, <2>3, AttachKeepsBlocks
<1>7. CASE LinkSon
  <2>1. /\ call.header = block[call.parent]
        /\ block' = [block EXCEPT ![call.parent] =
                        [call.header EXCEPT !.indexSon = call.target]]
    BY <1>1, <1>7 DEF LinkSon, RequestInv, CreateKeepsTrack
  <2> QED BY <1>1, <2>1 DEF CapacitiesKept, OwnersKept, Block
<1>8. CASE Unlink
  BY <1>1, <1>8 DEF Unlink, CapacitiesKept, OwnersKept, Block
<1>9. CASE LinkToast
  BY <1>1, <1>9 DEF LinkToast, CapacitiesKept, OwnersKept, Block
<1>10. CASE UNCHANGED vars
  BY <1>2, <1>10 DEF vars
<1> QED BY <1>2, <1>3, <1>4, <1>5, <1>6, <1>7, <1>8, <1>9, <1>10
        DEF Next, Request, Command, Execute, StartCreate, StartDelete, GrowTextAborts,
            Finish, Open, WalkSiblings, DeleteTarget, DeleteDescendant,
            DeleteToast, LoadNode, file

\* The step that gives a document its block is that of createDocument.
LEMMA NextGivesRoom == IInv /\ [Next]_vars => RoomGiven
<1> SUFFICES ASSUME IInv, Next, pc = "document"
             PROVE  RoomGiven
  BY DEF vars, file, RoomGiven
<1>1. CreateDocument
  BY DEF Next, Request, Command, Execute, StartCreate, StartDelete,
         ExpandIndexes, CreateToast, LinkSon, GrowText, GrowTextAborts,
         LinkToast, Finish, Open, WalkSiblings, Unlink, DeleteTarget,
         DeleteDescendant, DeleteToast, LoadNode
<1>2. call.docSize \in Nat \ {0}
  BY DEF IInv, TypeOK, Call, RequestInv, CreateKeepsTrack
<1> DEFINE header == DocumentBlock(CapacityFor(call.docSize, call.docSize),
                                   call.header.indexSon, call.toastIndex)
<1>3. header.capacity = CapacityFor(call.docSize, call.docSize)
  BY DEF DocumentBlock, NoBlock
<1>4. /\ HasRelevantIndex(freeList, call.docSize)
      /\ Attach(call.docSize, header)
      /\ pc \notin {"closed", "load"}
  BY <1>1 DEF CreateDocument
<1> HIDE DEF header
<1> QED BY <1>2, <1>3, <1>4, AttachKeepsBlocks DEF RoomGiven

\* The capacity recorded for a block never changes, through every reuse of
\* its index, and a document is only given a block that has the room it
\* asked for.
THEOREM CapacitiesStay == Spec => BlocksKeepCapacity
BY InductiveInvariant, NextKeepsBlocks, NextGivesRoom, PTL
   DEF Spec, BlocksKeepCapacity

\* A block in use is never given to another document or text.
THEOREM OwnersStay == Spec => LiveBlocksKeepOwner
BY InductiveInvariant, NextKeepsBlocks, PTL DEF Spec, LiveBlocksKeepOwner
=============================================================================
