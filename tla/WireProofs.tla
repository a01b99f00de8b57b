----------------------------- MODULE WireProofs -----------------------------
(***************************************************************************)
(* The server implements Service, for any number of clients and any way    *)
(* the network cuts the messages.                                          *)
(***************************************************************************)
EXTENDS WireInv, SequenceTheorems, TLAPS

-----------------------------------------------------------------------------
(* Streams.                                                                *)

\* Reading the first piece of a stream leaves the pieces behind it.
LEMMA TailPieces ==
    ASSUME NEW s \in Seq(Piece), s # <<>>
    PROVE  /\ Tail(s) \in Seq(Piece)
           /\ Head(s) = s[1] /\ Head(s) \in Piece
           /\ Len(Tail(s)) = Len(s) - 1 /\ Len(s) >= 1
           /\ \A k \in 1 .. Len(Tail(s)) : k + 1 \in 2 .. Len(s) /\ Tail(s)[k] = s[k + 1]
    OBVIOUS

\* recv leaves a stream of pieces that were in it, and not in front.
LEMMA UnreadPieces ==
    ASSUME NEW s \in Seq(Piece), NEW n \in Nat, NEW k \in Received(s, n)
    PROVE  /\ Unread(s, k) \in Seq(Piece)
           /\ s # <<>> /\ Head(s) = s[1] /\ Head(s) \in Piece /\ 1 <= Len(s)
           /\ Len(Unread(s, k)) = Len(s) - k
           /\ \A j \in 1 .. Len(Unread(s, k)) :
                 /\ j + k \in 2 .. Len(s)
                 /\ Unread(s, k)[j] = s[j + k]
<1>1. k \in Nat /\ 1 <= k /\ k <= Len(s)
  BY DEF Received
<1>2. Len(s) \in Nat /\ \A j \in 1 .. Len(s) : s[j] \in Piece
  OBVIOUS
<1>3. Unread(s, k) \in Seq(Piece)
  BY <1>1, <1>2 DEF Unread
<1>4. Len(Unread(s, k)) = Len(s) - k
  BY <1>1, <1>2 DEF Unread
<1>5. \A j \in 1 .. Len(s) - k : Unread(s, k)[j] = s[j + k]
  BY <1>1, <1>2 DEF Unread
<1> QED
  BY <1>1, <1>2, <1>3, <1>4, <1>5

\* A size that is sent goes behind what has been sent before.
LEMMA SizeAppended ==
    ASSUME NEW s \in Seq(Piece), NEW n \in Nat
    PROVE  /\ Append(s, SizePiece(n)) \in Seq(Piece)
           /\ Len(Append(s, SizePiece(n))) = Len(s) + 1
           /\ \A k \in 1 .. Len(Append(s, SizePiece(n))) :
                 \/ k \in 1 .. Len(s) /\ Append(s, SizePiece(n))[k] = s[k]
                 \/ k = Len(s) + 1 /\ Append(s, SizePiece(n))[k] = SizePiece(n)
<1>1. SizePiece(n) \in Piece
  BY DEF SizePiece, Piece
<1>2. /\ Append(s, SizePiece(n)) \in Seq(Piece)
      /\ Len(Append(s, SizePiece(n))) = Len(s) + 1
      /\ \A k \in 1 .. Len(s) : Append(s, SizePiece(n))[k] = s[k]
      /\ Append(s, SizePiece(n))[Len(s) + 1] = SizePiece(n)
  BY <1>1, AppendProperties
<1>3. \A k \in 1 .. Len(s) + 1 : k \in 1 .. Len(s) \/ k = Len(s) + 1
  OBVIOUS
<1> QED
  BY <1>2, <1>3

\* A body that is sent adds parts of it and no size.
LEMMA BodyAppended ==
    ASSUME NEW s \in Seq(Piece), NEW n \in Nat, NEW v \in Nat
    PROVE  /\ s \o Body(n, v) \in Seq(Piece)
           /\ Len(s \o Body(n, v)) = Len(s) + n
           /\ \A k \in 1 .. Len(s \o Body(n, v)) :
                 \/ k \in 1 .. Len(s) /\ (s \o Body(n, v))[k] = s[k]
                 \/ k > Len(s) /\ (s \o Body(n, v))[k] = BodyPart(v)
<1>1. /\ Body(n, v) \in Seq(Piece)
      /\ Len(Body(n, v)) = n
      /\ \A k \in 1 .. n : Body(n, v)[k] = BodyPart(v)
  BY DEF Body, BodyPart, Piece
<1>2. s \o Body(n, v) \in Seq(Piece)
  BY <1>1
<1>3. Len(s \o Body(n, v)) = Len(s) + n
  BY <1>1
<1>4. ASSUME NEW k \in 1 .. Len(s) + n
      PROVE  (s \o Body(n, v))[k] = IF k <= Len(s) THEN s[k] ELSE Body(n, v)[k - Len(s)]
  BY <1>1
<1>5. Len(s) \in Nat
  OBVIOUS
<1>6. ASSUME NEW k \in 1 .. Len(s) + n
      PROVE  \/ k \in 1 .. Len(s) /\ (s \o Body(n, v))[k] = s[k]
             \/ k > Len(s) /\ (s \o Body(n, v))[k] = BodyPart(v)
  <2>1. CASE k <= Len(s)
    BY <2>1, <1>4, <1>5
  <2>2. CASE k > Len(s)
    <3>1. k - Len(s) \in 1 .. n
      BY <2>2, <1>5
    <3> QED
      BY <3>1, <2>2, <1>4, <1>1, <1>5
  <2>3. k <= Len(s) \/ k > Len(s)
    BY <1>5
  <2> QED
    BY <2>1, <2>2, <2>3
<1> QED
  BY <1>2, <1>3, <1>6

\* The rest of a cut size takes the place of the size: it is no size, and
\* answers nothing.
LEMMA RestPieces ==
    ASSUME NEW s \in Seq(Piece), s # <<>>, NEW n \in Nat
    PROVE  /\ RestOfSize(n, s) \in Seq(Piece)
           /\ \A k \in 1 .. Len(RestOfSize(n, s)) :
                 \/ RestOfSize(n, s)[k] = BodyPart(0)
                 \/ \E j \in 2 .. Len(s) : RestOfSize(n, s)[k] = s[j]
<1>1. /\ Body(n, 0) \in Seq(Piece)
      /\ Len(Body(n, 0)) = n
      /\ \A k \in 1 .. n : Body(n, 0)[k] = BodyPart(0)
  BY DEF Body, BodyPart, Piece
<1>2. /\ Tail(s) \in Seq(Piece) /\ Len(Tail(s)) \in Nat
      /\ \A k \in 1 .. Len(Tail(s)) : k + 1 \in 2 .. Len(s) /\ Tail(s)[k] = s[k + 1]
  BY TailPieces
<1>3. /\ RestOfSize(n, s) \in Seq(Piece)
      /\ Len(RestOfSize(n, s)) = n + Len(Tail(s))
  BY <1>1, <1>2 DEF RestOfSize
<1>4. ASSUME NEW k \in 1 .. n + Len(Tail(s))
      PROVE  RestOfSize(n, s)[k] = IF k <= n THEN Body(n, 0)[k] ELSE Tail(s)[k - n]
  BY <1>1, <1>2 DEF RestOfSize
<1>5. ASSUME NEW k \in 1 .. n + Len(Tail(s))
      PROVE  \/ RestOfSize(n, s)[k] = BodyPart(0)
             \/ \E j \in 2 .. Len(s) : RestOfSize(n, s)[k] = s[j]
  <2>1. CASE k <= n
    BY <1>1, <1>4, <2>1
  <2>2. CASE k > n
    <3>1. k - n \in 1 .. Len(Tail(s))
      BY <1>2, <2>2
    <3> QED
      BY <1>2, <1>4, <2>2, <3>1
  <2> QED
    BY <1>2, <2>1, <2>2
<1> QED
  BY <1>3, <1>5

\* The two kinds of pieces.
LEMMA Pieces ==
    /\ \A n \in Nat : SizePiece(n) \in Piece /\ SizePiece(n).answers = 0
    /\ \A n \in Nat : SizePiece(n).size = n
    /\ \A n \in Nat \ {0} : IsSize(SizePiece(n))
    /\ \A v \in Nat : ~ IsSize(BodyPart(v)) /\ BodyPart(v).answers = v
    BY DEF SizePiece, BodyPart, Piece, IsSize

\* A stream in which the rest of a size took the place of the size has none.
LEMMA RestSizeless ==
    ASSUME NEW s \in Seq(Piece), s # <<>>, NEW n \in Nat,
           \A k \in 2 .. Len(s) : ~ IsSize(s[k])
    PROVE  Sizeless(RestOfSize(n, s))
<1>1. ASSUME NEW k \in 1 .. Len(RestOfSize(n, s))
      PROVE  ~ IsSize(RestOfSize(n, s)[k])
  <2>1. ~ IsSize(BodyPart(0))
    BY Pieces
  <2> QED
    BY <1>1, <2>1, RestPieces
<1> QED
  BY <1>1 DEF Sizeless

\* So has what is left behind the first piece.
LEMMA TailSizeless ==
    ASSUME NEW s \in Seq(Piece), s # <<>>, \A k \in 2 .. Len(s) : ~ IsSize(s[k])
    PROVE  Sizeless(Tail(s))
    BY TailPieces DEF Sizeless
-----------------------------------------------------------------------------
(* Types.                                                                  *)

USE DEF ClientSteps, ServerSteps

LEMMA ClientTypes ==
    ASSUME TypeOK, NEW c \in Clients, ClientStep(c) \/ Environment(c)
    PROVE  TypeOK'
<1> USE DEF TypeOK, GotoC, serverVars
<1>1. CASE SendRequestBody(c)
  <2>1. toServer[c] \o Body(clientSize[c], 0) \in Seq(Piece)
    BY BodyAppended
  <2> QED
    BY <1>1, <2>1 DEF SendRequestBody
<1>2. CASE RecvAnswerSize(c)
  <2>1. Tail(toClient[c]) \in Seq(Piece) /\ Head(toClient[c]).size \in Nat
    BY <1>2, TailPieces DEF RecvAnswerSize, Piece
  <2> QED
    BY <1>2, <2>1 DEF RecvAnswerSize
<1>3. CASE RecvAnswerSizeEnds(c)
  BY <1>3 DEF RecvAnswerSizeEnds
<1>4. CASE RecvAnswerBody(c)
  <2>1. PICK k \in Received(toClient[c], clientSize[c]) :
          /\ printed' = [printed EXCEPT ![c] = Head(toClient[c]).answers]
          /\ toClient' = [toClient EXCEPT ![c] = Unread(@, k)]
    BY <1>4 DEF RecvAnswerBody
  <2>2. Unread(toClient[c], k) \in Seq(Piece) /\ Head(toClient[c]).answers \in Nat
    BY UnreadPieces DEF Piece
  <2>3. printed' \in [Clients -> Nat]
    BY <2>1, <2>2
  <2> QED
    BY <1>4, <2>1, <2>2, <2>3 DEF RecvAnswerBody
<1>5. CASE RecvAnswerBodyEnds(c)
  BY <1>5 DEF RecvAnswerBodyEnds
<1>6. CASE Connect(c)
  BY <1>6 DEF Connect
<1>7. CASE ConnectFails(c) \/ SyntaxError(c) \/ Die(c)
  BY <1>7 DEF ConnectFails, SyntaxError, Die
<1>8. ASSUME NEW n \in RequestParts, SendRequestSize(c, n)
      PROVE  TypeOK'
  <2>1. n \in Nat /\ Append(toServer[c], SizePiece(n)) \in Seq(Piece)
    BY WireAssumption, SizeAppended
  <2> QED
    BY <1>8, <2>1 DEF SendRequestSize
<1>9. CASE RecvAnswerSizePart(c)
  <2>1. PICK m \in OtherSizes, n \in RestParts :
          /\ clientSize' = [clientSize EXCEPT ![c] = m]
          /\ toClient' = [toClient EXCEPT ![c] = RestOfSize(n, @)]
    BY <1>9 DEF RecvAnswerSizePart
  <2>2. m \in Nat /\ RestOfSize(n, toClient[c]) \in Seq(Piece)
    BY <1>9, WireAssumption, RestPieces DEF RecvAnswerSizePart
  <2> QED
    BY <1>9, <2>1, <2>2 DEF RecvAnswerSizePart
<1> QED
  BY <1>1, <1>2, <1>3, <1>4, <1>5, <1>6, <1>7, <1>8, <1>9 DEF ClientStep, Environment

LEMMA ServerTypes ==
    ASSUME TypeOK, ServesSock, ServerStep
    PROVE  TypeOK'
<1> USE DEF TypeOK, clientVars, ServesSock
<1>1. CASE Accept
  <2>1. Head(backlog) \in Clients /\ Tail(backlog) \in Seq(Clients)
    BY <1>1 DEF Accept
  <2> QED
    BY <1>1, <2>1 DEF Accept
<1>2. CASE RecvSize
  <2>1. sock \in Clients
    BY <1>2 DEF RecvSize
  <2>2. Tail(toServer[sock]) \in Seq(Piece) /\ Head(toServer[sock]).size \in Nat
    BY <1>2, <2>1, TailPieces DEF RecvSize, Piece
  <2> QED
    BY <1>2, <2>2 DEF RecvSize
<1>3. CASE RecvSizePart
  <2>1. sock \in Clients
    BY <1>3 DEF RecvSizePart
  <2>2. PICK n \in RestParts : toServer' = [toServer EXCEPT ![sock] = RestOfSize(n, @)]
    BY <1>3 DEF RecvSizePart
  <2>3. msgSize' \in Nat /\ RestOfSize(n, toServer[sock]) \in Seq(Piece)
    BY <1>3, <2>1, WireAssumption, RestPieces DEF RecvSizePart
  <2> QED
    BY <1>3, <2>1, <2>2, <2>3 DEF RecvSizePart
<1>4. CASE RecvGarbage
  <2>1. sock \in Clients /\ Tail(toServer[sock]) \in Seq(Piece)
    BY <1>4, TailPieces DEF RecvGarbage
  <2> QED
    BY <1>4, <2>1, WireAssumption DEF RecvGarbage
<1>5. CASE RecvSizeEnds
  <2>1. <<>> \in Seq(Piece)
    OBVIOUS
  <2> QED
    BY <1>5, <2>1 DEF RecvSizeEnds
<1>6. CASE RecvBodyEnds \/ ExecuteAborts \/ SendAnswerKills \/ ExecuteNothing
  <2>1. CASE ExecuteNothing
    BY <2>1 DEF ExecuteNothing
  <2>2. CASE RecvBodyEnds \/ ExecuteAborts \/ SendAnswerKills
    BY <2>2 DEF RecvBodyEnds, ExecuteAborts, SendAnswerKills
  <2> QED
    BY <1>6, <2>1, <2>2
<1>7. CASE RecvBody
  <2>1. sock \in Clients
    BY <1>7 DEF RecvBody
  <2>2. PICK k \in Received(toServer[sock], msgSize) :
          /\ cut' = IF k = msgSize THEN cut ELSE cut \cup {sock}
          /\ toServer' = [toServer EXCEPT ![sock] = Unread(@, k)]
    BY <1>7 DEF RecvBody
  <2>3. Unread(toServer[sock], k) \in Seq(Piece)
    BY <2>1, UnreadPieces
  <2>4. cut' \in SUBSET Clients
    BY <2>1, <2>2
  <2> QED
    BY <1>7, <2>2, <2>3, <2>4 DEF RecvBody
<1>8. CASE RecvBodyReset
  <2>1. sock \in Clients
    BY <1>8 DEF RecvBodyReset
  <2>2. Append(executed, sock) \in Seq(Clients)
    BY <2>1
  <2> QED
    BY <1>8, <2>1, <2>2 DEF RecvBodyReset
<1>9. CASE Execute
  <2>1. executed' \in Seq(Clients) /\ answer' \in Nat
    BY <1>9 DEF Execute
  <2> QED
    BY <1>9, <2>1 DEF Execute
<1>10. CASE SendAnswerSize
  <2>1. PICK n \in AnswerParts :
          /\ msgSize' = n
          /\ toClient' = [toClient EXCEPT ![sock] = Append(@, SizePiece(n))]
    BY <1>10 DEF SendAnswerSize
  <2>2. n \in Nat /\ Append(toClient[sock], SizePiece(n)) \in Seq(Piece)
    BY <1>10, WireAssumption, SizeAppended DEF SendAnswerSize
  <2> QED
    BY <1>10, <2>1, <2>2 DEF SendAnswerSize
<1>11. CASE SendAnswerBody
  <2>1. toClient[sock] \o Body(msgSize, answer) \in Seq(Piece)
    BY <1>11, BodyAppended DEF SendAnswerBody
  <2> QED
    BY <1>11, <2>1 DEF SendAnswerBody
<1>12. CASE Finish
  BY <1>12 DEF Finish
<1> QED
  BY <1>1, <1>2, <1>3, <1>4, <1>5, <1>6, <1>7, <1>8, <1>9, <1>10, <1>11, <1>12
     DEF ServerStep
-----------------------------------------------------------------------------
(* What has been executed and saved.                                       *)

\* A client leaves the server's variables alone.
LEMMA ClientKeepsServer ==
    ASSUME NEW c \in Clients, ClientStep(c) \/ Environment(c)
    PROVE  UNCHANGED serverVars
    BY DEF ClientStep, Environment, SendRequestBody, RecvAnswerSize,
           RecvAnswerSizePart, RecvAnswerSizeEnds, RecvAnswerBody,
           RecvAnswerBodyEnds, Connect, ConnectFails, SyntaxError,
           SendRequestSize, Die

\* The server leaves the clients' variables alone.
LEMMA ServerKeepsClients ==
    ASSUME ServerStep
    PROVE  UNCHANGED clientVars
    BY DEF ServerStep, Accept, RecvSize, RecvSizePart, RecvGarbage, RecvSizeEnds,
           RecvBody, RecvBodyEnds, RecvBodyReset, Execute, ExecuteNothing,
           ExecuteAborts, SendAnswerSize, SendAnswerBody, SendAnswerKills, Finish

\* What is executed is added behind what has been executed before.
LEMMA ExecutedAppended ==
    ASSUME TypeOK, sock \in Clients, executed' = Append(executed, sock)
    PROVE  /\ Len(executed) \in Nat /\ Len(executed') = Len(executed) + 1
           /\ \A k \in Positions : k \in Positions' /\ executed'[k] = executed[k]
           /\ Len(executed) + 1 \in Positions' /\ executed'[Len(executed) + 1] = sock
           /\ \A k \in Positions' : k \in Positions \/ k = Len(executed) + 1
<1>1. executed \in Seq(Clients) /\ Len(executed) \in Nat
  BY DEF TypeOK
<1>2. /\ Len(executed') = Len(executed) + 1
      /\ \A k \in 1 .. Len(executed) : executed'[k] = executed[k]
      /\ executed'[Len(executed) + 1] = sock
  BY <1>1, AppendProperties
<1> QED
  BY <1>1, <1>2 DEF Positions

LEMMA ClientWork ==
    ASSUME OnlyOwnWorkIsUnsaved, ServesSock, NEW c \in Clients,
           ClientStep(c) \/ Environment(c)
    PROVE  OnlyOwnWorkIsUnsaved' /\ ServesSock'
    BY ClientKeepsServer DEF serverVars, OnlyOwnWorkIsUnsaved, ServesSock, Positions

LEMMA ServerWork ==
    ASSUME TypeOK, OnlyOwnWorkIsUnsaved, ServesSock, ServerStep
    PROVE  OnlyOwnWorkIsUnsaved' /\ ServesSock'
<1> USE DEF OnlyOwnWorkIsUnsaved, ServesSock, Positions
<1>1. CASE Accept
  <2>1. sock' \in Clients /\ UNCHANGED <<executed, saved>>
    BY <1>1 DEF Accept, TypeOK
  <2>2. \A k \in Positions : executed[k] \in Clients
    BY ElementOfSeq DEF TypeOK
  <2>3. \A k \in Positions : ~ (k > saved)
    BY <1>1, <2>2, WireAssumption DEF Accept
  <2> QED
    BY <1>1, <2>1, <2>3 DEF Accept
<1>2. CASE RecvSize \/ RecvSizePart \/ RecvGarbage \/ RecvSizeEnds \/ RecvBody
           \/ RecvBodyEnds
  BY <1>2 DEF RecvSize, RecvSizePart, RecvGarbage, RecvSizeEnds, RecvBody, RecvBodyEnds
<1>3. CASE ExecuteNothing \/ ExecuteAborts
  BY <1>3 DEF ExecuteNothing, ExecuteAborts
<1>4. CASE SendAnswerSize \/ SendAnswerBody \/ SendAnswerKills
  BY <1>4 DEF SendAnswerSize, SendAnswerBody, SendAnswerKills
<1>5. ASSUME executed' = Append(executed, sock), sock \in Clients,
             UNCHANGED <<sock, saved>>
      PROVE  /\ \A k \in Positions' : k > saved' => executed'[k] = sock'
             /\ saved' <= Len(executed')
  <2>1. saved \in Nat
    BY DEF TypeOK
  <2> QED
    BY <1>5, <2>1, ExecutedAppended
<1>6. CASE Execute
  <2>1. /\ sock \in Clients /\ UNCHANGED <<saved, sock>>
        /\ executed' = Append(executed, sock)
        /\ serverPc' = "sendSize" /\ answer' = Len(executed) + 1
    BY <1>6 DEF Execute
  <2>2. answer' \in Positions' /\ executed'[answer'] = sock
    BY <2>1, ExecutedAppended
  <2> QED
    BY <2>1, <2>2, <1>5
<1>7. CASE RecvBodyReset
  <2>1. /\ sock \in Clients /\ UNCHANGED <<saved, sock>> /\ serverPc' = "killed"
        /\ executed' = executed \/ executed' = Append(executed, sock)
    BY <1>7 DEF RecvBodyReset
  <2>2. CASE executed' = executed
    BY <2>1, <2>2
  <2>3. CASE executed' = Append(executed, sock)
    BY <2>1, <2>3, <1>5
  <2> QED
    BY <2>1, <2>2, <2>3
<1>8. CASE Finish
  BY <1>8 DEF Finish, TypeOK
<1> QED
  BY <1>1, <1>2, <1>3, <1>4, <1>6, <1>7, <1>8 DEF ServerStep
-----------------------------------------------------------------------------
(* The requests on their way.                                              *)

\* Serving a client leaves those alone that have been served.
LEMMA ServedAfter ==
    ASSUME TypeOK, sock \in Clients, executed' = Append(executed, sock)
    PROVE  \A c \in Clients : Served(c)' <=> Served(c) \/ c = sock
<1>1. /\ \A k \in Positions : k \in Positions' /\ executed'[k] = executed[k]
      /\ Len(executed) + 1 \in Positions' /\ executed'[Len(executed) + 1] = sock
      /\ \A k \in Positions' : k \in Positions \/ k = Len(executed) + 1
  BY ExecutedAppended
<1> QED
  BY <1>1 DEF Served

\* A client that does not send leaves its stream to the server alone.
LEMMA ClientDoesNotSend ==
    ASSUME TypeOK, NEW c \in Clients, ClientStep(c) \/ Environment(c),
           ~ SendRequestBody(c), ~ \E n \in RequestParts : SendRequestSize(c, n)
    PROVE  /\ UNCHANGED toServer
           /\ \A d \in Clients : d # c => clientPc'[d] = clientPc[d] /\ clientSize'[d] = clientSize[d]
           /\ ~ Gone(c) /\ clientPc'[c] # "sendBody"
           /\ \/ clientPc[c] = "start" /\ clientPc'[c] = "type"
              \/ clientPc'[c] \notin {"start", "type"}
    BY DEF TypeOK, GotoC, Gone, ClientStep, Environment, RecvAnswerSize,
       RecvAnswerSizePart, RecvAnswerSizeEnds, RecvAnswerBody, RecvAnswerBodyEnds,
       Connect, ConnectFails, SyntaxError, Die

\* A client that sends its size has sent nothing before.
LEMMA ClientSendsSize ==
    ASSUME TypeOK, NEW c \in Clients, NEW n \in RequestParts,
           SendRequestSize(c, n), toServer[c] = <<>>
    PROVE  /\ n \in Nat /\ IsSize(SizePiece(n)) /\ SizePiece(n).size = n
           /\ clientPc[c] = "type" /\ clientPc'[c] = "sendBody" /\ clientSize'[c] = n
           /\ toServer'[c] = <<SizePiece(n)>>
           /\ Len(toServer'[c]) = 1 /\ toServer'[c][1] = SizePiece(n)
           /\ \A d \in Clients : d # c =>
                 /\ clientPc'[d] = clientPc[d] /\ clientSize'[d] = clientSize[d]
                 /\ toServer'[d] = toServer[d]
<1>1. /\ clientPc[c] = "type" /\ clientPc'[c] = "sendBody" /\ clientSize'[c] = n
      /\ toServer'[c] = Append(toServer[c], SizePiece(n))
      /\ \A d \in Clients : d # c =>
            /\ clientPc'[d] = clientPc[d] /\ clientSize'[d] = clientSize[d]
            /\ toServer'[d] = toServer[d]
  BY DEF SendRequestSize, GotoC, TypeOK
<1>2. toServer'[c] = <<SizePiece(n)>>
  BY <1>1
<1>3. n \in Nat \ {0}
  BY WireAssumption
<1> QED
  BY <1>1, <1>2, <1>3, Pieces

\* A client that sends its body adds parts that are no sizes.
LEMMA ClientSendsBody ==
    ASSUME TypeOK, NEW c \in Clients, SendRequestBody(c)
    PROVE  /\ clientPc[c] = "sendBody" /\ clientPc'[c] = "recvSize"
           /\ Len(toServer[c]) \in Nat
           /\ Len(toServer'[c]) = Len(toServer[c]) + clientSize[c]
           /\ \A k \in 1 .. Len(toServer'[c]) :
                 \/ k \in 1 .. Len(toServer[c]) /\ toServer'[c][k] = toServer[c][k]
                 \/ k > Len(toServer[c]) /\ ~ IsSize(toServer'[c][k])
           /\ UNCHANGED clientSize
           /\ \A d \in Clients : d # c =>
                 clientPc'[d] = clientPc[d] /\ toServer'[d] = toServer[d]
<1>1. /\ clientPc[c] = "sendBody" /\ clientPc'[c] = "recvSize"
      /\ UNCHANGED clientSize
      /\ toServer'[c] = toServer[c] \o Body(clientSize[c], 0)
      /\ \A d \in Clients : d # c =>
            clientPc'[d] = clientPc[d] /\ toServer'[d] = toServer[d]
  BY DEF SendRequestBody, GotoC, TypeOK
<1>2. toServer[c] \in Seq(Piece) /\ clientSize[c] \in Nat
  BY DEF TypeOK
<1>3. ~ IsSize(BodyPart(0))
  BY Pieces
<1>4. /\ Len(toServer[c] \o Body(clientSize[c], 0)) = Len(toServer[c]) + clientSize[c]
      /\ \A k \in 1 .. Len(toServer[c] \o Body(clientSize[c], 0)) :
           \/ /\ k \in 1 .. Len(toServer[c])
              /\ (toServer[c] \o Body(clientSize[c], 0))[k] = toServer[c][k]
           \/ /\ k > Len(toServer[c])
              /\ (toServer[c] \o Body(clientSize[c], 0))[k] = BodyPart(0)
  BY ONLY <1>2, BodyAppended
<1>5. Len(toServer[c]) \in Nat
  BY <1>2
<1>6. \A k \in 1 .. Len(toServer'[c]) :
         \/ k \in 1 .. Len(toServer[c]) /\ toServer'[c][k] = toServer[c][k]
         \/ k > Len(toServer[c]) /\ ~ IsSize(toServer'[c][k])
  <2>1. toServer'[c] = toServer[c] \o Body(clientSize[c], 0)
    BY <1>1
  <2> QED
    BY ONLY <1>3, <1>4, <2>1
<1> QED
  BY <1>1, <1>4, <1>5, <1>6

LEMMA ClientRequests ==
    ASSUME TypeOK, RequestsKeepOrder, NEW c \in Clients,
           ClientStep(c) \/ Environment(c)
    PROVE  RequestsKeepOrder'
<1>1. /\ UNCHANGED <<serverPc, sock, cut>>
      /\ \A d \in Clients : Served(d)' <=> Served(d)
  BY ClientKeepsServer DEF serverVars, Served, Positions
<1>2. SUFFICES ASSUME NEW d \in Clients
               PROVE  RequestKeepsOrder(d)'
  BY DEF RequestsKeepOrder
<1>3. RequestKeepsOrder(d) /\ RequestKeepsOrder(c)
  BY DEF RequestsKeepOrder
<1>4. CASE SendRequestBody(c)
  <2>1. CASE d # c
    BY <1>1, <1>3, <1>4, <2>1, ClientSendsBody DEF RequestKeepsOrder, Sizeless
  <2>2. CASE d = c
    <3>1. /\ clientPc[c] = "sendBody" /\ clientPc'[c] = "recvSize"
          /\ \A k \in 1 .. Len(toServer'[c]) :
                \/ k \in 1 .. Len(toServer[c]) /\ toServer'[c][k] = toServer[c][k]
                \/ k > Len(toServer[c]) /\ ~ IsSize(toServer'[c][k])
          /\ Len(toServer[c]) \in Nat /\ clientSize[c] \in Nat
          /\ Len(toServer'[c]) = Len(toServer[c]) + clientSize[c]
      BY <1>4, ClientSendsBody DEF TypeOK
    <3>2. \A k \in 2 .. Len(toServer'[c]) : ~ IsSize(toServer'[c][k])
      BY <1>3, <3>1 DEF RequestKeepsOrder
    <3>3. Sizeless(toServer[c]) => Sizeless(toServer'[c])
      BY <3>1 DEF Sizeless
    <3> QED
      BY <1>1, <1>3, <2>2, <3>1, <3>2, <3>3 DEF RequestKeepsOrder, Sizeless
  <2> QED
    BY <2>1, <2>2
<1>5. CASE \E n \in RequestParts : SendRequestSize(c, n)
  <2>1. PICK n \in RequestParts : SendRequestSize(c, n)
    BY <1>5
  <2>2. clientPc[c] = "type"
    BY <2>1 DEF SendRequestSize
  <2>3. toServer[c] = <<>>
    BY <1>3, <2>2 DEF RequestKeepsOrder
  <2>4. CASE d # c
    BY <1>1, <1>3, <2>1, <2>3, <2>4, ClientSendsSize DEF RequestKeepsOrder, Sizeless
  <2>5. CASE d = c
    <3>1. clientPc'[c] = "sendBody" /\ Len(toServer'[c]) = 1
      BY <2>1, <2>3, ClientSendsSize
    <3> QED
      BY <1>1, <1>3, <2>2, <2>5, <3>1 DEF RequestKeepsOrder
  <2> QED
    BY <2>4, <2>5
<1>6. CASE ~ SendRequestBody(c) /\ ~ \E n \in RequestParts : SendRequestSize(c, n)
  <2>1. /\ toServer'[d] = toServer[d]
        /\ \/ clientPc'[d] = clientPc[d]
           \/ clientPc[d] = "start" /\ clientPc'[d] = "type"
           \/ clientPc'[d] \notin {"start", "type"}
    BY <1>6, ClientDoesNotSend
  <2> QED
    BY <1>1, <1>3, <2>1 DEF RequestKeepsOrder, Sizeless
<1> QED
  BY <1>4, <1>5, <1>6

\* What a step of the server does to the order of a client's request depends
\* on what it takes from the client's stream.
LEMMA OrderKept ==
    ASSUME NEW c \in Clients, RequestKeepsOrder(c), UNCHANGED clientPc,
           \/ toServer'[c] = toServer[c]
           \/ Sizeless(toServer'[c]) /\ clientPc[c] \notin {"start", "type"},
           Served(c)' \/ c \in cut' \/ (sock' = c /\ serverPc' \in {"recvBody", "execute"}) =>
              \/ Served(c) \/ c \in cut
              \/ sock = c /\ serverPc \in {"recvBody", "execute"}
              \/ Sizeless(toServer'[c]) /\ clientPc[c] \notin {"start", "type"}
    PROVE  RequestKeepsOrder(c)'
<1>1. Sizeless(toServer'[c]) => \A k \in 2 .. Len(toServer'[c]) : ~ IsSize(toServer'[c][k])
  BY DEF Sizeless
<1>2. CASE toServer'[c] = toServer[c]
  BY <1>2 DEF RequestKeepsOrder, Sizeless
<1>3. CASE Sizeless(toServer'[c]) /\ clientPc[c] \notin {"start", "type"}
  BY <1>1, <1>3 DEF RequestKeepsOrder, Sizeless
<1> QED
  BY <1>2, <1>3

LEMMA ServerRequests ==
    ASSUME TypeOK, ServesSock, RequestsKeepOrder, ServerStep
    PROVE  RequestsKeepOrder'
<1>1. UNCHANGED clientPc
  BY ServerKeepsClients DEF clientVars
<1>2. SUFFICES ASSUME NEW c \in Clients
               PROVE  RequestKeepsOrder(c)'
  BY DEF RequestsKeepOrder
<1>3. RequestKeepsOrder(c) /\ toServer[c] \in Seq(Piece)
  BY DEF RequestsKeepOrder, TypeOK
<1>4. CASE RecvSize \/ RecvSizePart \/ RecvGarbage
  <2>1. /\ serverPc = "recvSize" /\ sock \in Clients /\ sock' = sock
        /\ Served(c)' <=> Served(c)
        /\ toServer[sock] # <<>>
    BY <1>4 DEF RecvSize, RecvSizePart, RecvGarbage, Served, Positions, ServesSock
  <2>2. CASE c # sock
    <3>1. toServer'[c] = toServer[c] /\ (c \in cut' <=> c \in cut)
      BY <1>4, <2>1, <2>2 DEF RecvSize, RecvSizePart, RecvGarbage, TypeOK
    <3> QED
      BY <1>1, <1>3, <2>1, <2>2, <3>1, OrderKept
  <2>3. CASE c = sock
    <3>1. /\ clientPc[c] \notin {"start", "type"}
          /\ \A k \in 2 .. Len(toServer[c]) : ~ IsSize(toServer[c][k])
      BY <1>3, <2>1, <2>3 DEF RequestKeepsOrder
    <3>2. \/ toServer'[c] = Tail(toServer[c])
          \/ \E n \in RestParts : toServer'[c] = RestOfSize(n, toServer[c])
          \/ toServer'[c] = toServer[c] /\ cut' = cut /\ serverPc' = "killed"
      BY <1>4, <2>1, <2>3 DEF RecvSize, RecvSizePart, RecvGarbage, TypeOK
    <3>3. Sizeless(Tail(toServer[c]))
      BY <1>3, <2>1, <2>3, <3>1, TailSizeless
    <3>4. \A n \in RestParts : Sizeless(RestOfSize(n, toServer[c]))
      BY <1>3, <2>1, <2>3, <3>1, WireAssumption, RestSizeless
    <3> QED
      BY <1>1, <1>3, <2>1, <3>1, <3>2, <3>3, <3>4, OrderKept
  <2> QED
    BY <2>2, <2>3
<1>5. CASE RecvBody
  <2>1. /\ serverPc = "recvBody" /\ sock' = sock /\ sock \in Clients
        /\ Served(c)' <=> Served(c)
    BY <1>5 DEF RecvBody, Served, Positions, ServesSock
  <2>2. PICK k \in Received(toServer[sock], msgSize) :
           /\ cut' = IF k = msgSize THEN cut ELSE cut \cup {sock}
           /\ toServer' = [toServer EXCEPT ![sock] = Unread(@, k)]
    BY <1>5 DEF RecvBody
  <2>3. CASE c # sock
    <3>1. toServer'[c] = toServer[c] /\ (c \in cut' => c \in cut)
      BY <2>2, <2>3 DEF TypeOK
    <3> QED
      BY <1>1, <1>3, <2>1, <2>3, <3>1, OrderKept
  <2>4. CASE c = sock
    <3>1. Sizeless(toServer[c]) /\ clientPc[c] \notin {"start", "type"}
      BY <1>3, <2>1, <2>4 DEF RequestKeepsOrder
    <3>2. toServer'[c] = Unread(toServer[c], k)
      BY <2>2, <2>4 DEF TypeOK
    <3>3. \A j \in 1 .. Len(toServer'[c]) :
             /\ j + k \in 2 .. Len(toServer[c])
             /\ toServer'[c][j] = toServer[c][j + k]
      BY <1>3, <2>2, <2>4, <3>2, UnreadPieces DEF TypeOK
    <3>4. Len(toServer[c]) \in Nat /\ \A j \in 2 .. Len(toServer[c]) : j \in 1 .. Len(toServer[c])
      BY <1>3
    <3>5. Sizeless(toServer'[c])
      BY <3>1, <3>3, <3>4 DEF Sizeless
    <3> QED
      BY <1>1, <1>3, <3>1, <3>5, OrderKept
  <2> QED
    BY <2>3, <2>4
<1>6. CASE Execute \/ RecvBodyReset
  <2>1. /\ serverPc \in {"recvBody", "execute"} /\ sock' = sock /\ sock \in Clients
        /\ toServer' = toServer /\ cut' \in SUBSET (cut \cup {sock})
        /\ executed' = executed \/ executed' = Append(executed, sock)
    BY <1>6 DEF Execute, RecvBodyReset, ServesSock
  <2>2. Served(c)' => Served(c) \/ c = sock
    <3>1. CASE executed' = executed
      BY <3>1 DEF Served, Positions
    <3>2. CASE executed' = Append(executed, sock)
      BY <2>1, <3>2, ServedAfter
    <3> QED
      BY <2>1, <3>1, <3>2
  <2>3. c \in cut' => c \in cut \/ c = sock
    BY <2>1
  <2> QED
    BY <1>1, <1>3, <2>1, <2>2, <2>3, OrderKept
<1>7. CASE \/ Accept \/ RecvSizeEnds \/ RecvBodyEnds \/ ExecuteNothing \/ ExecuteAborts
           \/ SendAnswerSize \/ SendAnswerBody \/ SendAnswerKills \/ Finish
  <2>1. /\ UNCHANGED <<toServer, cut>>
        /\ Served(c)' <=> Served(c)
        /\ serverPc' # "execute"
        /\ serverPc' = "recvBody" => sock' = sock /\ toServer[sock] = <<>> /\ Gone(sock)
    BY <1>7 DEF Served, Positions, Accept, RecvSizeEnds, RecvBodyEnds, ExecuteNothing,
       ExecuteAborts, SendAnswerSize, SendAnswerBody, SendAnswerKills, Finish
  <2>2. serverPc' = "recvBody" /\ sock' = c =>
           Sizeless(toServer'[c]) /\ clientPc[c] \notin {"start", "type"}
    BY <2>1 DEF Sizeless, Gone
  <2> QED
    BY <1>1, <1>3, <2>1, <2>2, OrderKept
<1> QED
  BY <1>4, <1>5, <1>6, <1>7 DEF ServerStep
-----------------------------------------------------------------------------
(* The lengths of the requests.                                            *)

LEMMA ClientFrames ==
    ASSUME TypeOK, RequestsKeepOrder, RequestsAreFramed,
           NEW c \in Clients, ClientStep(c) \/ Environment(c)
    PROVE  RequestsAreFramed'
<1>1. /\ UNCHANGED <<serverPc, sock, msgSize, cut>>
      /\ \A d \in Clients : Served(d)' <=> Served(d)
  BY ClientKeepsServer DEF serverVars, Served, Positions
<1>2. SUFFICES ASSUME NEW d \in Clients \ cut
               PROVE  RequestIsFramed(d)'
  BY <1>1 DEF RequestsAreFramed
<1>3. RequestIsFramed(d) /\ RequestKeepsOrder(d)
  BY DEF RequestsAreFramed, RequestsKeepOrder
<1>4. ASSUME clientPc'[d] = clientPc[d], clientSize'[d] = clientSize[d],
             toServer'[d] = toServer[d]
      PROVE  RequestIsFramed(d)'
  BY <1>1, <1>3, <1>4 DEF RequestIsFramed, Gone
<1>5. CASE SendRequestBody(c)
  <2>1. CASE d # c
    BY <1>4, <1>5, <2>1, ClientSendsBody
  <2>2. CASE d = c
    <3>1. /\ clientPc[c] = "sendBody" /\ clientPc'[c] = "recvSize"
          /\ Len(toServer'[c]) = Len(toServer[c]) + clientSize[c]
          /\ \A k \in 1 .. Len(toServer'[c]) :
                \/ k \in 1 .. Len(toServer[c]) /\ toServer'[c][k] = toServer[c][k]
                \/ k > Len(toServer[c]) /\ ~ IsSize(toServer'[c][k])
          /\ clientSize[c] \in Nat /\ toServer'[c] \in Seq(Piece)
          /\ clientSize'[c] = clientSize[c]
      BY <1>5, ClientSendsBody, ClientTypes DEF TypeOK
    <3>2. toServer'[c] # <<>> => 1 \in 1 .. Len(toServer'[c])
      BY <3>1
    <3>3. ~ Gone(c) /\ (sock = c /\ serverPc = "recvBody" => ~ Served(c))
      BY <1>3, <2>2, <3>1 DEF RequestIsFramed, Gone
    <3>4. sock = c /\ serverPc = "execute" => ~ Served(c)
      BY <1>3, <2>2 DEF RequestIsFramed
    <3>5. CASE toServer[c] = <<SizePiece(clientSize[c])>>
      <4>1. /\ Len(toServer[c]) = 1 /\ toServer[c][1] = SizePiece(clientSize[c])
            /\ SizePiece(clientSize[c]).size = clientSize[c]
            /\ Len(toServer'[c]) = clientSize[c] + 1
        BY <3>1, <3>5, Pieces
      <4>2. toServer'[c][1] = SizePiece(clientSize[c]) /\ toServer'[c] # <<>>
        <5>1. 1 \in 1 .. Len(toServer'[c]) /\ ~ (1 > Len(toServer[c]))
          BY <3>1, <4>1
        <5> QED
          BY <3>1, <4>1, <5>1
      <4>3. IsSize(SizePiece(clientSize[c]))
        BY <1>3, <2>2, <3>1, Pieces DEF RequestIsFramed
      <4>4. ~ (sock = c /\ serverPc = "recvBody")
        BY <1>3, <2>2, <4>1, <4>3 DEF RequestKeepsOrder, Sizeless
      <4> QED
        BY <1>1, <2>2, <3>1, <3>4, <4>1, <4>2, <4>3, <4>4 DEF RequestIsFramed
    <3>6. CASE toServer[c] = <<>>
      <4>1. Len(toServer'[c]) = clientSize[c]
        BY <3>1, <3>6
      <4>2. toServer'[c] # <<>> => ~ IsSize(toServer'[c][1])
        BY <3>1, <3>2, <3>6
      <4>3. \/ serverPc = "killed"
            \/ sock = c /\ serverPc = "recvBody" /\ msgSize = clientSize[c]
        BY <1>3, <2>2, <3>1, <3>6 DEF RequestIsFramed
      <4> QED
        BY <1>1, <2>2, <3>1, <3>3, <3>4, <4>1, <4>2, <4>3 DEF RequestIsFramed
    <3> QED
      BY <1>3, <2>2, <3>1, <3>5, <3>6 DEF RequestIsFramed
  <2> QED
    BY <2>1, <2>2
<1>6. CASE \E n \in RequestParts : SendRequestSize(c, n)
  <2>1. PICK n \in RequestParts : SendRequestSize(c, n)
    BY <1>6
  <2>2. toServer[c] = <<>> /\ clientPc[c] = "type"
    BY <2>1 DEF SendRequestSize, RequestsKeepOrder, RequestKeepsOrder
  <2>3. CASE d # c
    BY <1>4, <2>1, <2>2, <2>3, ClientSendsSize
  <2>4. CASE d = c
    <3>1. /\ n \in Nat /\ IsSize(SizePiece(n)) /\ SizePiece(n).size = n
          /\ clientPc'[c] = "sendBody" /\ clientSize'[c] = n
          /\ toServer'[c] = <<SizePiece(n)>>
          /\ Len(toServer'[c]) = 1 /\ toServer'[c][1] = SizePiece(n)
      BY <2>1, <2>2, ClientSendsSize
    <3>2. ~ (sock = c /\ serverPc \in {"recvBody", "execute"})
      BY <1>3, <2>2, <2>4 DEF RequestKeepsOrder
    <3>3. 1 <= n + 1 /\ n # 0
      BY <3>1, WireAssumption
    <3> QED
      BY <1>1, <2>4, <3>1, <3>2, <3>3 DEF RequestIsFramed
  <2> QED
    BY <2>3, <2>4
<1>7. CASE ~ SendRequestBody(c) /\ ~ \E n \in RequestParts : SendRequestSize(c, n)
  <2>1. /\ toServer'[d] = toServer[d]
        /\ d # c => clientPc'[d] = clientPc[d] /\ clientSize'[d] = clientSize[d]
        /\ d = c => ~ Gone(d) /\ clientPc'[d] # "sendBody"
    BY <1>7, ClientDoesNotSend
  <2>2. CASE d = c
    BY <1>1, <1>3, <2>1, <2>2 DEF RequestIsFramed
  <2> QED
    BY <1>4, <2>1, <2>2
<1> QED
  BY <1>5, <1>6, <1>7

LEMMA ServerFrames ==
    ASSUME TypeOK, ServesSock, RequestsKeepOrder, RequestsAreFramed, ServerStep
    PROVE  RequestsAreFramed'
<1>1. UNCHANGED <<clientPc, clientSize>>
  BY ServerKeepsClients DEF clientVars
<1>2. SUFFICES ASSUME NEW c \in Clients, c \notin cut'
               PROVE  RequestIsFramed(c)'
  BY DEF RequestsAreFramed
<1>3. c \notin cut
  BY <1>2 DEF ServerStep, Accept, RecvSize, RecvSizePart, RecvGarbage, RecvSizeEnds,
     RecvBody, RecvBodyEnds, RecvBodyReset, Execute, ExecuteNothing,
     ExecuteAborts, SendAnswerSize, SendAnswerBody, SendAnswerKills, Finish
<1>4. /\ RequestIsFramed(c) /\ RequestKeepsOrder(c)
      /\ toServer[c] \in Seq(Piece) /\ msgSize \in Nat /\ Len(toServer[c]) \in Nat
  BY <1>3 DEF RequestsAreFramed, RequestsKeepOrder, TypeOK
<1>5. ASSUME toServer'[c] = toServer[c], Served(c)' <=> Served(c), c # sock,
             sock' = sock, serverPc # "killed"
      PROVE  RequestIsFramed(c)'
  BY <1>1, <1>4, <1>5 DEF RequestIsFramed, Gone
<1>6. CASE RecvSize
  <2>1. /\ serverPc = "recvSize" /\ serverPc' = "recvBody"
        /\ sock' = sock /\ sock \in Clients
        /\ Served(c)' <=> Served(c)
    BY <1>6 DEF RecvSize, Served, Positions, ServesSock
  <2>2. CASE c # sock
    <3>1. toServer'[c] = toServer[c]
      BY <1>6, <2>2 DEF RecvSize, TypeOK
    <3> QED
      BY <1>5, <2>1, <2>2, <3>1
  <2>3. CASE c = sock
    <3>1. /\ toServer[c] # <<>> /\ IsSize(toServer[c][1])
          /\ toServer'[c] = Tail(toServer[c])
          /\ Len(toServer[c]) >= 1
          /\ msgSize' = toServer[c][1].size /\ toServer[c][1].size \in Nat
      BY <1>4, <1>6, <2>3, TailPieces DEF RecvSize, TypeOK, Piece
    <3>2. Len(toServer'[c]) <= msgSize' /\ toServer'[c] \in Seq(Piece)
      <4>1. Len(toServer'[c]) = Len(toServer[c]) - 1 /\ toServer'[c] \in Seq(Piece)
        BY <1>4, <3>1, TailPieces
      <4> QED
        BY <1>4, <3>1, <4>1 DEF RequestIsFramed
    <3>3. ~ Served(c)
      BY <1>4, <3>1 DEF RequestKeepsOrder, Sizeless
    <3>4. toServer'[c] # <<>> => ~ IsSize(toServer'[c][1])
      <4>1. Sizeless(toServer'[c])
        BY <1>4, <3>1, TailSizeless DEF RequestKeepsOrder
      <4> QED
        BY <3>2, <4>1 DEF Sizeless
    <3>5. ASSUME clientPc[c] = "sendBody"
          PROVE  toServer'[c] = <<>> /\ msgSize' = clientSize[c] /\ clientSize[c] # 0
      <4>1. toServer[c] = <<SizePiece(clientSize[c])>> /\ clientSize[c] # 0
        BY <1>4, <3>1, <3>5 DEF RequestIsFramed
      <4>2. SizePiece(clientSize[c]).size = clientSize[c]
        BY Pieces DEF TypeOK
      <4>3. toServer[c][1] = SizePiece(clientSize[c]) /\ Tail(toServer[c]) = <<>>
        BY <4>1
      <4> QED
        BY <3>1, <4>1, <4>2, <4>3
    <3>6. clientPc'[c] = clientPc[c] /\ clientSize'[c] = clientSize[c] /\ ~ Served(c)'
      BY <1>1, <2>1, <3>3
    <3> QED
      BY ONLY <2>1, <2>3, <3>2, <3>4, <3>5, <3>6 DEF RequestIsFramed
  <2> QED
    BY <2>2, <2>3
<1>7. CASE RecvBody
  <2>1. /\ serverPc = "recvBody" /\ serverPc' = "execute"
        /\ sock' = sock /\ sock \in Clients
        /\ UNCHANGED <<executed, msgSize>>
        /\ Served(c)' <=> Served(c)
    BY <1>7 DEF RecvBody, Served, Positions, ServesSock
  <2>2. PICK k \in Received(toServer[sock], msgSize) :
           /\ cut' = IF k = msgSize THEN cut ELSE cut \cup {sock}
           /\ toServer' = [toServer EXCEPT ![sock] = Unread(@, k)]
    BY <1>7 DEF RecvBody
  <2>3. CASE c # sock
    <3>1. toServer'[c] = toServer[c]
      BY <2>2, <2>3 DEF TypeOK
    <3> QED
      BY <1>5, <2>1, <2>3, <3>1
  <2>4. CASE c = sock
    <3>1. k = msgSize /\ toServer'[c] = Unread(toServer[c], k)
      BY <1>2, <2>2, <2>4 DEF TypeOK
    <3>2. /\ toServer[c] # <<>> /\ 1 <= Len(toServer[c])
          /\ Len(toServer'[c]) = Len(toServer[c]) - k /\ toServer'[c] \in Seq(Piece)
      BY <1>4, <2>2, <2>4, <3>1, UnreadPieces
    <3>3. k \in Nat /\ k <= Len(toServer[c])
      BY <2>2, <2>4 DEF Received
    <3>4. Len(toServer[c]) <= msgSize /\ ~ Served(c)
      BY <1>4, <2>1, <2>4, <3>2 DEF RequestIsFramed
    <3>5. toServer'[c] = <<>>
      <4>1. Len(toServer'[c]) = 0
        BY <1>4, <3>1, <3>2, <3>3, <3>4
      <4> QED
        BY <3>2, <4>1
    <3>6. clientPc[c] # "sendBody"
      <4>1. ~ IsSize(toServer[c][1])
        BY <1>4, <2>1, <2>4, <3>2 DEF RequestKeepsOrder, Sizeless
      <4>2. toServer[c] = <<SizePiece(clientSize[c])>> =>
               toServer[c][1] = SizePiece(clientSize[c])
        OBVIOUS
      <4>3. clientSize[c] \in Nat \ {0} => IsSize(SizePiece(clientSize[c]))
        BY Pieces
      <4>4. clientSize[c] \in Nat
        BY DEF TypeOK
      <4> QED
        BY <1>4, <3>2, <4>1, <4>2, <4>3, <4>4 DEF RequestIsFramed
    <3> QED
      BY <1>1, <2>1, <2>4, <3>4, <3>5, <3>6 DEF RequestIsFramed
  <2> QED
    BY <2>3, <2>4
<1>8. CASE Execute
  <2>1. /\ serverPc = "execute" /\ serverPc' = "sendSize" /\ sock \in Clients
        /\ UNCHANGED <<sock, toServer>>
        /\ executed' = Append(executed, sock)
    BY <1>8 DEF Execute, ServesSock
  <2>2. Served(c)' => Served(c) \/ c = sock
    BY <2>1, ServedAfter
  <2> QED
    BY <1>1, <1>4, <2>1, <2>2 DEF RequestIsFramed
<1>9. CASE RecvBodyReset
  <2>1. /\ serverPc = "recvBody" /\ serverPc' = "killed" /\ c # sock
        /\ UNCHANGED <<sock, toServer>>
    BY <1>2, <1>9 DEF RecvBodyReset
  <2> QED
    BY <1>1, <1>4, <2>1 DEF RequestIsFramed
<1>10. CASE ExecuteNothing
  <2>1. /\ serverPc = "execute" /\ serverPc' = "sendSize" /\ c # sock
        /\ UNCHANGED <<sock, toServer>>
    BY <1>3, <1>10 DEF ExecuteNothing
  <2> QED
    BY <1>1, <1>4, <2>1 DEF RequestIsFramed
<1>11. CASE RecvSizePart \/ RecvGarbage
  <2>1. /\ serverPc = "recvSize" /\ sock' = sock /\ sock \in Clients
        /\ Served(c)' <=> Served(c)
        /\ serverPc' = "killed" \/ c # sock
        /\ serverPc' = "killed" \/ serverPc' = "recvBody"
        /\ toServer'[c] = toServer[c]
    BY <1>2, <1>11 DEF RecvSizePart, RecvGarbage, Served, Positions, ServesSock, TypeOK
  <2> QED
    BY <1>1, <1>4, <2>1 DEF RequestIsFramed
<1>12. CASE RecvSizeEnds
  <2>1. /\ serverPc = "recvSize" /\ serverPc' \in {"finish", "recvBody"}
        /\ UNCHANGED <<sock, toServer, msgSize>>
        /\ toServer[sock] = <<>> /\ Gone(sock)
        /\ Served(c)' <=> Served(c)
    BY <1>12 DEF RecvSizeEnds, Served, Positions
  <2>2. c = sock => Len(toServer[c]) <= msgSize
    BY <1>4, <2>1
  <2> QED
    BY <1>1, <1>4, <2>1, <2>2 DEF RequestIsFramed, Gone
<1>13. CASE RecvBodyEnds
  <2>1. /\ serverPc = "recvBody" /\ serverPc' = "finish"
        /\ UNCHANGED <<sock, toServer>>
        /\ \/ toServer[sock] = <<>> /\ Gone(sock)
           \/ toServer[sock] # <<>> /\ msgSize = 0
        /\ Served(c)' <=> Served(c)
    BY <1>13 DEF RecvBodyEnds, Served, Positions
  <2>2. c = sock => toServer[c] = <<>> /\ Gone(c)
    <3>1. c = sock => Len(toServer[c]) <= msgSize
      BY <1>4, <2>1 DEF RequestIsFramed
    <3>2. Len(toServer[c]) <= 0 => toServer[c] = <<>>
      BY <1>4
    <3> QED
      BY <2>1, <3>1, <3>2
  <2> QED
    BY <1>1, <1>4, <2>1, <2>2 DEF RequestIsFramed, Gone
<1>14. CASE ExecuteAborts
  <2>1. serverPc = "execute" /\ serverPc' = "killed" /\ UNCHANGED <<sock, toServer, executed>>
    BY <1>14 DEF ExecuteAborts
  <2> QED
    BY <1>1, <1>4, <2>1 DEF RequestIsFramed
<1>15. CASE Accept \/ SendAnswerSize \/ SendAnswerBody \/ SendAnswerKills \/ Finish
  <2>1. /\ UNCHANGED toServer
        /\ Served(c)' <=> Served(c)
        /\ serverPc' \notin {"execute", "recvBody"}
        /\ serverPc \notin {"execute", "recvBody", "killed"}
    BY <1>15 DEF Served, Positions, Accept, SendAnswerSize, SendAnswerBody,
       SendAnswerKills, Finish
  <2> QED
    BY <1>1, <1>4, <2>1 DEF RequestIsFramed
<1> QED
  BY <1>6, <1>7, <1>8, <1>9, <1>10, <1>11, <1>12, <1>13, <1>14, <1>15 DEF ServerStep
-----------------------------------------------------------------------------
(* The answers on their way.                                               *)

\* A piece that answers none of a client's requests answers nothing.
AnswersOwn(stream, c) ==
    \A k \in 1 .. Len(stream) :
        stream[k].answers # 0 =>
            stream[k].answers \in Positions /\ executed[stream[k].answers] = c

LEMMA ClientAnswers ==
    ASSUME TypeOK, AnswersKeepOrder, NEW c \in Clients,
           ClientStep(c) \/ Environment(c)
    PROVE  AnswersKeepOrder'
<1>1. UNCHANGED executed /\ Positions' = Positions
  BY ClientKeepsServer DEF serverVars, Positions
<1>2. ASSUME NEW d \in Clients
      PROVE  AnswersOwn(toClient[d], d) /\ (printed[d] # 0 => clientPc[d] = "ended")
  BY DEF AnswersKeepOrder, AnswerKeepsOrder, AnswersOwn
<1>3. SUFFICES ASSUME NEW d \in Clients
               PROVE  AnswersOwn(toClient'[d], d) /\ (printed'[d] # 0 => clientPc'[d] = "ended")
  BY <1>1 DEF AnswersKeepOrder, AnswerKeepsOrder, AnswersOwn
<1>4. CASE d # c
  <2>1. /\ clientPc'[d] = clientPc[d] /\ toClient'[d] = toClient[d]
        /\ printed'[d] = printed[d]
    BY <1>4 DEF TypeOK, GotoC, ClientStep, Environment, SendRequestBody,
       RecvAnswerSize, RecvAnswerSizePart, RecvAnswerSizeEnds, RecvAnswerBody,
       RecvAnswerBodyEnds, Connect, ConnectFails, SyntaxError, SendRequestSize, Die
  <2> QED
    BY <1>2, <2>1
<1>5. CASE d = c
  <2>1. toClient[c] \in Seq(Piece) /\ AnswersOwn(toClient[c], c) /\ Len(toClient[c]) \in Nat
    BY <1>2 DEF TypeOK
  <2>2. \A j \in 2 .. Len(toClient[c]) : j \in 1 .. Len(toClient[c])
    BY <2>1
  <2>3. CASE \/ SendRequestBody(c) \/ Connect(c) \/ ConnectFails(c)
             \/ SyntaxError(c) \/ Die(c) \/ RecvAnswerBodyEnds(c) \/ RecvAnswerSizeEnds(c)
             \/ \E n \in RequestParts : SendRequestSize(c, n)
    <3>1. UNCHANGED <<toClient, printed>> /\ clientPc[c] # "ended"
      BY <2>3 DEF SendRequestBody, Connect, ConnectFails,
         SyntaxError, Die, RecvAnswerBodyEnds, RecvAnswerSizeEnds, SendRequestSize
    <3> QED
      BY <1>2, <1>5, <3>1
  <2>4. CASE RecvAnswerSize(c)
    <3>1. /\ UNCHANGED printed /\ clientPc[c] = "recvSize"
          /\ toClient[c] # <<>> /\ toClient'[c] = Tail(toClient[c])
      BY <2>4 DEF RecvAnswerSize, TypeOK
    <3>2. AnswersOwn(Tail(toClient[c]), c)
      <4>1. \A k \in 1 .. Len(Tail(toClient[c])) :
               k + 1 \in 2 .. Len(toClient[c]) /\ Tail(toClient[c])[k] = toClient[c][k + 1]
        BY <2>1, <3>1, TailPieces
      <4> QED
        BY <2>1, <2>2, <4>1 DEF AnswersOwn
    <3> QED
      BY <1>2, <1>5, <3>1, <3>2
  <2>5. CASE RecvAnswerSizePart(c)
    <3>1. PICK n \in RestParts : toClient' = [toClient EXCEPT ![c] = RestOfSize(n, @)]
      BY <2>5 DEF RecvAnswerSizePart
    <3>2. /\ UNCHANGED printed /\ clientPc[c] = "recvSize" /\ toClient[c] # <<>>
          /\ toClient'[c] = RestOfSize(n, toClient[c]) /\ n \in Nat
      BY <2>5, <3>1, WireAssumption DEF RecvAnswerSizePart, TypeOK
    <3>3. AnswersOwn(RestOfSize(n, toClient[c]), c)
      <4>1. \A k \in 1 .. Len(RestOfSize(n, toClient[c])) :
               \/ RestOfSize(n, toClient[c])[k] = BodyPart(0)
               \/ \E j \in 2 .. Len(toClient[c]) :
                     RestOfSize(n, toClient[c])[k] = toClient[c][j]
        BY <2>1, <3>2, RestPieces
      <4>2. BodyPart(0).answers = 0
        BY Pieces
      <4> QED
        BY <2>1, <2>2, <4>1, <4>2 DEF AnswersOwn
    <3> QED
      BY <1>2, <1>5, <3>2, <3>3
  <2>6. CASE RecvAnswerBody(c)
    <3>1. PICK k \in Received(toClient[c], clientSize[c]) :
             toClient' = [toClient EXCEPT ![c] = Unread(@, k)]
      BY <2>6 DEF RecvAnswerBody
    <3>2. clientPc'[c] = "ended" /\ toClient'[c] = Unread(toClient[c], k)
      BY <2>6, <3>1 DEF RecvAnswerBody, GotoC, TypeOK
    <3>3. AnswersOwn(Unread(toClient[c], k), c)
      <4>1. \A j \in 1 .. Len(Unread(toClient[c], k)) :
               /\ j + k \in 2 .. Len(toClient[c])
               /\ Unread(toClient[c], k)[j] = toClient[c][j + k]
        BY <2>1, UnreadPieces DEF TypeOK
      <4> QED
        BY <2>1, <2>2, <4>1 DEF AnswersOwn
    <3> QED
      BY <1>5, <3>2, <3>3
  <2> QED
    BY <2>3, <2>4, <2>5, <2>6 DEF ClientStep, Environment
<1> QED
  BY <1>4, <1>5

LEMMA ServerAnswers ==
    ASSUME TypeOK, ServesSock, AnswersKeepOrder, ServerStep
    PROVE  AnswersKeepOrder'
<1>1. UNCHANGED <<clientPc, printed>>
  BY ServerKeepsClients DEF clientVars
<1>2. ASSUME NEW c \in Clients
      PROVE  /\ AnswersOwn(toClient[c], c) /\ (printed[c] # 0 => clientPc[c] = "ended")
             /\ toClient[c] \in Seq(Piece) /\ msgSize \in Nat /\ answer \in Nat
  BY DEF AnswersKeepOrder, AnswerKeepsOrder, AnswersOwn, TypeOK
<1>3. ASSUME NEW c \in Clients, AnswersOwn(toClient[c], c)'
      PROVE  AnswerKeepsOrder(c)'
  BY <1>1, <1>2, <1>3 DEF AnswerKeepsOrder, AnswersOwn
<1>4. SUFFICES ASSUME NEW c \in Clients
               PROVE  AnswersOwn(toClient[c], c)'
  BY <1>3 DEF AnswersKeepOrder
<1>5. ASSUME executed' = executed \/ (sock \in Clients /\ executed' = Append(executed, sock)),
             toClient'[c] = toClient[c] \/ toClient'[c] = <<>>
      PROVE  AnswersOwn(toClient[c], c)'
  <2>1. \A k \in Positions : k \in Positions' /\ executed'[k] = executed[k]
    <3>1. CASE executed' = executed
      BY <3>1 DEF Positions
    <3>2. CASE sock \in Clients /\ executed' = Append(executed, sock)
      BY <3>2, ExecutedAppended
    <3> QED
      BY <1>5, <3>1, <3>2
  <2> QED
    BY <1>2, <1>5, <2>1 DEF AnswersOwn
<1>6. CASE Execute \/ RecvBodyReset
  BY <1>5, <1>6 DEF Execute, RecvBodyReset, ServesSock
<1>7. CASE RecvSizeEnds
  BY <1>5, <1>7 DEF RecvSizeEnds, TypeOK
<1>8. CASE SendAnswerSize
  <2>1. PICK n \in AnswerParts :
           toClient' = [toClient EXCEPT ![sock] = Append(@, SizePiece(n))]
    BY <1>8 DEF SendAnswerSize
  <2>2. executed' = executed /\ Positions' = Positions
    BY <1>8 DEF SendAnswerSize, Positions
  <2>3. CASE c # sock
    BY <1>5, <2>1, <2>2, <2>3 DEF TypeOK
  <2>4. CASE c = sock
    <3>1. toClient'[c] = Append(toClient[c], SizePiece(n)) /\ n \in Nat
      BY <2>1, <2>4, WireAssumption DEF TypeOK
    <3>2. \A k \in 1 .. Len(toClient'[c]) :
             \/ k \in 1 .. Len(toClient[c]) /\ toClient'[c][k] = toClient[c][k]
             \/ toClient'[c][k] = SizePiece(n)
      BY <1>2, <3>1, SizeAppended
    <3>3. SizePiece(n).answers = 0
      BY <3>1, Pieces
    <3> QED
      BY <1>2, <2>2, <3>2, <3>3 DEF AnswersOwn
  <2> QED
    BY <2>3, <2>4
<1>9. CASE SendAnswerBody
  <2>1. /\ toClient' = [toClient EXCEPT ![sock] = @ \o Body(msgSize, answer)]
        /\ executed' = executed /\ Positions' = Positions
        /\ answer # 0 => answer \in Positions /\ executed[answer] = sock
    BY <1>9 DEF SendAnswerBody, Positions, ServesSock
  <2>2. CASE c # sock
    BY <1>5, <2>1, <2>2 DEF TypeOK
  <2>3. CASE c = sock
    <3>1. toClient'[c] = toClient[c] \o Body(msgSize, answer)
      BY <2>1, <2>3 DEF TypeOK
    <3>2. \A k \in 1 .. Len(toClient'[c]) :
             \/ k \in 1 .. Len(toClient[c]) /\ toClient'[c][k] = toClient[c][k]
             \/ toClient'[c][k] = BodyPart(answer)
      <4>1. toClient[c] \in Seq(Piece) /\ msgSize \in Nat /\ answer \in Nat
        BY <1>2
      <4>2. \A k \in 1 .. Len(toClient[c] \o Body(msgSize, answer)) :
               \/ /\ k \in 1 .. Len(toClient[c])
                  /\ (toClient[c] \o Body(msgSize, answer))[k] = toClient[c][k]
               \/ (toClient[c] \o Body(msgSize, answer))[k] = BodyPart(answer)
        BY ONLY <4>1, BodyAppended
      <4> QED
        BY ONLY <3>1, <4>2
    <3>3. BodyPart(answer).answers = answer
      BY <1>2, Pieces
    <3> QED
      BY <1>2, <2>1, <2>3, <3>2, <3>3 DEF AnswersOwn
  <2> QED
    BY <2>2, <2>3
<1>10. CASE \/ Accept \/ RecvSize \/ RecvSizePart \/ RecvGarbage \/ RecvBody
            \/ RecvBodyEnds \/ ExecuteNothing \/ ExecuteAborts \/ SendAnswerKills \/ Finish
  <2>1. UNCHANGED <<toClient, executed>>
    BY <1>10 DEF Accept, RecvSize, RecvSizePart, RecvGarbage, RecvBody,
       RecvBodyEnds, ExecuteNothing, ExecuteAborts, SendAnswerKills, Finish
  <2> QED
    BY <1>5, <2>1
<1> QED
  BY <1>6, <1>7, <1>8, <1>9, <1>10 DEF ServerStep
-----------------------------------------------------------------------------
(* The inductive invariant and the refinement.                             *)

LEMMA WireInit == Init => IInv
<1> SUFFICES ASSUME Init
             PROVE  IInv
  OBVIOUS
<1>1. /\ executed = <<>> /\ Len(executed) = 0 /\ Positions = {}
      /\ \A c \in Clients : ~ Served(c)
  BY DEF Init, Positions, Served
<1>2. TypeOK
  <2>1. /\ \A c \in Clients : toServer[c] = <<>> /\ toClient[c] = <<>>
        /\ <<>> \in Seq(Piece) /\ <<>> \in Seq(Clients)
    BY DEF Init
  <2>2. toServer \in [Clients -> Seq(Piece)] /\ toClient \in [Clients -> Seq(Piece)]
    BY <2>1 DEF Init
  <2>3. /\ clientPc \in [Clients -> ClientSteps] /\ clientSize \in [Clients -> Nat]
        /\ printed \in [Clients -> Nat]
    BY DEF Init
  <2> QED
    BY <2>1, <2>2, <2>3 DEF Init, TypeOK
<1>3. OnlyOwnWorkIsUnsaved /\ ServesSock
  BY <1>1 DEF Init, OnlyOwnWorkIsUnsaved, ServesSock
<1>4. ASSUME NEW c \in Clients
      PROVE  /\ clientPc[c] = "start" /\ printed[c] = 0 /\ c \notin cut
             /\ toServer[c] = <<>> /\ toClient[c] = <<>>
             /\ Len(toServer[c]) = 0 /\ Len(toClient[c]) = 0
             /\ serverPc = "accept"
  BY DEF Init
<1>5. ASSUME NEW c \in Clients
      PROVE  RequestKeepsOrder(c) /\ AnswerKeepsOrder(c) /\ RequestIsFramed(c)
  <2>1. /\ \A k \in 2 .. Len(toServer[c]) : FALSE
        /\ \A k \in 1 .. Len(toClient[c]) : FALSE
    BY <1>4
  <2>2. RequestKeepsOrder(c)
    BY <1>1, <1>4, <2>1 DEF RequestKeepsOrder
  <2>3. AnswerKeepsOrder(c)
    BY <1>1, <1>4, <2>1 DEF AnswerKeepsOrder
  <2>4. RequestIsFramed(c)
    BY <1>4 DEF RequestIsFramed
  <2> QED
    BY <2>2, <2>3, <2>4
<1>6. RequestsKeepOrder /\ AnswersKeepOrder /\ RequestsAreFramed
  BY <1>5 DEF RequestsKeepOrder, AnswersKeepOrder, RequestsAreFramed
<1> QED
  BY <1>2, <1>3, <1>6 DEF IInv

LEMMA WireStep == IInv /\ [Next]_vars => IInv'
<1> SUFFICES ASSUME IInv, [Next]_vars
             PROVE  IInv'
  OBVIOUS
<1> USE DEF IInv
<1>1. ASSUME NEW c \in Clients, ClientStep(c) \/ Environment(c)
      PROVE  IInv'
  BY <1>1, ClientTypes, ClientWork, ClientRequests, ClientFrames,
     ClientAnswers
<1>2. CASE ServerStep
  BY <1>2, ServerTypes, ServerWork, ServerRequests, ServerFrames,
     ServerAnswers
<1>3. CASE UNCHANGED vars
  <2>1. TypeOK' /\ OnlyOwnWorkIsUnsaved' /\ ServesSock'
    BY <1>3 DEF vars, clientVars, serverVars, TypeOK, OnlyOwnWorkIsUnsaved,
       ServesSock, Positions
  <2>2. RequestsKeepOrder' /\ RequestsAreFramed'
    BY <1>3 DEF vars, clientVars, serverVars, RequestsKeepOrder, RequestKeepsOrder,
       RequestsAreFramed, RequestIsFramed, Served, Sizeless, Gone, Positions
  <2>3. AnswersKeepOrder'
    BY <1>3 DEF vars, clientVars, serverVars, AnswersKeepOrder, AnswerKeepsOrder,
       Positions
  <2> QED
    BY <2>1, <2>2, <2>3
<1> QED
  BY <1>1, <1>2, <1>3 DEF Next

\* The order of sizes and bodies, what has been executed and what has been
\* saved stay in step, whatever the network and the clients do.
THEOREM WireInvariant == Spec => []IInv
<1> QED
  BY WireInit, WireStep, PTL DEF Spec

\* Every variable of clients and server has its type (main.c of both).
THEOREM WireTypeCorrect == Spec => []TypeOK
<1>1. IInv => TypeOK
  BY DEF IInv
<1> QED
  BY <1>1, WireInvariant, PTL

\* What is executed and not saved is the work of the client being served
\* (zgdbServer/main.c:42-80): a server that is killed loses no other's.
THEOREM OnlyOwnWorkIsEverUnsaved == Spec => []OnlyOwnWorkIsUnsaved
<1>1. IInv => OnlyOwnWorkIsUnsaved
  BY DEF IInv
<1> QED
  BY <1>1, WireInvariant, PTL

\* A server that expects a size finds one, unless a recv has returned less of
\* that client's message than it was asked for (zgdbServer/main.c:54-61).
THEOREM FramingIsAlwaysKept == Spec => []FramingIsKept
<1>1. ASSUME IInv, serverPc = "recvSize", toServer[sock] # <<>>,
             ~ IsSize(Head(toServer[sock])), sock \notin cut
      PROVE  FALSE
  <2>1. sock \in Clients
    BY <1>1 DEF IInv, ServesSock
  <2>2. toServer[sock] \in Seq(Piece)
    BY <1>1, <2>1 DEF IInv, TypeOK
  <2>3. ~ IsSize(toServer[sock][1])
    BY <1>1, <2>2, TailPieces
  <2>4. RequestIsFramed(sock)
    BY <1>1, <2>1 DEF IInv, RequestsAreFramed
  <2> QED
    BY <1>1, <2>3, <2>4 DEF RequestIsFramed
<1>2. IInv => FramingIsKept
  BY <1>1 DEF FramingIsKept
<1> QED
  BY <1>2, WireInvariant, PTL

\* What is not saved when a request is executed is its own client's, which
\* has not been served before, or whose message was cut.
LEMMA ExecuteIsExecute ==
    ASSUME IInv, Execute \/ RecvBodyReset, executed' # executed
    PROVE  S!Execute(sock)
<1>1. /\ sock \in Clients
      /\ executed' = Append(executed, sock) /\ cut' \in {cut, cut \cup {sock}}
      /\ UNCHANGED <<printed, saved>>
  BY DEF Execute, RecvBodyReset, IInv, ServesSock, clientVars
<1>2. \A k \in 1 .. Len(executed) : k > saved => executed[k] = sock
  BY DEF IInv, OnlyOwnWorkIsUnsaved, Positions
<1>3. (\A k \in 1 .. Len(executed) : executed[k] # sock) \/ sock \in cut'
  <2>1. CASE Execute
    <3>1. CASE sock \in cut
      BY <2>1, <3>1 DEF Execute
    <3>2. CASE sock \notin cut
      <4>1. RequestIsFramed(sock) /\ serverPc = "execute"
        BY <1>1, <2>1, <3>2 DEF IInv, RequestsAreFramed, Execute
      <4> QED
        BY <4>1 DEF RequestIsFramed, Served, Positions
    <3> QED
      BY <3>1, <3>2
  <2>2. CASE RecvBodyReset
    BY <2>2 DEF RecvBodyReset
  <2> QED
    BY <2>1, <2>2
<1> QED
  BY <1>1, <1>2, <1>3 DEF S!Execute

\* A client prints the answer to its own request, once, or no answer.
LEMMA RecvIsAnswer ==
    ASSUME IInv, NEW c \in Clients, RecvAnswerBody(c)
    PROVE  S!Answer(c) \/ UNCHANGED <<executed, printed, cut, saved>>
<1>1. /\ toClient[c] \in Seq(Piece) /\ clientSize[c] \in Nat
      /\ clientPc[c] = "recvBody"
      /\ printed \in [Clients -> Nat]
  BY DEF IInv, TypeOK, RecvAnswerBody
<1>2. PICK k \in Received(toClient[c], clientSize[c]) :
         printed' = [printed EXCEPT ![c] = Head(toClient[c]).answers]
  BY DEF RecvAnswerBody
<1>3. 1 \in 1 .. Len(toClient[c]) /\ Head(toClient[c]) = toClient[c][1]
  BY <1>1, UnreadPieces
<1>4. AnswerKeepsOrder(c)
  BY DEF IInv, AnswersKeepOrder
<1>5. Head(toClient[c]).answers # 0 =>
         /\ Head(toClient[c]).answers \in Positions
         /\ executed[Head(toClient[c]).answers] = c
  BY <1>3, <1>4 DEF AnswerKeepsOrder
<1>6. printed[c] = 0
  BY <1>1, <1>4 DEF AnswerKeepsOrder
<1>7. UNCHANGED <<executed, cut, saved>>
  BY DEF RecvAnswerBody, serverVars
<1>8. CASE Head(toClient[c]).answers = 0
  <2>1. printed' = printed
    BY <1>1, <1>2, <1>6, <1>8
  <2> QED
    BY <1>7, <2>1
<1>9. CASE Head(toClient[c]).answers # 0
  BY <1>2, <1>5, <1>6, <1>7, <1>9 DEF S!Answer, Positions
<1> QED
  BY <1>8, <1>9

\* Every step of clients and server is a step of Service or none.
LEMMA WireRefines ==
    ASSUME IInv, [Next]_vars
    PROVE  [S!Next]_<<executed, printed, cut, saved>>
<1>1. CASE Execute \/ RecvBodyReset
  <2>1. sock \in Clients /\ UNCHANGED <<printed, saved>>
        /\ cut' \in {cut, cut \cup {sock}}
    BY <1>1 DEF IInv, Execute, RecvBodyReset, ServesSock, clientVars
  <2>2. CASE executed' # executed
    BY <1>1, <2>1, <2>2, ExecuteIsExecute DEF S!Next
  <2>3. CASE executed' = executed
    BY <2>1, <2>3 DEF S!Next, S!Cut
  <2> QED
    BY <2>2, <2>3
<1>2. CASE RecvSizePart \/ RecvGarbage \/ RecvBody
  <2>1. /\ sock \in Clients /\ UNCHANGED <<executed, printed, saved>>
        /\ cut' \in {cut, cut \cup {sock}}
    BY <1>2 DEF IInv, RecvSizePart, RecvGarbage, RecvBody, ServesSock, clientVars
  <2> QED
    BY <2>1 DEF S!Next, S!Cut
<1>3. CASE Finish
  BY <1>3 DEF Finish, clientVars, S!Next, S!Save
<1>4. ASSUME NEW c \in Clients, RecvAnswerBody(c)
      PROVE  [S!Next]_<<executed, printed, cut, saved>>
  BY <1>4, RecvIsAnswer DEF S!Next
<1>5. ASSUME NEW c \in Clients, ClientStep(c) \/ Environment(c), ~ RecvAnswerBody(c)
      PROVE  UNCHANGED <<executed, printed, cut, saved>>
  BY <1>5 DEF ClientStep, Environment, serverVars, SendRequestBody, RecvAnswerSize,
     RecvAnswerSizePart, RecvAnswerSizeEnds, RecvAnswerBodyEnds, Connect,
     ConnectFails, SyntaxError, SendRequestSize, Die
<1>6. CASE \/ Accept \/ RecvSize \/ RecvSizeEnds \/ RecvBodyEnds \/ ExecuteNothing
           \/ ExecuteAborts \/ SendAnswerSize \/ SendAnswerBody \/ SendAnswerKills
  BY <1>6 DEF clientVars, Accept, RecvSize, RecvSizeEnds, RecvBodyEnds,
     ExecuteNothing, ExecuteAborts, SendAnswerSize, SendAnswerBody, SendAnswerKills
<1>7. CASE UNCHANGED vars
  BY <1>7 DEF vars, clientVars, serverVars
<1> QED
  BY <1>1, <1>2, <1>3, <1>4, <1>5, <1>6, <1>7 DEF Next, ServerStep

\* Clients and server implement Service: requests are executed one client at
\* a time, and at most once unless they were cut, answers go to their own
\* client, and what one has done is saved before the next begins.
THEOREM WireImplementsService == Spec => ImplementsService
<1>1. Init => S!Init
  BY DEF Init, S!Init
<1>2. IInv /\ [Next]_vars => [S!Next]_<<executed, printed, cut, saved>>
  BY WireRefines
<1> QED
  BY <1>1, <1>2, WireInvariant, PTL DEF Spec, ImplementsService, S!Spec
=============================================================================
