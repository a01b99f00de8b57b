------------------------------ MODULE WireInv ------------------------------
(***************************************************************************)
(* What clients and server may rely on, and the mapping that shows that    *)
(* the server implements Service.                                          *)
(***************************************************************************)
EXTENDS Wire, FiniteSets

Piece == [size : Nat, answers : Nat]

\* Every variable has its type.
TypeOK ==
    /\ clientPc \in [Clients -> ClientSteps]
    /\ clientSize \in [Clients -> Nat]
    /\ printed \in [Clients -> Nat]
    /\ backlog \in Seq(Clients)
    /\ toServer \in [Clients -> Seq(Piece)]
    /\ toClient \in [Clients -> Seq(Piece)]
    /\ serverPc \in ServerSteps
    /\ sock \in Clients \cup {NoClient}
    /\ msgSize \in Nat
    /\ cut \in SUBSET Clients
    /\ executed \in Seq(Clients)
    /\ answer \in Nat
    /\ saved \in Nat

Positions == 1 .. Len(executed)

-----------------------------------------------------------------------------
\* The server saves what a request did before it executes another's: when it
\* is killed, what only its memory knew is what the client it was serving
\* had asked for.
OnlyOwnWorkIsUnsaved ==
    \A k \in Positions : k > saved => executed[k] = sock

\* The framing is lost with a cut message only: a server that expects a size
\* finds one, unless a recv has returned less of that client's message than
\* it was asked for, of the size or of the body.
FramingIsKept ==
    serverPc = "recvSize" /\ toServer[sock] # <<>>
        /\ ~ IsSize(Head(toServer[sock])) => sock \in cut

-----------------------------------------------------------------------------
\* The server waits for a request that its user has not typed yet.
WaitsForUser ==
    serverPc = "recvSize" /\ sock # NoClient /\ clientPc[sock] = "type"

Waiting(c) == clientPc[c] \in {"sendBody", "recvSize", "recvBody"}

\* A client that has a request out ends, answered or not, whatever dies in
\* the meantime, unless the server is stuck with a silent client for ever.
ClientsEnd ==
    []<> ~ WaitsForUser => \A c \in Clients : Waiting(c) ~> Gone(c)

\* A server that lives saves whatever it has executed, under the same
\* condition.
WorkIsSaved ==
    []<> ~ WaitsForUser =>
        \A k \in 1 .. Cardinality(Clients) :
            Len(executed) = k ~> saved >= k \/ serverPc = "killed"

-----------------------------------------------------------------------------
\* The abstract server: who has been served, in which order.
S == INSTANCE Service

ImplementsService == S!Spec

-----------------------------------------------------------------------------
(* The inductive invariant behind the refinement.                          *)

Served(c) == \E k \in Positions : executed[k] = c

\* The server serves a client whenever it is not accepting, and the answer it
\* is about to send is that client's.
ServesSock ==
    /\ saved <= Len(executed)
    /\ serverPc = "accept" => sock = NoClient
    /\ serverPc \notin {"accept", "killed"} => sock \in Clients
    /\ serverPc \in {"sendSize", "sendBody"} /\ answer # 0 =>
          answer \in Positions /\ executed[answer] = sock

Sizeless(stream) == \A k \in 1 .. Len(stream) : ~ IsSize(stream[k])

\* One size, in front, until some of it has been read.
RequestKeepsOrder(c) ==
    /\ clientPc[c] \in {"start", "type"} => toServer[c] = <<>>
    /\ \A k \in 2 .. Len(toServer[c]) : ~ IsSize(toServer[c][k])
    /\ (Served(c) \/ c \in cut \/ (sock = c /\ serverPc \in {"recvBody", "execute"})) =>
          clientPc[c] \notin {"start", "type"} /\ Sizeless(toServer[c])

RequestsKeepOrder == \A c \in Clients : RequestKeepsOrder(c)

\* A body is as long as the size sent before it says, so that nothing is left
\* when all of it has been received.
RequestIsFramed(c) ==
    /\ clientPc[c] = "sendBody" =>
          /\ clientSize[c] # 0
          /\ \/ toServer[c] = <<SizePiece(clientSize[c])>>
             \/ toServer[c] = <<>> /\ serverPc = "killed"
             \/ /\ toServer[c] = <<>>
                /\ sock = c /\ serverPc = "recvBody" /\ msgSize = clientSize[c]
    /\ toServer[c] # <<>> /\ IsSize(toServer[c][1]) =>
          Len(toServer[c]) <= toServer[c][1].size + 1
    /\ toServer[c] # <<>> /\ ~ IsSize(toServer[c][1]) =>
          serverPc = "killed" \/ (sock = c /\ serverPc = "recvBody")
    /\ sock = c /\ serverPc = "recvBody" =>
          /\ Len(toServer[c]) <= msgSize
          /\ Served(c) => toServer[c] = <<>> /\ Gone(c)
    /\ sock = c /\ serverPc = "execute" => ~ Served(c)

RequestsAreFramed == \A c \in Clients \ cut : RequestIsFramed(c)

\* The answers sent to a client are to its own request, and it prints one.
AnswerKeepsOrder(c) ==
    /\ \A k \in 1 .. Len(toClient[c]) :
          toClient[c][k].answers # 0 =>
              /\ toClient[c][k].answers \in Positions
              /\ executed[toClient[c][k].answers] = c
    /\ printed[c] # 0 => clientPc[c] = "ended"

AnswersKeepOrder == \A c \in Clients : AnswerKeepsOrder(c)

IInv ==
    /\ TypeOK
    /\ OnlyOwnWorkIsUnsaved
    /\ ServesSock
    /\ RequestsKeepOrder
    /\ RequestsAreFramed
    /\ AnswersKeepOrder
=============================================================================
