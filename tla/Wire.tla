-------------------------------- MODULE Wire --------------------------------
(***************************************************************************)
(* Clients (zpathClient/main.c) and the server (zgdbServer/main.c) on TCP. *)
(* A message is its size followed by its body.  A client sends one request *)
(* and prints one answer.  The server takes one connection after the other *)
(* from the kernel's queue; between accept and close it opens the file,    *)
(* answers until recv reports the end, and saves the file.                 *)
(*                                                                         *)
(* A direction of a connection is the sequence of the pieces its reader    *)
(* has not read: the size, and the parts of the body that the network may  *)
(* deliver one by one.  recv blocks on an open and empty direction, and    *)
(* returns any of the parts that have been sent: how many have arrived is  *)
(* the network's choice.  It may cut a size inside its four bytes, too:    *)
(* the rest is then in front of the body, as parts that say nothing.       *)
(* A client may die at any step; so may the server where the code lets it. *)
(* What the requests do is not modelled here: an answer is the number of   *)
(* the request it answers, 0 when it answers none.                         *)
(***************************************************************************)
EXTENDS Naturals, Sequences

CONSTANTS
    Clients,
    NoClient,
    BACKLOG,       \* listen(listener, 1): the kernel queues BACKLOG + 1
    RequestParts,  \* in how many parts the network may cut a request
    AnswerParts,   \* and an answer
    RestParts,     \* and the rest of a size that was cut
    OtherSizes     \* what msgSize may be when not all its bytes are new

ASSUME WireAssumption ==
    /\ NoClient \notin Clients
    /\ BACKLOG \in Nat
    /\ RequestParts \subseteq Nat \ {0}
    /\ AnswerParts \subseteq Nat \ {0}
    /\ RestParts \subseteq Nat \ {0}
    /\ OtherSizes \subseteq Nat

VARIABLES
    clientPc,    \* where each client is
    clientSize,  \* its msgSize once it has received that of the answer
    printed,     \* the answer it prints
    backlog,     \* connected, not accepted yet
    toServer,    \* what each client has sent and the server not read
    toClient,    \* and the other way round
    serverPc,    \* where the server is
    sock,        \* the client it serves
    msgSize,     \* its local of that name, in parts
    cut,         \* the clients of whom a recv returned less than it asked for
    executed,    \* whose requests have been executed
    answer,      \* which of them the answer to be sent answers
    saved        \* how many of them were executed before the last finish()

clientVars == <<clientPc, clientSize, printed>>
serverVars == <<serverPc, sock, msgSize, cut, executed, answer, saved>>
vars == <<clientVars, backlog, toServer, toClient, serverVars>>

\* "type": yyparse waits for the user; "ended" and "dead" have closed.
ClientSteps ==
    {"start", "type", "sendBody", "recvSize", "recvBody", "ended", "dead"}

ServerSteps ==
    {"accept", "recvSize", "recvBody", "execute", "sendSize", "sendBody",
     "finish", "killed"}

\* Mutant: the size does not count the last three parts.
ShortSizePiece(n) == [size |-> n - 3, answers |-> 0]

SizePiece(n) == [size |-> n, answers |-> 0]

BodyPart(v) == [size |-> 0, answers |-> v]

IsSize(piece) == piece.size # 0

Body(n, v) == [k \in 1 .. n |-> BodyPart(v)]

\* What is left of a size cut inside its four bytes, and the stream behind it.
RestOfSize(n, stream) == Body(n, 0) \o Tail(stream)

Gone(c) == clientPc[c] \in {"ended", "dead"}

\* The server has closed c's connection, or its death has.
Hangup(c) ==
    \/ serverPc = "killed"
    \/ sock # c /\ \A k \in 1 .. Len(backlog) : backlog[k] # c

\* What a recv of at most n parts may return: at least one, not all of them
\* need have arrived.
Received(stream, n) == {k \in 1 .. n : k <= Len(stream)}

Unread(stream, k) == SubSeq(stream, k + 1, Len(stream))

Init ==
    /\ clientPc = [c \in Clients |-> "start"]
    /\ clientSize = [c \in Clients |-> 0]
    /\ printed = [c \in Clients |-> 0]
    /\ backlog = <<>>
    /\ toServer = [c \in Clients |-> <<>>]
    /\ toClient = [c \in Clients |-> <<>>]
    /\ serverPc = "accept"
    /\ sock = NoClient
    /\ msgSize = 0
    /\ cut = {}
    /\ executed = <<>>
    /\ answer = 0
    /\ saved = 0

-----------------------------------------------------------------------------
(* A client.                                                               *)

GotoC(c, step) == clientPc' = [clientPc EXCEPT ![c] = step]

Connect(c) ==
    /\ clientPc[c] = "start"
    /\ serverPc # "killed"
    /\ Len(backlog) <= BACKLOG
    /\ backlog' = Append(backlog, c)
    /\ GotoC(c, "type")
    /\ UNCHANGED <<clientSize, printed, toServer, toClient, serverVars>>

\* exit(2) without a server.
ConnectFails(c) ==
    /\ clientPc[c] = "start"
    /\ serverPc = "killed"
    /\ GotoC(c, "ended")
    /\ UNCHANGED <<clientSize, printed, backlog, toServer, toClient, serverVars>>

\* yyparse rejects the input.
SyntaxError(c) ==
    /\ clientPc[c] = "type"
    /\ GotoC(c, "ended")
    /\ UNCHANGED <<clientSize, printed, backlog, toServer, toClient, serverVars>>

\* Mutant: the size does not count the last part.
SendShorterSize(c, n) ==
    /\ clientPc[c] = "type"
    /\ toServer' = [toServer EXCEPT ![c] =
                       Append(@, SizePiece(IF n > 1 THEN n - 1 ELSE n))]
    /\ clientSize' = [clientSize EXCEPT ![c] = n]
    /\ GotoC(c, "sendBody")
    /\ UNCHANGED <<printed, backlog, toClient, serverVars>>

SendRequestSize(c, n) ==
    /\ clientPc[c] = "type"
    /\ toServer' = [toServer EXCEPT ![c] = Append(@, SizePiece(n))]
    /\ clientSize' = [clientSize EXCEPT ![c] = n]
    /\ GotoC(c, "sendBody")
    /\ UNCHANGED <<printed, backlog, toClient, serverVars>>

SendRequestBody(c) ==
    /\ clientPc[c] = "sendBody"
    /\ toServer' = [toServer EXCEPT ![c] = @ \o Body(clientSize[c], 0)]
    /\ GotoC(c, "recvSize")
    /\ UNCHANGED <<clientSize, printed, backlog, toClient, serverVars>>

RecvAnswerSize(c) ==
    /\ clientPc[c] = "recvSize"
    /\ toClient[c] # <<>>
    /\ clientSize' = [clientSize EXCEPT ![c] = Head(toClient[c]).size]
    /\ toClient' = [toClient EXCEPT ![c] = Tail(@)]
    /\ GotoC(c, "recvBody")
    /\ UNCHANGED <<printed, backlog, toServer, serverVars>>

\* recv returned one to three of the four bytes.
RecvAnswerSizePart(c) ==
    /\ clientPc[c] = "recvSize"
    /\ toClient[c] # <<>>
    /\ \E n \in OtherSizes : clientSize' = [clientSize EXCEPT ![c] = n]
    /\ \E n \in RestParts :
          toClient' = [toClient EXCEPT ![c] = RestOfSize(n, @)]
    /\ GotoC(c, "recvBody")
    /\ UNCHANGED <<printed, backlog, toServer, serverVars>>

\* recv returned 0, or -1 after a reset: bytes_read is a size_t, for which
\* -1 is not <= 0, so the client goes on to the next recv, which returns 0.
RecvAnswerSizeEnds(c) ==
    /\ clientPc[c] = "recvSize"
    /\ toClient[c] = <<>>
    /\ Hangup(c)
    /\ \E step \in {"ended", "recvBody"} : GotoC(c, step)
    /\ UNCHANGED <<clientSize, printed, backlog, toServer, toClient, serverVars>>

\* What begins with the rest of a size is no answer.
RecvAnswerBody(c) ==
    /\ clientPc[c] = "recvBody"
    /\ \E k \in Received(toClient[c], clientSize[c]) :
          /\ printed' = [printed EXCEPT ![c] = Head(toClient[c]).answers]
          /\ toClient' = [toClient EXCEPT ![c] = Unread(@, k)]
    /\ GotoC(c, "ended")
    /\ UNCHANGED <<clientSize, backlog, toServer, serverVars>>

\* Mutant: recv is called again when it returns nothing.
RecvAnswerBodyAgain(c) ==
    /\ clientPc[c] = "recvBody"
    /\ toClient[c] = <<>>
    /\ Hangup(c)
    /\ UNCHANGED vars

\* A recv of no bytes returns 0, too.
RecvAnswerBodyEnds(c) ==
    /\ clientPc[c] = "recvBody"
    /\ \/ toClient[c] = <<>> /\ Hangup(c)
       \/ toClient[c] # <<>> /\ clientSize[c] = 0
    /\ GotoC(c, "ended")
    /\ UNCHANGED <<clientSize, printed, backlog, toServer, toClient, serverVars>>

\* The client is killed, or a send to a dead server raises SIGPIPE.
Die(c) ==
    /\ clientPc[c] \in ClientSteps \ {"start", "ended", "dead"}
    /\ GotoC(c, "dead")
    /\ UNCHANGED <<clientSize, printed, backlog, toServer, toClient, serverVars>>

-----------------------------------------------------------------------------
(* The server.                                                             *)

\* accept and init.
Accept ==
    /\ serverPc = "accept"
    /\ backlog # <<>>
    /\ sock' = Head(backlog)
    /\ backlog' = Tail(backlog)
    /\ msgSize' = 0
    /\ serverPc' = "recvSize"
    /\ UNCHANGED <<clientVars, toServer, toClient, cut, executed, answer, saved>>

RecvSize ==
    /\ serverPc = "recvSize"
    /\ toServer[sock] # <<>>
    /\ IsSize(Head(toServer[sock]))
    /\ msgSize' = Head(toServer[sock]).size
    /\ toServer' = [toServer EXCEPT ![sock] = Tail(@)]
    /\ serverPc' = "recvBody"
    /\ UNCHANGED <<clientVars, backlog, toClient, sock, cut, executed, answer,
                   saved>>

\* recv returned one to three of the four bytes: the others of msgSize are
\* what they were.
RecvSizePart ==
    /\ serverPc = "recvSize"
    /\ toServer[sock] # <<>>
    /\ IsSize(Head(toServer[sock]))
    /\ msgSize' \in OtherSizes
    /\ \E n \in RestParts :
          toServer' = [toServer EXCEPT ![sock] = RestOfSize(n, @)]
    /\ cut' = cut \cup {sock}
    /\ serverPc' = "recvBody"
    /\ UNCHANGED <<clientVars, backlog, toClient, sock, executed, answer, saved>>

\* The rest of a body is taken for a size.  Four characters of XML as an int
\* are a number in the hundreds of millions, and the array buf overflows the
\* stack; fewer change the low bytes of msgSize only.
RecvGarbage ==
    /\ serverPc = "recvSize"
    /\ toServer[sock] # <<>>
    /\ ~ IsSize(Head(toServer[sock]))
    /\ \/ serverPc' = "killed" /\ UNCHANGED <<toServer, msgSize, cut>>
       \/ /\ msgSize' \in OtherSizes
          /\ toServer' = [toServer EXCEPT ![sock] = Tail(@)]
          /\ cut' = cut \cup {sock}
          /\ serverPc' = "recvBody"
    /\ UNCHANGED <<clientVars, backlog, toClient, sock, executed, answer, saved>>

\* Mutant: the connection is closed without finish().
CloseUnsaved ==
    /\ serverPc = "recvSize"
    /\ toServer[sock] = <<>>
    /\ Gone(sock)
    /\ serverPc' = "accept"
    /\ sock' = NoClient
    /\ UNCHANGED <<clientVars, backlog, toServer, toClient, msgSize, cut,
                   executed, answer, saved>>

\* Mutant: recv is called again when it returns nothing.
RecvSizeAgain ==
    /\ serverPc = "recvSize"
    /\ toServer[sock] = <<>>
    /\ Gone(sock)
    /\ toClient[sock] # <<>> /\ serverPc' = "recvBody"
    /\ UNCHANGED <<clientVars, backlog, toServer, toClient, sock, msgSize, cut,
                   executed, answer, saved>>

\* recv returns 0 when the client has closed.  When it closed without reading
\* all it was sent, or was sent something afterwards, a reset makes it -1,
\* once, which does not end the loop; what was sent is lost.
RecvSizeEnds ==
    /\ serverPc = "recvSize"
    /\ toServer[sock] = <<>>
    /\ Gone(sock)
    /\ \/ serverPc' = "finish" /\ UNCHANGED toClient
       \/ /\ toClient[sock] # <<>>
          /\ toClient' = [toClient EXCEPT ![sock] = <<>>]
          /\ serverPc' = "recvBody"
    /\ UNCHANGED <<clientVars, backlog, toServer, sock, msgSize, cut, executed,
                   answer, saved>>

RecvBody ==
    /\ serverPc = "recvBody"
    /\ \E k \in Received(toServer[sock], msgSize) :
          /\ cut' = IF k = msgSize THEN cut ELSE cut \cup {sock}
          /\ toServer' = [toServer EXCEPT ![sock] = Unread(@, k)]
    /\ serverPc' = "execute"
    /\ UNCHANGED <<clientVars, backlog, toClient, sock, msgSize, executed,
                   answer, saved>>

\* Mutant: the result of recv is not looked at.
RecvBodyUnchecked ==
    /\ serverPc = "recvBody"
    /\ toServer[sock] = <<>>
    /\ Gone(sock)
    /\ serverPc' = "execute"
    /\ UNCHANGED <<clientVars, backlog, toServer, toClient, sock, msgSize, cut,
                   executed, answer, saved>>

\* The client has closed, or recv is asked for no bytes.
RecvBodyEnds ==
    /\ serverPc = "recvBody"
    /\ \/ toServer[sock] = <<>> /\ Gone(sock)
       \/ toServer[sock] # <<>> /\ msgSize = 0
    /\ serverPc' = "finish"
    /\ UNCHANGED <<clientVars, backlog, toServer, toClient, sock, msgSize, cut,
                   executed, answer, saved>>

\* A reset makes recv return -1, which is no end.  buf is what the stack has
\* kept: no request, or the last one again.  Then send raises SIGPIPE.
RecvBodyReset ==
    /\ serverPc = "recvBody"
    /\ toServer[sock] = <<>>
    /\ Gone(sock)
    /\ toClient[sock] # <<>>
    /\ executed' \in {executed, Append(executed, sock)}
    /\ cut' = cut \cup {sock}
    /\ serverPc' = "killed"
    /\ UNCHANGED <<clientVars, backlog, toServer, toClient, sock, msgSize,
                   answer, saved>>

\* A part of a request is executed like a whole one (XML_PARSE_RECOVER).
Execute ==
    /\ serverPc = "execute"
    /\ sock \in cut => \A k \in 1 .. Len(executed) : executed[k] # sock
    /\ executed' = Append(executed, sock)
    /\ answer' = Len(executed) + 1
    /\ serverPc' = "sendSize"
    /\ UNCHANGED <<clientVars, backlog, toServer, toClient, sock, msgSize, cut,
                   saved>>

\* A part without the root of a request has no "type": an answer without
\* content is sent.
ExecuteNothing ==
    /\ serverPc = "execute"
    /\ sock \in cut
    /\ answer' = 0
    /\ serverPc' = "sendSize"
    /\ UNCHANGED <<clientVars, backlog, toServer, toClient, sock, msgSize, cut,
                   executed, saved>>

\* The request dereferences NULL (Abort in FindIf, GrowTextAborts in
\* ZgdbStore, aborted in XmlRequest).
ExecuteAborts ==
    /\ serverPc = "execute"
    /\ serverPc' = "killed"
    /\ UNCHANGED <<clientVars, backlog, toServer, toClient, sock, msgSize, cut,
                   executed, answer, saved>>

SendAnswerSize ==
    /\ serverPc = "sendSize"
    /\ \E n \in AnswerParts :
          /\ msgSize' = n
          /\ toClient' = [toClient EXCEPT ![sock] = Append(@, SizePiece(n))]
    /\ serverPc' = "sendBody"
    /\ UNCHANGED <<clientVars, backlog, toServer, sock, cut, executed, answer,
                   saved>>

SendAnswerBody ==
    /\ serverPc = "sendBody"
    /\ toClient' = [toClient EXCEPT ![sock] = @ \o Body(msgSize, answer)]
    /\ serverPc' = "recvSize"
    /\ UNCHANGED <<clientVars, backlog, toServer, sock, msgSize, cut, executed,
                   answer, saved>>

\* What was sent to a closed connection before has been answered by a reset:
\* the next send raises SIGPIPE.
SendAnswerKills ==
    /\ serverPc \in {"sendSize", "sendBody"}
    /\ Gone(sock)
    /\ toClient[sock] # <<>>
    /\ serverPc' = "killed"
    /\ UNCHANGED <<clientVars, backlog, toServer, toClient, sock, msgSize, cut,
                   executed, answer, saved>>

\* finish and close.
Finish ==
    /\ serverPc = "finish"
    /\ saved' = Len(executed)
    /\ sock' = NoClient
    /\ serverPc' = "accept"
    /\ UNCHANGED <<clientVars, backlog, toServer, toClient, msgSize, cut,
                   executed, answer>>

-----------------------------------------------------------------------------
\* What a client's program does by itself, once its user has typed.
ClientStep(c) ==
    \/ SendRequestBody(c)
    \/ RecvAnswerSize(c) \/ RecvAnswerSizePart(c) \/ RecvAnswerSizeEnds(c)
    \/ RecvAnswerBody(c) \/ RecvAnswerBodyEnds(c)

\* What users, signals and the network do.
Environment(c) ==
    \/ Connect(c) \/ ConnectFails(c)
    \/ SyntaxError(c) \/ \E n \in RequestParts : SendRequestSize(c, n)
    \/ Die(c)

ServerStep ==
    \/ Accept
    \/ RecvSize \/ RecvSizePart \/ RecvGarbage \/ RecvSizeEnds
    \/ RecvBody \/ RecvBodyEnds \/ RecvBodyReset
    \/ Execute \/ ExecuteNothing \/ ExecuteAborts
    \/ SendAnswerSize \/ SendAnswerBody \/ SendAnswerKills
    \/ Finish

Next ==
    \/ \E c \in Clients : ClientStep(c) \/ Environment(c)
    \/ ServerStep

Spec == Init /\ [][Next]_vars

\* The programs run, and what has been sent arrives; nothing is asked of the
\* users.
FairSpec ==
    /\ Spec
    /\ WF_vars(ServerStep)
    /\ \A c \in Clients : WF_vars(ClientStep(c))
=============================================================================
