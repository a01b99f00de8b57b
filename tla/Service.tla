------------------------------ MODULE Service ------------------------------
(***************************************************************************)
(* What the server promises its clients, whatever the network and the      *)
(* other clients do: requests are executed one client at a time, each at   *)
(* most once unless the network has cut it, and the answer a client gets   *)
(* is the one to its own request.  What one client's request has done is   *)
(* saved before another's begins.                                          *)
(***************************************************************************)
EXTENDS Naturals, Sequences

CONSTANT Clients

VARIABLES
    executed,  \* whose requests have been executed, in this order
    printed,   \* the position in it of the request a client got answered
    cut,       \* the clients whose messages the network has cut
    saved      \* how many of the executed finish() has saved

Init ==
    /\ executed = <<>>
    /\ printed = [c \in Clients |-> 0]
    /\ cut = {}
    /\ saved = 0

Cut(c) ==
    /\ cut' = cut \cup {c}
    /\ UNCHANGED <<executed, printed, saved>>

Execute(c) ==
    /\ \A k \in 1 .. Len(executed) : k > saved => executed[k] = c
    /\ (\A k \in 1 .. Len(executed) : executed[k] # c) \/ c \in cut'
    /\ executed' = Append(executed, c)
    /\ cut' \in {cut, cut \cup {c}}
    /\ UNCHANGED <<printed, saved>>

Answer(c) ==
    /\ printed[c] = 0
    /\ \E k \in 1 .. Len(executed) :
          /\ executed[k] = c
          /\ printed' = [printed EXCEPT ![c] = k]
    /\ UNCHANGED <<executed, cut, saved>>

Save ==
    /\ saved' = Len(executed)
    /\ UNCHANGED <<executed, printed, cut>>

Next == Save \/ \E c \in Clients : Cut(c) \/ Execute(c) \/ Answer(c)

Spec == Init /\ [][Next]_<<executed, printed, cut, saved>>
=============================================================================
