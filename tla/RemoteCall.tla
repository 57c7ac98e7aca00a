----------------------------- MODULE RemoteCall -----------------------------
(***************************************************************************)
(* What rpcCall promises its callers: the handler runs once on the server  *)
(* that is called, at one moment between the call and its return, and the  *)
(* call returns what that run of the handler answered.  A call may never   *)
(* return.  Locofs and FileData take a remote call to be one such step.    *)
(***************************************************************************)
EXTENDS Naturals, Sequences

CONSTANTS Clients, Servers,
          Nobody              \* the peer of a client that does not call

VARIABLES call,     \* what each client waits for
          ran,      \* clients whose handlers a server ran, in order
          result    \* what the last call of each client returned

vars == <<call, ran, result>>

NotYet == 0                                       \* no answer so far
NoCall == [peer |-> Nobody, answer |-> NotYet]

Init == /\ call = [c \in Clients |-> NoCall]
        /\ ran = [s \in Servers |-> <<>>]
        /\ result = [c \in Clients |-> NotYet]

Ask(c, s) == /\ call[c].peer = Nobody
             /\ call' = [call EXCEPT ![c] = [peer |-> s, answer |-> NotYet]]
             /\ UNCHANGED <<ran, result>>

\* An answer tells at which place in the order of all handlers it was given.
Run(c) == /\ call[c].peer # Nobody /\ call[c].answer = NotYet
          /\ LET s == call[c].peer
             IN  /\ ran' = [ran EXCEPT ![s] = Append(@, c)]
                 /\ call' = [call EXCEPT ![c] = [peer |-> s, answer |-> Len(ran[s]) + 1]]
          /\ UNCHANGED result

Return(c) == /\ call[c].peer # Nobody /\ call[c].answer # NotYet
             /\ result' = [result EXCEPT ![c] = call[c].answer]
             /\ call' = [call EXCEPT ![c] = NoCall]
             /\ UNCHANGED ran

Next == \E c \in Clients : Run(c) \/ Return(c) \/ \E s \in Servers : Ask(c, s)

Spec == Init /\ [][Next]_vars
=============================================================================
