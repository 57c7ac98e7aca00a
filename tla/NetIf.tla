------------------------------- MODULE NetIf --------------------------------
(***************************************************************************)
(* The RPC layer (network/netif.hpp, netif.cpp) over the vendored eRPC,    *)
(* and the main programs of the servers (fs/DMServer.cpp, FMServer.cpp)    *)
(* as far as they start and stop it.                                       *)
(*                                                                         *)
(* A client connects to all servers, one after the other, before anything  *)
(* else; then its thread makes one call at a time.  So slot 0 is the only  *)
(* one of locks, and a session has one request in progress.  Packets may   *)
(* be lost, delayed, duplicated and reordered: a packet that is not lost   *)
(* stays in net and may arrive at any time, and again.  Every packet is    *)
(* small: a message is one packet.                                         *)
(***************************************************************************)
EXTENDS Naturals, Sequences

CONSTANTS Clients, Servers,   \* node ids
          Nobody,             \* no call
          MaxCalls            \* bound on the calls of a client to a server

ASSUME IdAssumption == Clients \cup Servers \subseteq Nat /\ Nobody \notin Servers
ASSUME BoundAssumption == MaxCalls \in Nat

\* A client makes sessions with the servers that have lower ids only, and
\* rpcCall would use an uninitialized session number for any other.
ASSUME ServersFirst == \A c \in Clients, s \in Servers : s < c

VARIABLES stage,      \* how far the main program of a server is
          shouldRun,
          joined,     \* conn_req_token_map: clients with a session, per server
          srvReq,     \* cur_req_num at the server, per session
          reply,      \* the response to that request
          ran,        \* (history) clients whose handlers a server ran
          state,      \* of a client: start, connecting, up, dead
          peer,       \* the server it connects to
          sessions,   \* servers it has a connected session with
          cliReq,     \* cur_req_num at the client, per session
          call,       \* the server of the rpcCall in progress
          completed,  \* locks[0].completed
          respBuf,    \* locks[0].respBuf
          result,     \* what the last rpcCall returned
          net         \* packets

srvVars == <<stage, shouldRun, joined, srvReq, reply, ran>>
conVars == <<state, peer, sessions>>
callVars == <<cliReq, call, completed, respBuf, result>>
vars == <<srvVars, conVars, callVars, net>>

Session(type, c, s)      == [type |-> type, c |-> c, s |-> s]
Request(c, s, n)         == [type |-> "req", c |-> c, s |-> s, n |-> n]
Response(c, s, n, value) == [type |-> "resp", c |-> c, s |-> s, n |-> n, value |-> value]

Packets == [type : {"connect", "refused", "accepted"}, c : Clients, s : Servers]
           \cup [type : {"req"}, c : Clients, s : Servers, n : Nat]
           \cup [type : {"resp"}, c : Clients, s : Servers, n : Nat, value : Nat]

\* shouldRun and completed are not initialized, nor is what respBuf holds.
Init == /\ stage = [s \in Servers |-> "start"]
        /\ shouldRun \in [Servers -> BOOLEAN]
        /\ joined = [s \in Servers |-> {}]
        /\ srvReq = [s \in Servers |-> [c \in Clients |-> 0]]
        /\ reply = [s \in Servers |-> [c \in Clients |-> 0]]
        /\ ran = [s \in Servers |-> <<>>]
        /\ state = [c \in Clients |-> "start"]
        /\ peer = [c \in Clients |-> Nobody]
        /\ sessions = [c \in Clients |-> {}]
        /\ cliReq = [c \in Clients |-> [s \in Servers |-> 0]]
        /\ call = [c \in Clients |-> Nobody]
        /\ completed \in [Clients -> BOOLEAN]
        /\ respBuf = [c \in Clients |-> 0]
        /\ result = [c \in Clients |-> 0]
        /\ net = {}

\* The packet may be lost.
Send(p) == net' \in {net, net \cup {p}}

-----------------------------------------------------------------------------
(* The main program of a server.                                           *)

\* Nexus, Rpc and the end of the constructor, after which netif is assigned.
Launched == [start |-> "nexus", nexus |-> "rpc", rpc |-> "made"]

Launch(s) ==
    /\ stage[s] \in DOMAIN Launched
    /\ stage' = [stage EXCEPT ![s] = Launched[@]]
    /\ UNCHANGED <<shouldRun, joined, srvReq, reply, ran, conVars, callVars, net>>

startServer(s) ==
    /\ stage[s] = "made"
    /\ stage' = [stage EXCEPT ![s] = "serving"]
    /\ shouldRun' = [shouldRun EXCEPT ![s] = TRUE]
    /\ UNCHANGED <<joined, srvReq, reply, ran, conVars, callVars, net>>

\* CtrlCHandler: before netif is assigned it does nothing, and before
\* startServer what it does is undone.
stopServer(s) ==
    /\ stage[s] \in {"made", "serving"}
    /\ shouldRun' = [shouldRun EXCEPT ![s] = FALSE]
    /\ UNCHANGED <<stage, joined, srvReq, reply, ran, conVars, callVars, net>>

\* The event loop ends, or the process dies: nobody tells the clients.
Leave(s) ==
    /\ stage[s] = "serving"
    /\ stage' = [stage EXCEPT ![s] = "ended"]
    /\ UNCHANGED <<shouldRun, joined, srvReq, reply, ran, conVars, callVars, net>>

EndLoop(s) == ~shouldRun[s] /\ Leave(s)
CrashServer(s) == Leave(s)

-----------------------------------------------------------------------------
(* Sessions.                                                               *)

\* The next server is connected to: create_session sends a request.
Connect(c, s) ==
    /\ \/ state[c] = "start"
       \/ state[c] = "connecting" /\ peer[c] \in sessions[c]
    /\ s \notin sessions[c]
    /\ \A t \in Servers \ sessions[c] : s <= t
    /\ state' = [state EXCEPT ![c] = "connecting"]
    /\ peer' = [peer EXCEPT ![c] = s]
    /\ Send(Session("connect", c, s))
    /\ UNCHANGED <<srvVars, sessions, callVars>>

\* No answer for kSMTimeoutMs.
ConnectAgain(c, s) ==
    /\ state[c] = "connecting" /\ peer[c] = s /\ s \notin sessions[c]
    /\ Send(Session("connect", c, s))
    /\ UNCHANGED <<srvVars, conVars, callVars>>

\* The thread of the Nexus knows no Rpc yet.
Refuse(s, c) ==
    /\ stage[s] = "nexus"
    /\ Session("connect", c, s) \in net
    /\ Send(Session("refused", c, s))
    /\ UNCHANGED <<srvVars, conVars, callVars>>

\* A second request of the same session gets the same answer.
Accept(s, c) ==
    /\ stage[s] = "serving"
    /\ Session("connect", c, s) \in net
    /\ joined' = [joined EXCEPT ![s] = @ \cup {c}]
    /\ Send(Session("accepted", c, s))
    /\ UNCHANGED <<stage, shouldRun, srvReq, reply, ran, conVars, callVars>>

Connected(c, s) ==
    /\ state[c] = "connecting" /\ peer[c] = s
    /\ Session("accepted", c, s) \in net
    /\ sessions' = [sessions EXCEPT ![c] = @ \cup {s}]
    /\ UNCHANGED <<srvVars, state, peer, callVars, net>>

\* The session is buried, and is_connected follows a null pointer.
ConnectFailed(c, s) ==
    /\ state[c] = "connecting" /\ peer[c] = s /\ s \notin sessions[c]
    /\ Session("refused", c, s) \in net
    /\ state' = [state EXCEPT ![c] = "dead"]
    /\ UNCHANGED <<srvVars, peer, sessions, callVars, net>>

\* The constructor returns.
Up(c) ==
    /\ state[c] \in {"start", "connecting"} /\ sessions[c] = Servers
    /\ state' = [state EXCEPT ![c] = "up"]
    /\ UNCHANGED <<srvVars, peer, sessions, callVars, net>>

-----------------------------------------------------------------------------
(* rpcCall.                                                                *)

\* A slip: completed keeps what the call before left in it.
rpcCallKeepsCompleted(c, s) ==
    /\ state[c] = "up" /\ call[c] = Nobody /\ cliReq[c][s] < MaxCalls
    /\ cliReq' = [cliReq EXCEPT ![c][s] = @ + 1]
    /\ call' = [call EXCEPT ![c] = s]
    /\ Send(Request(c, s, cliReq[c][s] + 1))
    /\ UNCHANGED <<srvVars, conVars, completed, respBuf, result>>

rpcCall(c, s) ==
    /\ state[c] = "up" /\ call[c] = Nobody /\ cliReq[c][s] < MaxCalls
    /\ completed' = [completed EXCEPT ![c] = FALSE]
    /\ cliReq' = [cliReq EXCEPT ![c][s] = @ + 1]
    /\ call' = [call EXCEPT ![c] = s]
    /\ Send(Request(c, s, cliReq[c][s] + 1))
    /\ UNCHANGED <<srvVars, conVars, respBuf, result>>

Waits(c) == call[c] # Nobody /\ ~completed[c]

\* A slip: a lost packet is not sent again.
NoRetransmit(c) == FALSE /\ UNCHANGED vars

\* Nothing came back for rpc_rto.
Retransmit(c) ==
    /\ Waits(c)
    /\ Send(Request(c, call[c], cliReq[c][call[c]]))
    /\ UNCHANGED <<srvVars, conVars, callVars>>

\* The handler runs, on a request the server has not seen.
Handle(s, c, n) ==
    /\ srvReq' = [srvReq EXCEPT ![s][c] = n]
    /\ ran' = [ran EXCEPT ![s] = Append(@, c)]
    /\ reply' = [reply EXCEPT ![s][c] = Len(ran[s]) + 1]
    /\ Send(Response(c, s, n, Len(ran[s]) + 1))
    /\ UNCHANGED <<stage, shouldRun, joined>>

\* The response is sent again.
Repeat(s, c) ==
    /\ Send(Response(c, s, srvReq[s][c], reply[s][c]))
    /\ UNCHANGED srvVars

\* A slip: a request is handled however often it comes.
ServeAll(s, c, n) ==
    /\ stage[s] = "serving" /\ c \in joined[s]
    /\ Request(c, s, n) \in net
    /\ n >= srvReq[s][c] /\ Handle(s, c, n)
    /\ UNCHANGED <<conVars, callVars>>

\* Requests of before the last one are dropped.
Serve(s, c, n) ==
    /\ stage[s] = "serving" /\ c \in joined[s]
    /\ Request(c, s, n) \in net
    /\ \/ n > srvReq[s][c] /\ Handle(s, c, n)
       \/ n = srvReq[s][c] /\ Repeat(s, c)
    /\ UNCHANGED <<conVars, callVars>>

contFunc(c) == completed' = [completed EXCEPT ![c] = TRUE]

\* A response in order is stored and contFunc called; others are dropped.
Complete(c, p) ==
    /\ p \in net /\ p.type = "resp" /\ p.c = c
    /\ call[c] = p.s /\ ~completed[c] /\ p.n = cliReq[c][p.s]
    /\ respBuf' = [respBuf EXCEPT ![c] = p.value]
    /\ contFunc(c)
    /\ UNCHANGED <<srvVars, conVars, cliReq, call, result, net>>

\* The loop of rpcCall ends.
Return(c) ==
    /\ call[c] # Nobody /\ completed[c]
    /\ result' = [result EXCEPT ![c] = respBuf[c]]
    /\ call' = [call EXCEPT ![c] = Nobody]
    /\ UNCHANGED <<srvVars, conVars, cliReq, completed, respBuf, net>>

-----------------------------------------------------------------------------
Next ==
    \/ \E s \in Servers :
         \/ Launch(s) \/ startServer(s) \/ stopServer(s) \/ EndLoop(s) \/ CrashServer(s)
         \/ \E c \in Clients :
              \/ Connect(c, s) \/ ConnectAgain(c, s) \/ Refuse(s, c) \/ Accept(s, c)
              \/ Connected(c, s) \/ ConnectFailed(c, s)
              \/ rpcCall(c, s) \/ \E n \in 1 .. MaxCalls : Serve(s, c, n)
    \/ \E c \in Clients :
         \/ Up(c) \/ Retransmit(c) \/ Return(c)
         \/ \E p \in net : Complete(c, p)

\* The programs go on, timers run out, a packet that is sent again and again
\* is not lost every time, and what is not lost arrives.
Fairness ==
    /\ \A s \in Servers :
         /\ WF_vars(Launch(s)) /\ WF_vars(startServer(s))
         /\ \A c \in Clients :
              /\ WF_vars(Connect(c, s)) /\ WF_vars(ConnectAgain(c, s))
              /\ WF_vars(Accept(s, c)) /\ WF_vars(Connected(c, s))
              /\ \A n \in 1 .. MaxCalls : WF_vars(Serve(s, c, n))
    /\ \A c \in Clients :
         /\ WF_vars(Up(c)) /\ WF_vars(Retransmit(c)) /\ WF_vars(Return(c))
         /\ WF_vars(\E p \in net : Complete(c, p))

Spec == Init /\ [][Next]_vars /\ Fairness

-----------------------------------------------------------------------------
InStep(c, s) == \/ srvReq[s][c] = cliReq[c][s]
                \/ call[c] = s /\ srvReq[s][c] + 1 = cliReq[c][s]

\* Types; the request number a server has seen of a session is that of the
\* client's last call, or during a call the one before it
\* (rpc_req.cc:34, 147-183).
TypeOK ==
    /\ stage \in [Servers -> {"start", "nexus", "rpc", "made", "serving", "ended"}]
    /\ shouldRun \in [Servers -> BOOLEAN]
    /\ joined \in [Servers -> SUBSET Clients]
    /\ srvReq \in [Servers -> [Clients -> Nat]]
    /\ reply \in [Servers -> [Clients -> Nat]]
    /\ ran \in [Servers -> Seq(Clients)]
    /\ state \in [Clients -> {"start", "connecting", "up", "dead"}]
    /\ peer \in [Clients -> Servers \cup {Nobody}]
    /\ sessions \in [Clients -> SUBSET Servers]
    /\ cliReq \in [Clients -> [Servers -> Nat]]
    /\ call \in [Clients -> Servers \cup {Nobody}]
    /\ completed \in [Clients -> BOOLEAN]
    /\ respBuf \in [Clients -> Nat]
    /\ result \in [Clients -> Nat]
    /\ net \subseteq Packets
    /\ \A c \in Clients, s \in Servers : InStep(c, s)

\* rpcCall is what RemoteCall says, whatever the network loses, repeats and
\* reorders: the handler has run exactly once when it returns, and what it
\* returns is the answer of that run and not an older one (netif.hpp:115-137).
Handled(c) == call[c] # Nobody /\ srvReq[call[c]][c] = cliReq[c][call[c]]
CallBar == [c \in Clients |->
              [peer |-> call[c], answer |-> IF Handled(c) THEN reply[call[c]][c] ELSE 0]]
Calls == INSTANCE RemoteCall WITH call <- CallBar
CallsRunOnce == Calls!Spec

\* A client that starts comes up, and each of its calls returns, however many
\* packets are lost, unless a server it needs has ended or told it, while
\* starting, that there is no Rpc (netif.hpp:89-105, 129-132).
EveryCallReturns ==
    \A c \in Clients :
        /\ <>(state[c] \in {"up", "dead"} \/ \E s \in Servers : stage[s] = "ended")
        /\ \A s \in Servers : call[c] = s ~> call[c] # s \/ stage[s] = "ended"
=============================================================================
