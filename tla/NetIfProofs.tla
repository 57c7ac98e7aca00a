---------------------------- MODULE NetIfProofs -----------------------------
(***************************************************************************)
(* Proofs about NetIf: with any number of clients, servers and calls,      *)
(* rpcCall runs a handler once and returns its answer, whatever the        *)
(* network does.  Nothing here depends on fairness.                        *)
(***************************************************************************)
EXTENDS NetIf, TLAPS

\* No request is ahead of its client.
RequestsAsked ==
    \A p \in net : p.type = "req" => p.n >= 1 /\ p.n <= cliReq[p.c][p.s]

\* No response is ahead of its server, and those to the last request are alike.
ResponsesGiven ==
    \A p \in net : p.type = "resp" =>
        /\ p.n <= srvReq[p.s][p.c]
        /\ p.n = srvReq[p.s][p.c] => p.value = reply[p.s][p.c]

\* A call that is completed has been handled, and the buffer holds its answer.
CompletedAnswered ==
    \A c \in Clients : call[c] # Nobody /\ completed[c] =>
        /\ srvReq[call[c]][c] = cliReq[c][call[c]]
        /\ respBuf[c] = reply[call[c]][c]

\* Who calls has asked; whoever has been answered has an answer.
AnswersCount ==
    /\ \A c \in Clients : call[c] # Nobody => cliReq[c][call[c]] >= 1
    /\ \A c \in Clients, s \in Servers : srvReq[s][c] >= 1 => reply[s][c] >= 1

IInv == TypeOK /\ RequestsAsked /\ ResponsesGiven /\ CompletedAnswered /\ AnswersCount

-----------------------------------------------------------------------------
LEMMA Appended ==
    ASSUME NEW S, NEW q \in Seq(S), NEW e \in S
    PROVE  Append(q, e) \in Seq(S) /\ Len(q) \in Nat
  OBVIOUS

\* Packets that a step adds are well formed.
LEMMA PacketForms ==
    ASSUME NEW c \in Clients, NEW s \in Servers, NEW n \in Nat, NEW v \in Nat
    PROVE  /\ Request(c, s, n) \in Packets
           /\ Response(c, s, n, v) \in Packets
           /\ \A t \in {"connect", "refused", "accepted"} : Session(t, c, s) \in Packets
  BY DEF Request, Response, Session, Packets

LEMMA PacketTypes ==
    ASSUME NEW q \in Packets
    PROVE  /\ q.c \in Clients /\ q.s \in Servers
           /\ q.type = "req" => q.n \in Nat
           /\ q.type = "resp" => q.n \in Nat /\ q.value \in Nat
<1>1. CASE q \in [type : {"connect", "refused", "accepted"}, c : Clients, s : Servers]
  BY <1>1
<1>2. CASE q \in [type : {"req"}, c : Clients, s : Servers, n : Nat]
  BY <1>2
<1>3. CASE q \in [type : {"resp"}, c : Clients, s : Servers, n : Nat, value : Nat]
  BY <1>3
<1>. QED
  BY <1>1, <1>2, <1>3 DEF Packets

LEMMA InitInv == Init => IInv
  BY IdAssumption DEF Init, IInv, TypeOK, InStep, RequestsAsked, ResponsesGiven,
     CompletedAnswered, AnswersCount, Packets

\* Nothing but the packets and what packets have to do with changes.
calls == <<srvReq, reply, ran, cliReq, call, completed, respBuf, result>>

\* Steps of the servers' main programs and of the sessions.
LEMMA QuietKeeps ==
    ASSUME IInv, UNCHANGED calls,
           stage' \in [Servers -> {"start", "nexus", "rpc", "made", "serving", "ended"}],
           shouldRun' \in [Servers -> BOOLEAN], joined' \in [Servers -> SUBSET Clients],
           state' \in [Clients -> {"start", "connecting", "up", "dead"}],
           peer' \in [Clients -> Servers \cup {Nobody}],
           sessions' \in [Clients -> SUBSET Servers],
           NEW p, p \in Packets, p.type \notin {"req", "resp"} \/ p \in net,
           net' = net \/ net' = net \cup {p}
    PROVE  IInv'
  BY DEF IInv, calls, TypeOK, InStep, RequestsAsked, ResponsesGiven,
     CompletedAnswered, AnswersCount

LEMMA ServerStep ==
    ASSUME IInv, NEW s \in Servers,
           Launch(s) \/ startServer(s) \/ stopServer(s) \/ EndLoop(s) \/ CrashServer(s)
    PROVE  IInv' /\ UNCHANGED calls
<1>1. UNCHANGED <<calls, joined, conVars, net>>
  BY DEF Launch, startServer, stopServer, EndLoop, CrashServer, Leave, srvVars, callVars, calls
<1>2. shouldRun' \in [Servers -> BOOLEAN]
  BY DEF Launch, startServer, stopServer, EndLoop, CrashServer, Leave, IInv, TypeOK
<1>3. stage' \in [Servers -> {"start", "nexus", "rpc", "made", "serving", "ended"}]
  BY DEF Launch, Launched, startServer, stopServer, EndLoop, CrashServer, Leave, IInv, TypeOK
<1>. QED
  BY <1>1, <1>2, <1>3 DEF conVars, calls, IInv, TypeOK, InStep, RequestsAsked,
     ResponsesGiven, CompletedAnswered, AnswersCount

LEMMA SessionStep ==
    ASSUME IInv, NEW s \in Servers, NEW c \in Clients,
           \/ Connect(c, s) \/ Refuse(s, c) \/ Accept(s, c)
           \/ Connected(c, s) \/ ConnectFailed(c, s) \/ ConnectAgain(c, s)
    PROVE  IInv' /\ UNCHANGED calls
<1>1. UNCHANGED <<calls, stage, shouldRun>>
  BY DEF Connect, Refuse, Accept, Connected, ConnectFailed, ConnectAgain, srvVars,
     callVars, calls
<1>2. /\ joined' \in [Servers -> SUBSET Clients]
      /\ state' \in [Clients -> {"start", "connecting", "up", "dead"}]
      /\ peer' \in [Clients -> Servers \cup {Nobody}]
      /\ sessions' \in [Clients -> SUBSET Servers]
  <2>. USE DEF IInv, TypeOK
  <2>1. CASE Connect(c, s)
    BY <2>1 DEF Connect, srvVars
  <2>2. CASE Refuse(s, c) \/ ConnectAgain(c, s)
    BY <2>2 DEF Refuse, ConnectAgain, srvVars, conVars
  <2>3. CASE Accept(s, c)
    BY <2>3 DEF Accept, conVars
  <2>4. CASE Connected(c, s)
    BY <2>4 DEF Connected, srvVars
  <2>5. CASE ConnectFailed(c, s)
    BY <2>5 DEF ConnectFailed, srvVars
  <2>. QED
    BY <2>1, <2>2, <2>3, <2>4, <2>5
<1>3. PICK p \in Packets : /\ p.type \notin {"req", "resp"}
                           /\ net' = net \/ net' = net \cup {p}
  <2>1. CASE Connect(c, s)
    BY <2>1, PacketForms, 0 \in Nat DEF Connect, Send, Session
  <2>2. CASE Refuse(s, c)
    BY <2>2, PacketForms, 0 \in Nat DEF Refuse, Send, Session
  <2>3. CASE Accept(s, c)
    BY <2>3, PacketForms, 0 \in Nat DEF Accept, Send, Session
  <2>4. CASE ConnectAgain(c, s)
    BY <2>4, PacketForms, 0 \in Nat DEF ConnectAgain, Send, Session
  <2>5. CASE Connected(c, s) \/ ConnectFailed(c, s)
    BY <2>5, PacketForms, 0 \in Nat DEF Connected, ConnectFailed, Session
  <2>. QED
    BY <2>1, <2>2, <2>3, <2>4, <2>5
<1>. QED
  BY <1>1, <1>2, <1>3, QuietKeeps DEF IInv, TypeOK

LEMMA UpStep ==
    ASSUME IInv, NEW c \in Clients, Up(c)
    PROVE  IInv' /\ UNCHANGED calls
<1>1. /\ UNCHANGED <<srvVars, peer, sessions, callVars, net>>
      /\ state' \in [Clients -> {"start", "connecting", "up", "dead"}]
  BY DEF Up, IInv, TypeOK
<1>. QED
  BY <1>1 DEF srvVars, callVars, calls, IInv, TypeOK, InStep, RequestsAsked,
     ResponsesGiven, CompletedAnswered, AnswersCount

LEMMA CallStep ==
    ASSUME IInv, NEW c \in Clients, NEW s \in Servers, rpcCall(c, s)
    PROVE  IInv'
<1>0. DEFINE p == Request(c, s, cliReq[c][s] + 1)
<1>1. p \in Packets /\ p.type = "req" /\ p.c = c /\ p.s = s /\ p.n = cliReq[c][s] + 1
      /\ cliReq[c][s] \in Nat
  BY PacketForms, 0 \in Nat DEF IInv, TypeOK, Request
<1>2. net' = net \/ net' = net \cup {p}
  BY DEF rpcCall, Send
<1>. HIDE DEF p
<1>7. \A d \in Clients, t \in Servers :
        /\ cliReq'[d][t] = IF d = c /\ t = s THEN cliReq[c][s] + 1 ELSE cliReq[d][t]
        /\ cliReq[d][t] \in Nat /\ srvReq[t][d] \in Nat
        /\ call'[d] = IF d = c THEN s ELSE call[d]
  BY DEF IInv, TypeOK, rpcCall
<1>8. call[c] = Nobody /\ Nobody \notin Servers /\ srvReq' = srvReq
  BY IdAssumption DEF rpcCall, srvVars
<1>3. TypeOK'
  <2>1. \A d \in Clients, t \in Servers : InStep(d, t)'
    <3>. SUFFICES ASSUME NEW d \in Clients, NEW t \in Servers
                  PROVE  InStep(d, t)'
      OBVIOUS
    <3>1. InStep(d, t)
      BY DEF IInv, TypeOK
    <3>. QED
      BY <3>1, <1>7, <1>8 DEF InStep
  <2>2. net' \subseteq Packets
    BY <1>1, <1>2 DEF IInv, TypeOK
  <2>. QED
    BY <1>1, <2>1, <2>2 DEF IInv, TypeOK, rpcCall, srvVars, conVars
<1>4. RequestsAsked'
  <2>. SUFFICES ASSUME NEW q \in net', q.type = "req"
                PROVE  q.n >= 1 /\ q.n <= cliReq'[q.c][q.s]
    BY DEF RequestsAsked
  <2>1. q.c \in Clients /\ q.s \in Servers /\ q.n \in Nat
    <3>1. q \in Packets
      BY <1>1, <1>2 DEF IInv, TypeOK
    <3>. QED
      BY <3>1, PacketTypes
  <2>3. CASE q = p
    BY <1>1, <1>7, <2>3
  <2>4. CASE q \in net
    <3>1. q.n >= 1 /\ q.n <= cliReq[q.c][q.s]
      BY <2>4 DEF IInv, RequestsAsked
    <3>. QED
      BY <3>1, <2>1, <1>7
  <2>. QED
    BY <1>2, <2>3, <2>4
<1>5. ResponsesGiven'
  BY <1>1, <1>2 DEF IInv, ResponsesGiven, rpcCall, srvVars
<1>6. CompletedAnswered' /\ AnswersCount'
  BY <1>1, IdAssumption DEF IInv, TypeOK, CompletedAnswered, AnswersCount, rpcCall, srvVars
<1>. QED
  BY <1>3, <1>4, <1>5, <1>6 DEF IInv

LEMMA RetransmitStep ==
    ASSUME IInv, NEW c \in Clients, Retransmit(c)
    PROVE  IInv' /\ UNCHANGED calls
<1>0. DEFINE p == Request(c, call[c], cliReq[c][call[c]])
<1>1. call[c] \in Servers /\ UNCHANGED <<calls, srvVars, conVars>>
  BY DEF Retransmit, Waits, IInv, TypeOK, calls, srvVars, callVars
<1>2. p \in Packets /\ p.type = "req" /\ p.c = c /\ p.s = call[c]
      /\ p.n = cliReq[c][call[c]]
  BY <1>1, PacketForms, 0 \in Nat DEF IInv, TypeOK, Request
<1>3. net' = net \/ net' = net \cup {p}
  BY DEF Retransmit, Send
<1>4. p.n >= 1 /\ p.n <= cliReq[c][call[c]]
  BY <1>1, <1>2 DEF IInv, AnswersCount, Retransmit, Waits, TypeOK
<1>. HIDE DEF p
<1>5. TypeOK'
  BY <1>1, <1>2, <1>3 DEF IInv, TypeOK, InStep, calls, srvVars, conVars
<1>6. RequestsAsked'
  BY <1>1, <1>2, <1>3, <1>4 DEF IInv, RequestsAsked, calls
<1>7. ResponsesGiven'
  BY <1>1, <1>2, <1>3 DEF IInv, ResponsesGiven, calls
<1>8. CompletedAnswered' /\ AnswersCount'
  BY <1>1 DEF IInv, CompletedAnswered, AnswersCount, calls
<1>. QED
  BY <1>1, <1>5, <1>6, <1>7, <1>8 DEF IInv

\* A request that is new to a server is that of the call in progress, which is
\* not completed.
LEMMA NewRequest ==
    ASSUME IInv, NEW s \in Servers, NEW c \in Clients, NEW n \in Nat,
           Request(c, s, n) \in net, n > srvReq[s][c]
    PROVE  /\ call[c] = s /\ ~completed[c]
           /\ n = cliReq[c][s] /\ n = srvReq[s][c] + 1
<1>1. n <= cliReq[c][s]
  BY DEF IInv, RequestsAsked, Request
<1>2. cliReq[c][s] \in Nat /\ srvReq[s][c] \in Nat /\ InStep(c, s)
  BY DEF IInv, TypeOK
<1>3. call[c] = s /\ srvReq[s][c] + 1 = cliReq[c][s]
  BY <1>1, <1>2 DEF InStep
<1>4. ~completed[c]
  BY <1>2, <1>3, IdAssumption DEF IInv, CompletedAnswered
<1>. QED
  BY <1>1, <1>2, <1>3, <1>4

LEMMA HandleStep ==
    ASSUME IInv, NEW s \in Servers, NEW c \in Clients, NEW n \in Nat,
           Request(c, s, n) \in net, n > srvReq[s][c], Handle(s, c, n),
           UNCHANGED <<conVars, callVars>>
    PROVE  IInv'
<1>0. DEFINE v == Len(ran[s]) + 1
             p == Response(c, s, n, v)
<1>1. ran[s] \in Seq(Clients) /\ v \in Nat /\ v >= 1
  <2>1. ran[s] \in Seq(Clients)
    BY DEF IInv, TypeOK
  <2>. QED
    BY <2>1
<1>2. p \in Packets /\ p.type = "resp" /\ p.c = c /\ p.s = s /\ p.n = n /\ p.value = v
  BY <1>1, PacketForms DEF Response
<1>3. net' = net \/ net' = net \cup {p}
  BY DEF Handle, Send
<1>4. ran' = [ran EXCEPT ![s] = Append(@, c)]
  BY DEF Handle
<1>5. \A d \in Clients, t \in Servers :
        /\ srvReq'[t][d] = IF d = c /\ t = s THEN n ELSE srvReq[t][d]
        /\ reply'[t][d] = IF d = c /\ t = s THEN v ELSE reply[t][d]
        /\ srvReq[t][d] \in Nat /\ reply[t][d] \in Nat /\ cliReq[d][t] \in Nat
  <2>1. /\ srvReq \in [Servers -> [Clients -> Nat]] /\ reply \in [Servers -> [Clients -> Nat]]
        /\ cliReq \in [Clients -> [Servers -> Nat]]
    BY DEF IInv, TypeOK
  <2>2. srvReq' = [srvReq EXCEPT ![s][c] = n] /\ reply' = [reply EXCEPT ![s][c] = v]
    BY DEF Handle
  <2>. QED
    BY <2>1, <2>2
<1>6. UNCHANGED <<stage, shouldRun, joined, state, peer, sessions, cliReq, call,
                  completed, respBuf, result>>
  BY DEF Handle, conVars, callVars
<1>7. srvReq' \in [Servers -> [Clients -> Nat]] /\ reply' \in [Servers -> [Clients -> Nat]]
  BY <1>1 DEF IInv, TypeOK, Handle
<1>8. call[c] = s /\ ~completed[c] /\ n = cliReq[c][s] /\ n = srvReq[s][c] + 1
  BY NewRequest
<1>. HIDE DEF p, v
<1>9. TypeOK'
  <2>1. ran' \in [Servers -> Seq(Clients)]
    BY <1>1, <1>4, Appended DEF IInv, TypeOK
  <2>2. net' \subseteq Packets
    BY <1>2, <1>3 DEF IInv, TypeOK
  <2>3. ASSUME NEW d \in Clients, NEW t \in Servers
        PROVE  InStep(d, t)'
    <3>1. InStep(d, t)
      BY DEF IInv, TypeOK
    <3>. QED
      BY <3>1, <1>5, <1>6, <1>8 DEF InStep
  <2>. QED
    BY <1>6, <1>7, <2>1, <2>2, <2>3 DEF IInv, TypeOK
<1>10. RequestsAsked'
  BY <1>2, <1>3, <1>6 DEF IInv, RequestsAsked
<1>11. ResponsesGiven'
  <2>. SUFFICES ASSUME NEW q \in net', q.type = "resp"
                PROVE  /\ q.n <= srvReq'[q.s][q.c]
                       /\ q.n = srvReq'[q.s][q.c] => q.value = reply'[q.s][q.c]
    BY DEF ResponsesGiven
  <2>1. CASE q = p
    BY <2>1, <1>2, <1>5
  <2>2. CASE q \in net
    <3>1. q.c \in Clients /\ q.s \in Servers /\ q.n \in Nat
      BY <2>2, PacketTypes DEF IInv, TypeOK
    <3>2. /\ q.n <= srvReq[q.s][q.c]
          /\ q.n = srvReq[q.s][q.c] => q.value = reply[q.s][q.c]
      BY <2>2 DEF IInv, ResponsesGiven
    <3>. QED
      BY <3>1, <3>2, <1>5
  <2>. QED
    BY <1>3, <2>1, <2>2
<1>12. CompletedAnswered'
  <2>. SUFFICES ASSUME NEW d \in Clients, call[d] # Nobody, completed[d]
                PROVE  /\ srvReq'[call[d]][d] = cliReq[d][call[d]]
                       /\ respBuf[d] = reply'[call[d]][d]
    BY <1>6 DEF CompletedAnswered
  <2>1. call[d] \in Servers /\ d # c
    BY <1>8 DEF IInv, TypeOK
  <2>. QED
    BY <2>1, <1>5 DEF IInv, CompletedAnswered
<1>13. AnswersCount'
  BY <1>1, <1>5, <1>6 DEF IInv, AnswersCount
<1>. QED
  BY <1>9, <1>10, <1>11, <1>12, <1>13 DEF IInv

LEMMA RepeatStep ==
    ASSUME IInv, NEW s \in Servers, NEW c \in Clients, Repeat(s, c),
           UNCHANGED <<conVars, callVars>>
    PROVE  IInv' /\ UNCHANGED calls
<1>0. DEFINE p == Response(c, s, srvReq[s][c], reply[s][c])
<1>1. UNCHANGED <<calls, srvVars, conVars>>
  BY DEF Repeat, srvVars, callVars, calls
<1>2. /\ p \in Packets /\ p.type = "resp" /\ p.c = c /\ p.s = s
      /\ p.n = srvReq[s][c] /\ p.value = reply[s][c] /\ p.n \in Nat
  BY PacketForms DEF Response, IInv, TypeOK
<1>3. net' = net \/ net' = net \cup {p}
  BY DEF Repeat, Send
<1>. HIDE DEF p
<1>4. TypeOK'
  BY <1>1, <1>2, <1>3 DEF IInv, TypeOK, InStep, calls, srvVars, conVars
<1>5. RequestsAsked' /\ CompletedAnswered' /\ AnswersCount'
  BY <1>1, <1>2, <1>3 DEF IInv, RequestsAsked, CompletedAnswered, AnswersCount, calls
<1>6. ResponsesGiven'
  BY <1>1, <1>2, <1>3 DEF IInv, ResponsesGiven, calls
<1>. QED
  BY <1>1, <1>4, <1>5, <1>6 DEF IInv

LEMMA CompleteStep ==
    ASSUME IInv, NEW c \in Clients, NEW p \in net, Complete(c, p)
    PROVE  IInv'
<1>1. /\ p.type = "resp" /\ p.c = c /\ call[c] = p.s /\ p.n = cliReq[c][p.s]
      /\ UNCHANGED <<srvVars, conVars, cliReq, call, result, net>>
  BY DEF Complete, contFunc
<1>2. p.s \in Servers /\ p.n \in Nat /\ p.value \in Nat
  BY <1>1, PacketTypes DEF IInv, TypeOK
<1>3. srvReq[p.s][c] = p.n /\ p.value = reply[p.s][c]
  <2>1. p.n <= srvReq[p.s][c] /\ (p.n = srvReq[p.s][c] => p.value = reply[p.s][c])
    BY <1>1 DEF IInv, ResponsesGiven
  <2>2. InStep(c, p.s) /\ srvReq[p.s][c] \in Nat
    <3>1. srvReq \in [Servers -> [Clients -> Nat]]
      BY DEF IInv, TypeOK
    <3>2. \A d \in Clients, t \in Servers : InStep(d, t)
      BY DEF IInv, TypeOK
    <3>. QED
      BY <1>2, <3>1, <3>2
  <2>. QED
    BY <1>1, <1>2, <2>1, <2>2 DEF InStep
<1>4. \A d \in Clients : /\ respBuf'[d] = IF d = c THEN p.value ELSE respBuf[d]
                         /\ completed'[d] = IF d = c THEN TRUE ELSE completed[d]
  BY DEF Complete, contFunc, IInv, TypeOK
<1>5. TypeOK'
  <2>1. respBuf' \in [Clients -> Nat] /\ completed' \in [Clients -> BOOLEAN]
    BY <1>2 DEF Complete, contFunc, IInv, TypeOK
  <2>2. \A d \in Clients, t \in Servers : InStep(d, t)'
    <3>. SUFFICES ASSUME NEW d \in Clients, NEW t \in Servers PROVE InStep(d, t)'
      OBVIOUS
    <3>1. InStep(d, t)
      BY DEF IInv, TypeOK
    <3>2. d = c => call[d] = p.s
      BY <1>1
    <3>. QED
      BY <1>1, <1>3, <1>4, <3>1, <3>2 DEF InStep, srvVars
  <2>. QED
    BY <1>1, <2>1, <2>2 DEF IInv, TypeOK, srvVars, conVars
<1>6. RequestsAsked' /\ ResponsesGiven' /\ AnswersCount'
  BY <1>1 DEF IInv, RequestsAsked, ResponsesGiven, AnswersCount, srvVars
<1>7. CompletedAnswered'
  <2>. SUFFICES ASSUME NEW d \in Clients, call[d] # Nobody, completed'[d]
                PROVE  /\ srvReq[call[d]][d] = cliReq[d][call[d]]
                       /\ respBuf'[d] = reply[call[d]][d]
    BY <1>1 DEF CompletedAnswered, srvVars
  <2>1. CASE d = c
    BY <1>1, <1>3, <1>4, <2>1
  <2>2. CASE d # c
    BY <1>4, <2>2 DEF IInv, CompletedAnswered
  <2>. QED
    BY <2>1, <2>2
<1>. QED
  BY <1>5, <1>6, <1>7 DEF IInv

LEMMA ReturnStep ==
    ASSUME IInv, NEW c \in Clients, Return(c)
    PROVE  IInv'
<1>1. /\ UNCHANGED <<srvVars, conVars, cliReq, completed, respBuf, net>>
      /\ call[c] \in Servers /\ srvReq[call[c]][c] = cliReq[c][call[c]]
  BY DEF Return, IInv, TypeOK, CompletedAnswered
<1>2. \A d \in Clients : call'[d] = IF d = c THEN Nobody ELSE call[d]
  BY DEF Return, IInv, TypeOK
<1>3. TypeOK'
  <2>1. ASSUME NEW d \in Clients, NEW t \in Servers
        PROVE  InStep(d, t)'
    <3>1. InStep(d, t)
      BY DEF IInv, TypeOK
    <3>. QED
      BY <3>1, <1>1, <1>2 DEF InStep, srvVars
  <2>2. call' \in [Clients -> Servers \cup {Nobody}] /\ result' \in [Clients -> Nat]
    BY DEF Return, IInv, TypeOK
  <2>. QED
    BY <1>1, <2>1, <2>2 DEF IInv, TypeOK, srvVars, conVars
<1>4. RequestsAsked' /\ ResponsesGiven'
  BY <1>1 DEF IInv, RequestsAsked, ResponsesGiven, srvVars
<1>5. CompletedAnswered' /\ AnswersCount'
  BY <1>1, <1>2 DEF IInv, CompletedAnswered, AnswersCount, srvVars
<1>. QED
  BY <1>3, <1>4, <1>5 DEF IInv

LEMMA StutterKeeps ==
    ASSUME IInv, UNCHANGED vars
    PROVE  IInv' /\ UNCHANGED calls
  BY DEF IInv, TypeOK, InStep, RequestsAsked, ResponsesGiven, CompletedAnswered,
     AnswersCount, vars, srvVars, conVars, callVars, calls

-----------------------------------------------------------------------------
\* Every step keeps the calls as they are, or is one of these.
LEMMA StepCases ==
    ASSUME IInv, [Next]_vars
    PROVE  /\ IInv'
           /\ \/ UNCHANGED calls
              \/ \E c \in Clients : Return(c) \/ \E p \in net : Complete(c, p)
              \/ \E c \in Clients, s \in Servers :
                    \/ rpcCall(c, s)
                    \/ \E n \in Nat : /\ Request(c, s, n) \in net /\ n > srvReq[s][c]
                                     /\ Handle(s, c, n) /\ UNCHANGED <<conVars, callVars>>
<1>1. CASE UNCHANGED vars
  BY <1>1, StutterKeeps
<1>2. ASSUME NEW s \in Servers,
             Launch(s) \/ startServer(s) \/ stopServer(s) \/ EndLoop(s) \/ CrashServer(s)
      PROVE  IInv' /\ UNCHANGED calls
  BY <1>2, ServerStep
<1>3. ASSUME NEW s \in Servers, NEW c \in Clients,
             \/ Connect(c, s) \/ Refuse(s, c) \/ Accept(s, c)
             \/ Connected(c, s) \/ ConnectFailed(c, s) \/ ConnectAgain(c, s)
      PROVE  IInv' /\ UNCHANGED calls
  BY <1>3, SessionStep
<1>4. ASSUME NEW c \in Clients, Up(c) \/ Retransmit(c)
      PROVE  IInv' /\ UNCHANGED calls
  BY <1>4, UpStep, RetransmitStep
<1>5. ASSUME NEW s \in Servers, NEW c \in Clients, rpcCall(c, s)
      PROVE  IInv'
  BY <1>5, CallStep
<1>6. ASSUME NEW c \in Clients, Return(c) \/ \E p \in net : Complete(c, p)
      PROVE  IInv'
  BY <1>6, ReturnStep, CompleteStep
<1>7. ASSUME NEW s \in Servers, NEW c \in Clients, NEW n \in 1 .. MaxCalls, Serve(s, c, n)
      PROVE  /\ IInv'
             /\ \/ UNCHANGED calls
                \/ /\ Request(c, s, n) \in net /\ n > srvReq[s][c]
                   /\ Handle(s, c, n) /\ UNCHANGED <<conVars, callVars>>
  <2>1. n \in Nat
    BY <1>7, BoundAssumption
  <2>. QED
    BY <1>7, <2>1, HandleStep, RepeatStep DEF Serve
<1>8. 1 .. MaxCalls \subseteq Nat
  BY BoundAssumption
<1>. QED
  BY <1>1, <1>2, <1>3, <1>4, <1>5, <1>6, <1>7, <1>8 DEF Next

\* Types, and request numbers that stay in step (rpc_req.cc:34, 147-183).
THEOREM TypeCorrect == Spec => []TypeOK
<1>1. IInv /\ [Next]_vars => IInv'
  BY StepCases
<1>2. IInv => TypeOK
  BY DEF IInv
<1>. QED
  BY InitInv, <1>1, <1>2, PTL DEF Spec

-----------------------------------------------------------------------------
\* The refinement: each step is a step of RemoteCall or changes nothing of it.
LEMMA AskMaps ==
    ASSUME IInv, IInv', NEW c \in Clients, NEW s \in Servers, rpcCall(c, s)
    PROVE  Calls!Ask(c, s)
<1>1. call[c] = Nobody /\ UNCHANGED <<srvReq, reply, ran, result>>
  BY DEF rpcCall, srvVars
<1>2. \A d \in Clients : call'[d] = IF d = c THEN s ELSE call[d]
  BY DEF rpcCall, IInv, TypeOK
<1>3. /\ \A d \in Clients \ {c}, t \in Servers : cliReq'[d][t] = cliReq[d][t]
      /\ cliReq'[c][s] = cliReq[c][s] + 1
      /\ cliReq[c][s] \in Nat /\ srvReq[s][c] \in Nat
  BY DEF rpcCall, IInv, TypeOK
<1>4. InStep(c, s) /\ s # Nobody
  BY IdAssumption DEF IInv, TypeOK
<1>5. srvReq[s][c] # cliReq'[c][s]
  BY <1>1, <1>3, <1>4 DEF InStep
<1>6. CallBar' = [CallBar EXCEPT ![c] = [peer |-> s, answer |-> 0]]
  <2>1. ASSUME NEW d \in Clients
        PROVE  CallBar'[d] = IF d = c THEN [peer |-> s, answer |-> 0] ELSE CallBar[d]
    <3>1. CASE d = c
      BY <3>1, <1>1, <1>2, <1>4, <1>5 DEF CallBar, Handled
    <3>2. CASE d # c
      <4>1. call[d] \in Servers \/ call[d] = Nobody
        BY DEF IInv, TypeOK
      <4>. QED
        BY <3>2, <4>1, <1>1, <1>2, <1>3 DEF CallBar, Handled
    <3>. QED
      BY <3>1, <3>2
  <2>. QED
    BY <2>1 DEF CallBar
<1>. QED
  BY <1>1, <1>6 DEF Calls!Ask, Calls!NotYet, CallBar

LEMMA RunMaps ==
    ASSUME IInv, NEW s \in Servers, NEW c \in Clients, NEW n \in Nat,
           Request(c, s, n) \in net, n > srvReq[s][c], Handle(s, c, n),
           UNCHANGED <<conVars, callVars>>
    PROVE  Calls!Run(c)
<1>1. call[c] = s /\ n = cliReq[c][s] /\ n = srvReq[s][c] + 1 /\ srvReq[s][c] \in Nat
  <2>1. call[c] = s /\ n = cliReq[c][s] /\ n = srvReq[s][c] + 1
    BY NewRequest
  <2>2. srvReq[s][c] \in Nat
    BY DEF IInv, TypeOK
  <2>. QED
    BY <2>1, <2>2
<1>2. UNCHANGED <<cliReq, call, result>> /\ s # Nobody
  BY IdAssumption DEF callVars
<1>3. \A d \in Clients, t \in Servers :
        /\ srvReq'[t][d] = IF d = c /\ t = s THEN n ELSE srvReq[t][d]
        /\ reply'[t][d] = IF d = c /\ t = s THEN Len(ran[s]) + 1 ELSE reply[t][d]
  BY DEF IInv, TypeOK, Handle
<1>4. CallBar[c] = [peer |-> s, answer |-> 0]
  <2>1. srvReq[s][c] # cliReq[c][s]
    BY <1>1
  <2>2. ~Handled(c)
    BY <1>1, <2>1 DEF Handled
  <2>. QED
    BY <1>1, <2>2 DEF CallBar
<1>5. ASSUME NEW d \in Clients
      PROVE  CallBar'[d] = IF d = c THEN [peer |-> s, answer |-> Len(ran[s]) + 1]
                           ELSE CallBar[d]
  <2>1. CASE d = c
    BY <2>1, <1>1, <1>2, <1>3 DEF CallBar, Handled
  <2>2. CASE d # c
    <3>1. call[d] \in Servers \/ call[d] = Nobody
      BY DEF IInv, TypeOK
    <3>. QED
      BY <2>2, <3>1, <1>2, <1>3 DEF CallBar, Handled
  <2>. QED
    BY <2>1, <2>2
<1>6. CallBar' = [CallBar EXCEPT ![c] = [peer |-> s, answer |-> Len(ran[s]) + 1]]
  BY <1>5 DEF CallBar
<1>7. ran' = [ran EXCEPT ![s] = Append(@, c)]
  BY DEF Handle
<1>. QED
  BY <1>2, <1>4, <1>6, <1>7 DEF Calls!Run, Calls!NotYet

LEMMA ReturnMaps ==
    ASSUME IInv, NEW c \in Clients, Return(c)
    PROVE  Calls!Return(c)
<1>1. /\ call[c] \in Servers /\ call[c] # Nobody
      /\ UNCHANGED <<srvReq, reply, ran, cliReq>>
      /\ result' = [result EXCEPT ![c] = respBuf[c]]
  BY DEF Return, IInv, TypeOK, srvVars
<1>2. srvReq[call[c]][c] = cliReq[c][call[c]] /\ respBuf[c] = reply[call[c]][c]
  BY <1>1 DEF Return, IInv, CompletedAnswered
<1>3. cliReq[c][call[c]] >= 1 /\ reply[call[c]][c] >= 1
  BY <1>1, <1>2 DEF IInv, AnswersCount
<1>4. CallBar[c] = [peer |-> call[c], answer |-> respBuf[c]] /\ respBuf[c] # 0
  BY <1>1, <1>2, <1>3 DEF CallBar, Handled, IInv, TypeOK
<1>5. \A d \in Clients : call'[d] = IF d = c THEN Nobody ELSE call[d]
  BY DEF Return, IInv, TypeOK
<1>6. CallBar' = [CallBar EXCEPT ![c] = [peer |-> Nobody, answer |-> 0]]
  BY <1>1, <1>5 DEF CallBar, Handled
<1>. QED
  BY <1>1, <1>4, <1>6 DEF Calls!Return, Calls!NoCall, Calls!NotYet

LEMMA CompleteMaps ==
    ASSUME NEW c \in Clients, NEW p \in net, Complete(c, p)
    PROVE  UNCHANGED Calls!vars
  BY DEF Complete, contFunc, srvVars, Calls!vars, CallBar, Handled

LEMMA InitMaps == Init => Calls!Init
  BY DEF Init, Calls!Init, Calls!NoCall, Calls!NotYet, CallBar, Handled

LEMMA StepMaps == IInv /\ IInv' /\ [Next]_vars => [Calls!Next]_(Calls!vars)
<1>. SUFFICES ASSUME IInv, IInv', [Next]_vars
              PROVE  Calls!Next \/ UNCHANGED Calls!vars
  OBVIOUS
<1>1. CASE UNCHANGED calls
  BY <1>1 DEF calls, Calls!vars, CallBar, Handled
<1>2. CASE \E c \in Clients : Return(c) \/ \E p \in net : Complete(c, p)
  <2>1. ASSUME NEW c \in Clients, Return(c)
        PROVE  Calls!Next
    BY <2>1, ReturnMaps DEF Calls!Next
  <2>2. ASSUME NEW c \in Clients, NEW p \in net, Complete(c, p)
        PROVE  UNCHANGED Calls!vars
    BY <2>2, CompleteMaps
  <2>. QED
    BY <1>2, <2>1, <2>2
<1>3. CASE \E c \in Clients, s \in Servers : rpcCall(c, s)
  BY <1>3, AskMaps DEF Calls!Next
<1>4. CASE \E c \in Clients, s \in Servers, n \in Nat :
             /\ Request(c, s, n) \in net /\ n > srvReq[s][c]
             /\ Handle(s, c, n) /\ UNCHANGED <<conVars, callVars>>
  BY <1>4, RunMaps DEF Calls!Next
<1>. QED
  BY <1>1, <1>2, <1>3, <1>4, StepCases

\* rpcCall runs the handler once and returns its answer, for any number of
\* clients, servers and calls, and whatever packets the network loses, repeats
\* and reorders (netif.hpp:115-137).
THEOREM CallsAreAtomic == Spec => CallsRunOnce
<1>1. IInv /\ [Next]_vars => IInv'
  BY StepCases
<1>. QED
  BY InitInv, <1>1, InitMaps, StepMaps, PTL DEF Spec, CallsRunOnce, Calls!Spec
=============================================================================
