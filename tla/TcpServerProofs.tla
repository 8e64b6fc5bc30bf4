-------------------------- MODULE TcpServerProofs --------------------------
(***************************************************************************)
(* Proofs about TcpServer for every number of processes, clients, tokens   *)
(* and halves in a connection's buffers.                                   *)
(***************************************************************************)
EXTENDS TcpServer, SequenceTheorems, TLAPS

Serving == {"fork", "test", "scan", "send"}  \* from accept to the end of a session
Open == {"fork", "test", "scan", "send", "close"}
Asked(c) == client[c] \in {"recv", "done"}   \* its connection has been accepted

\* A process holds the connection it is serving or about to close, and no other.
Holding ==
  /\ \A p \in Procs : at[p] \notin Open => fds[p] = {}
  /\ \A p \in Procs : at[p] \in Open =>
       nsockfd[p] \in Clients /\ fds[p] = {nsockfd[p]} /\ Asked(nsockfd[p])
  /\ \A c \in Clients : fin[c] <=> Asked(c) /\ \A p \in Procs : c \notin fds[p]

\* A connection is served by one process at a time, and nothing has been sent
\* over it before the first test of sdbuf.
Sessions ==
  /\ \A p, q \in Procs : p # q /\ at[p] \in Serving /\ at[q] \in Serving
       => nsockfd[p] # nsockfd[q]
  /\ \A p \in Procs : at[p] = "fork" => stream[nsockfd[p]] = << >> /\ got[nsockfd[p]] = {}
  /\ \A c \in Clients : ~Asked(c) => stream[c] = << >> /\ got[c] = {}

\* A process that will send what it has read or reads; the others have either
\* seen their "exit" or not read anything yet.
Live(p) == at[p] \in {"scan", "send"} \/ (at[p] = "test" /\ ~sdbuf[p].exit)
Quiet ==
  \A p \in Procs :
    /\ at[p] = "scan" => ~sdbuf[p].exit
    /\ at[p] \in {"accept", "fork", "close", "reap"} =>
         sdbuf[p].exit \/ (input[p] = << >> /\ sdbuf[p].n = 0)

\* The terminal's tokens are numbered as they were typed.
TtyOrder ==
  \A i \in DOMAIN tty :
    /\ tty[i] # << >>
    /\ \A j \in DOMAIN tty[i] : tty[i][j].n \in 1..typed
    /\ \A j, k \in DOMAIN tty[i] : j < k => tty[i][j].n < tty[i][k].n
    /\ \A i2 \in DOMAIN tty : i < i2 =>
         \A j \in DOMAIN tty[i], k \in DOMAIN tty[i2] : tty[i][j].n < tty[i2][k].n

\* What a live process has sent, holds, has read ahead and will read are in order.
ReadAhead(p) ==
  /\ sdbuf[p].n <= typed
  /\ \A i \in DOMAIN input[p] : sdbuf[p].n < input[p][i].n /\ input[p][i].n <= typed
  /\ \A i, j \in DOMAIN input[p] : i < j => input[p][i].n < input[p][j].n
BeforeTty(p) ==
  \A l \in DOMAIN tty : \A k \in DOMAIN tty[l] :
    /\ sdbuf[p].n < tty[l][k].n
    /\ \A i \in DOMAIN input[p] : input[p][i].n < tty[l][k].n
Given(c) == {t.n : t \in got[c]} \cup {stream[c][i].tok.n : i \in DOMAIN stream[c]}
AfterSent(p) == \A n \in Given(nsockfd[p]) : n <= sdbuf[p].n
LiveOrder ==
  \A p \in Procs : Live(p) => ReadAhead(p) /\ BeforeTty(p) /\ AfterSent(p)

IInv == TypeOK /\ Holding /\ Sessions /\ Quiet /\ TtyOrder /\ LiveOrder /\ InOrder

\* Numbers a live process has yet to send, and numbers not read.
Owned(p) == {input[p][i].n : i \in DOMAIN input[p]}
              \cup (IF at[p] = "send" THEN {sdbuf[p].n} ELSE {})
Unread == UNION {{tty[i][j].n : j \in DOMAIN tty[i]} : i \in DOMAIN tty}

\* As long as scanf does not fail, a number is in one place.
OnePlace ==
  /\ ~eof
  /\ \A c, d \in Clients : c # d => Given(c) \cap Given(d) = {}
  /\ \A p, q \in Procs : p # q /\ Live(p) /\ Live(q) => Owned(p) \cap Owned(q) = {}
  /\ \A p \in Procs, c \in Clients : Live(p) => Owned(p) \cap Given(c) = {}
  /\ \A c \in Clients : \A n \in Given(c) : n <= typed /\ \A m \in Unread : n < m

\* A client's halves are in order, those it has received before those to come.
Key(h) == 2 * h.tok.n + h.half
HalvesInOrder ==
  /\ \A c \in Clients : \A i, j \in DOMAIN stream[c] :
       i < j => Key(stream[c][i]) < Key(stream[c][j])
  /\ \A c \in Clients : \A t \in got[c] : \A i \in DOMAIN stream[c] : t.n < stream[c][i].tok.n

OnceInv == OnePlace /\ HalvesInOrder
-----------------------------------------------------------------------------
(* The types.                                                              *)
Half == [tok: Tokens, half: 1..2]

LEMMA HalvesType ==
  ASSUME NEW t \in Tokens
  PROVE  /\ Halves(t) \in Seq(Half) /\ Len(Halves(t)) = 2
         /\ Halves(t)[1] = [tok |-> t, half |-> 1] /\ Halves(t)[2] = [tok |-> t, half |-> 2]
BY DEF Halves, Half

\* What recv returns, what is left, and the tokens that are whole with it.
LEMMA RecvType ==
  ASSUME NEW s \in Seq(Half), NEW k \in 1..Len(s)
  PROVE  /\ SubSeq(s, 1, k) \in Seq(Half) /\ SubSeq(s, k + 1, Len(s)) \in Seq(Half)
         /\ {h.tok : h \in {g \in ToSet(SubSeq(s, 1, k)) : g.half = 2}} \in SUBSET Tokens
<1>1. \A i \in 1..Len(s) : s[i] \in Half
  BY ElementOfSeq
<1>2. SubSeq(s, 1, k) \in Seq(Half) /\ Len(SubSeq(s, 1, k)) = k
  BY <1>1, LenProperties, SubSeqProperties
<1>3. SubSeq(s, k + 1, Len(s)) \in Seq(Half)
  BY <1>1, LenProperties, SubSeqProperties
<1>4. ToSet(SubSeq(s, 1, k)) \in SUBSET Half
  BY <1>2, ElementOfSeq, LenProperties DEF ToSet
<1>5. QED
  BY <1>2, <1>3, <1>4 DEF Half

LEMMA LineType ==
  ASSUME tty \in Seq(Seq(Tokens)), tty # << >>, Head(tty) # << >>
  PROVE  /\ Head(tty) = tty[1] /\ Head(tty)[1] \in Tokens
         /\ Tail(Head(tty)) \in Seq(Tokens) /\ Tail(tty) \in Seq(Seq(Tokens))
BY HeadTailProperties, ElementOfSeq, LenProperties, EmptySeq

LEMMA InitType == Init => TypeOK
<1> SUFFICES ASSUME Init PROVE TypeOK
  OBVIOUS
<1>1. Garbage \subseteq Tokens
  BY ConstAssumption DEF Garbage, Tokens
<1>2. \A g \in Garbage : (IF g.exit THEN Halves(g) ELSE << >>) \in Seq(Half)
  BY <1>1, HalvesType, EmptySeq
<1>3. revbuf \in [Clients -> Seq(Half)]
  BY ZenonT(60), <1>2 DEF Init
<1>4. at \in [Procs -> Steps] /\ parent \in [Procs -> Procs \cup {0}] /\ sdbuf \in [Procs -> Tokens]
  BY <1>1 DEF Init, Steps
<1>5. /\ input \in [Procs -> Seq(Tokens)] /\ tty \in Seq(Seq(Tokens))
      /\ stream \in [Clients -> Seq(Half)]
  BY EmptySeq DEF Init
<1>6. /\ nsockfd \in [Procs -> Clients \cup {NoConn}] /\ fds \in [Procs -> SUBSET Clients]
      /\ typed \in 0..MaxTokens /\ client \in [Clients -> {"off", "pending", "recv", "done"}]
      /\ got \in [Clients -> SUBSET Tokens]
  BY ConstAssumption DEF Init
<1>7. fin \in [Clients -> BOOLEAN] /\ reset \in [Clients -> BOOLEAN] /\ eof \in BOOLEAN
  BY Zenon DEF Init
<1>8. QED
  BY <1>3, <1>4, <1>5, <1>6, <1>7 DEF TypeOK, Half

LEMMA NextType == TypeOK /\ TtyOrder /\ [Next]_vars => TypeOK'
<1> SUFFICES ASSUME TypeOK, TtyOrder, [Next]_vars PROVE TypeOK'
  OBVIOUS
<1>1. ASSUME NEW p \in Procs, Accept(p) PROVE TypeOK'
  <2>1. PICK c \in Clients : /\ client' = [client EXCEPT ![c] = "recv"]
                             /\ nsockfd' = [nsockfd EXCEPT ![p] = c]
                             /\ fds' = [fds EXCEPT ![p] = @ \cup {c}]
    BY <1>1 DEF Accept
  <2>2. /\ client' \in [Clients -> {"off", "pending", "recv", "done"}]
        /\ nsockfd' \in [Procs -> Clients \cup {NoConn}] /\ fds' \in [Procs -> SUBSET Clients]
    BY <2>1 DEF TypeOK
  <2>3. QED
    BY <1>1, <2>2 DEF TypeOK, Accept, Goto, Steps, terminal
<1>2. ASSUME NEW p \in Procs, Fork(p) PROVE TypeOK'
  <2>1. PICK q \in Procs : /\ at' = [at EXCEPT ![p] = "close", ![q] = "test"]
                           /\ parent' = [parent EXCEPT ![q] = p]
                           /\ sdbuf' = [sdbuf EXCEPT ![q] = sdbuf[p]]
                           /\ input' = [input EXCEPT ![q] = input[p]]
                           /\ nsockfd' = [nsockfd EXCEPT ![q] = nsockfd[p]]
                           /\ fds' = [fds EXCEPT ![q] = fds[p]]
    BY <1>2 DEF Fork
  <2>2. /\ at' \in [Procs -> Steps] /\ parent' \in [Procs -> Procs \cup {0}]
        /\ sdbuf' \in [Procs -> Tokens] /\ input' \in [Procs -> Seq(Tokens)]
        /\ nsockfd' \in [Procs -> Clients \cup {NoConn}] /\ fds' \in [Procs -> SUBSET Clients]
    BY <2>1 DEF TypeOK, Steps
  <2>3. QED
    BY <1>2, <2>2 DEF TypeOK, Fork, terminal, net
<1>3. ASSUME NEW p \in Procs, ForkFails(p) \/ Test(p) \/ ScanEof(p) PROVE TypeOK'
  BY <1>3 DEF TypeOK, ForkFails, Test, ScanEof, Goto, Steps, terminal, net
<1>4. ASSUME NEW p \in Procs, Scan(p) PROVE TypeOK'
  <2>1. tty # << >> => Head(tty) # << >>
    BY HeadTailProperties, LenProperties, EmptySeq DEF TypeOK, TtyOrder
  <2>2. sdbuf' \in [Procs -> Tokens] /\ input' \in [Procs -> Seq(Tokens)] /\ tty' \in Seq(Seq(Tokens))
    <3>1. CASE /\ input[p] # << >> /\ sdbuf' = [sdbuf EXCEPT ![p] = Head(input[p])]
               /\ input' = [input EXCEPT ![p] = Tail(@)] /\ UNCHANGED tty
      <4>1. Head(input[p]) \in Tokens /\ Tail(input[p]) \in Seq(Tokens)
        BY <3>1, HeadTailProperties DEF TypeOK
      <4>2. QED
        BY <3>1, <4>1 DEF TypeOK
    <3>2. CASE /\ tty # << >> /\ sdbuf' = [sdbuf EXCEPT ![p] = Head(tty)[1]]
               /\ input' = [input EXCEPT ![p] = Tail(Head(tty))] /\ tty' = Tail(tty)
      <4>1. tty \in Seq(Seq(Tokens)) /\ Head(tty) # << >>
        BY <2>1, <3>2 DEF TypeOK
      <4>2. QED
        BY <3>2, <4>1, LineType DEF TypeOK
    <3>3. QED
      BY <1>4, <3>1, <3>2 DEF Scan
  <2>3. QED
    BY <1>4, <2>2 DEF TypeOK, Scan, Goto, Steps, net
<1>5. ASSUME NEW p \in Procs, Send(p) PROVE TypeOK'
  <2>1. \A c \in Clients : stream[c] \o Halves(sdbuf[p]) \in Seq(Half)
    BY HalvesType, ConcatProperties DEF TypeOK, Half
  <2>2. stream' \in [Clients -> Seq(Half)] /\ reset' \in [Clients -> BOOLEAN]
    <3>1. stream \in [Clients -> Seq(Half)] /\ reset \in [Clients -> BOOLEAN]
      BY DEF TypeOK, Half
    <3>2. CASE stream' = [stream EXCEPT ![nsockfd[p]] = @ \o Halves(sdbuf[p])] /\ UNCHANGED reset
      BY <2>1, <3>1, <3>2
    <3>3. CASE reset' = [reset EXCEPT ![nsockfd[p]] = TRUE] /\ UNCHANGED stream
      BY <3>1, <3>3
    <3>4. QED
      BY <1>5, <3>2, <3>3 DEF Send
  <2>3. QED
    BY <1>5, <2>2 DEF TypeOK, Send, Goto, Steps, terminal, Half
<1>6. ASSUME NEW p \in Procs, SendFails(p) \/ Close(p) PROVE TypeOK'
  <2>1. fds' \in [Procs -> SUBSET Clients] /\ fin' \in [Clients -> BOOLEAN]
    <3>1. PICK cs : Closes(p, cs)
      BY <1>6 DEF SendFails, Close
    <3>2. fds' \in [Procs -> SUBSET Clients]
      BY <3>1 DEF Closes, TypeOK
    <3>3. fin' \in [Clients -> BOOLEAN]
      BY <3>1, Zenon DEF Closes, TypeOK
    <3>4. QED
      BY <3>2, <3>3
  <2>2. at' \in [Procs -> Steps] /\ parent' \in [Procs -> Procs \cup {0}]
    BY ZenonT(60), <1>6 DEF TypeOK, SendFails, Close, Goto, Steps
  <2>3. QED
    BY <1>6, <2>1, <2>2 DEF TypeOK, SendFails, Close, terminal
<1>7. ASSUME NEW p \in Procs, Reap(p) PROVE TypeOK'
  BY <1>7 DEF TypeOK, Reap, Steps, terminal, net
<1>8. CASE Type
  <2>0. PICK k \in 1..2 : \E e \in [1..k -> BOOLEAN] :
          /\ typed + k <= MaxTokens /\ typed' = typed + k
          /\ tty' = Append(tty, [i \in 1..k |-> [n |-> typed + i, exit |-> e[i]]])
    BY <1>8 DEF Type
  <2>1. PICK e \in [1..k -> BOOLEAN] :
          /\ typed + k <= MaxTokens /\ typed' = typed + k
          /\ tty' = Append(tty, [i \in 1..k |-> [n |-> typed + i, exit |-> e[i]]])
    BY <2>0
  <2>2. [i \in 1..k |-> [n |-> typed + i, exit |-> e[i]]] \in Seq(Tokens)
    BY <2>1, ConstAssumption DEF TypeOK, Tokens
  <2>3. tty' \in Seq(Seq(Tokens)) /\ typed' \in 0..MaxTokens
    BY <2>1, <2>2, AppendProperties, ConstAssumption DEF TypeOK
  <2>4. QED
    BY <1>8, <2>3 DEF TypeOK, Type, server, net
<1>9. CASE EndOfFile
  BY <1>9 DEF TypeOK, EndOfFile, server, net
<1>10. ASSUME NEW c \in Clients, Connect(c) PROVE TypeOK'
  BY <1>10 DEF TypeOK, Connect, server, terminal
<1>11. ASSUME NEW c \in Clients, Recv(c) PROVE TypeOK'
  <2>1. PICK k \in 1..Len(stream[c]) :
          LET num == SubSeq(stream[c], 1, k) IN
          /\ revbuf' = [revbuf EXCEPT ![c] = num]
          /\ stream' = [stream EXCEPT ![c] = SubSeq(@, k + 1, Len(@))]
          /\ got' = [got EXCEPT ![c] = @ \cup {h.tok : h \in {g \in ToSet(num) : g.half = 2}}]
    BY <1>11 DEF Recv
  <2>2. /\ revbuf' \in [Clients -> Seq(Half)] /\ stream' \in [Clients -> Seq(Half)]
        /\ got' \in [Clients -> SUBSET Tokens]
    BY <2>1, RecvType DEF TypeOK, Half
  <2>3. QED
    BY <1>11, <2>2 DEF TypeOK, Recv, server, terminal, Half
<1>12. ASSUME NEW c \in Clients, Leave(c) \/ Killed(c) PROVE TypeOK'
  <2>1. stream' \in [Clients -> Seq(Half)] /\ reset' \in [Clients -> BOOLEAN]
    <3>1. << >> \in Seq(Half) /\ (stream[c] # << >>) \in BOOLEAN
      BY EmptySeq
    <3>2. /\ stream' = [stream EXCEPT ![c] = << >>]
          /\ reset' = [reset EXCEPT ![c] = stream[c] # << >>]
      BY <1>12 DEF Leave, Killed
    <3>3. stream' \in [Clients -> Seq(Half)]
      BY <3>1, <3>2 DEF TypeOK, Half
    <3>4. reset' \in [Clients -> BOOLEAN]
      BY <3>1, <3>2, Zenon DEF TypeOK
    <3>5. QED
      BY <3>3, <3>4
  <2>2. QED
    BY <1>12, <2>1 DEF TypeOK, Leave, Killed, server, terminal, Half
<1>13. CASE UNCHANGED vars
  BY <1>13 DEF TypeOK, vars, server, terminal, net
<1>14. QED
  BY <1>1, <1>2, <1>3, <1>4, <1>5, <1>6, <1>7, <1>8, <1>9, <1>10, <1>11, <1>12, <1>13
     DEF Next, User, Process, Client
-----------------------------------------------------------------------------
(* Connections.                                                            *)
LEMMA NextHolding == TypeOK /\ Holding /\ [Next]_vars => Holding'
<1> SUFFICES ASSUME TypeOK, Holding, [Next]_vars PROVE Holding'
  OBVIOUS
<1> USE DEF Holding, Asked, Open
<1>0. /\ at \in [Procs -> Steps] /\ nsockfd \in [Procs -> Clients \cup {NoConn}]
      /\ fds \in [Procs -> SUBSET Clients] /\ fin \in [Clients -> BOOLEAN]
      /\ client \in [Clients -> {"off", "pending", "recv", "done"}]
  BY DEF TypeOK
<1>1. ASSUME NEW p \in Procs, Accept(p) PROVE Holding'
  <2>1. PICK c \in Clients : /\ client[c] = "pending"
                             /\ client' = [client EXCEPT ![c] = "recv"]
                             /\ nsockfd' = [nsockfd EXCEPT ![p] = c]
                             /\ fds' = [fds EXCEPT ![p] = @ \cup {c}]
    BY <1>1 DEF Accept
  <2>2. at[p] = "accept" /\ at' = [at EXCEPT ![p] = "fork"] /\ fin' = fin
    BY <1>1 DEF Accept, Goto
  <2>3. fds[p] = {} /\ \A q \in Procs : c \notin fds[q]
    BY <1>0, <2>1, <2>2
  <2>4. fds'[p] = {c} /\ \A q \in Procs \ {p} : fds'[q] = fds[q]
    BY <1>0, <2>1, <2>3
  <2>5. QED
    BY <1>0, <2>1, <2>2, <2>3, <2>4
<1>2. ASSUME NEW p \in Procs, Fork(p) PROVE Holding'
  <2>1. PICK q \in Procs : /\ at[q] = "free"
                           /\ at' = [at EXCEPT ![p] = "close", ![q] = "test"]
                           /\ nsockfd' = [nsockfd EXCEPT ![q] = nsockfd[p]]
                           /\ fds' = [fds EXCEPT ![q] = fds[p]]
    BY <1>2 DEF Fork
  <2>2. at[p] = "fork" /\ p # q /\ client' = client /\ fin' = fin
    BY <1>2, <2>1 DEF Fork, net
  <2>3. \A c \in Clients : (\A r \in Procs : c \notin fds'[r]) <=> \A r \in Procs : c \notin fds[r]
    BY <1>0, <2>1, <2>2
  <2>4. QED
    BY <1>0, <2>1, <2>2, <2>3
<1>3. ASSUME NEW p \in Procs, ForkFails(p) \/ Test(p) \/ ScanEof(p) \/ Scan(p) \/ Send(p)
      PROVE  Holding'
  <2>1. at[p] \in Open /\ at'[p] \in Open /\ \A q \in Procs \ {p} : at'[q] = at[q]
    BY ZenonT(60), <1>0, <1>3 DEF ForkFails, Test, ScanEof, Scan, Send, Goto
  <2>2. UNCHANGED <<nsockfd, fds, client, fin>>
    BY <1>3 DEF ForkFails, Test, ScanEof, Scan, Send, net
  <2>3. QED
    BY <2>1, <2>2
<1>4. ASSUME NEW p \in Procs, SendFails(p) \/ Close(p) PROVE Holding'
  <2>1. /\ fds[p] = {nsockfd[p]} /\ Closes(p, {nsockfd[p]}) /\ at[p] \in Open
        /\ nsockfd' = nsockfd /\ client' = client
    BY <1>4 DEF SendFails, Close
  <2>2. /\ at'[p] \notin Open
        /\ \A q \in Procs \ {p} : at'[q] = at[q] \/ (at[q] \notin Open /\ at'[q] \notin Open)
    <3>1. CASE SendFails(p)
      BY <1>0, <3>1 DEF SendFails
    <3>2. CASE Close(p)
      BY <1>0, <3>2 DEF Close, Goto
    <3>3. QED
      BY <1>4, <3>1, <3>2
  <2>3. /\ fds'[p] = {} /\ \A q \in Procs \ {p} : fds'[q] = fds[q]
        /\ \A c \in Clients : fin'[c] <=> fin[c] \/ (c = nsockfd[p] /\ \A q \in Procs : c \notin fds'[q])
    <3>1. fds' = [fds EXCEPT ![p] = @ \ {nsockfd[p]}]
      BY <2>1 DEF Closes
    <3>2. fds'[p] = {} /\ \A q \in Procs \ {p} : fds'[q] = fds[q]
      BY <1>0, <2>1, <3>1
    <3>3. \A c \in Clients : fin'[c] = (fin[c] \/ (c \in {nsockfd[p]} /\ \A q \in Procs : c \notin fds'[q]))
      BY <2>1, Zenon DEF Closes
    <3>4. QED
      BY <3>2, <3>3
  <2>4. QED
    BY <2>1, <2>2, <2>3
<1>5. ASSUME NEW p \in Procs, Reap(p) PROVE Holding'
  <2>1. \A q \in Procs : at'[q] = at[q] \/ (at[q] \notin Open /\ at'[q] \notin Open)
    BY <1>0, <1>5 DEF Reap
  <2>2. UNCHANGED <<nsockfd, fds, client, fin>>
    BY <1>5 DEF Reap, net
  <2>3. QED
    BY <2>1, <2>2
<1>6. CASE Type \/ EndOfFile
  BY <1>6 DEF Type, EndOfFile, server, net
<1>7. ASSUME NEW c \in Clients, Connect(c) \/ Recv(c) \/ Leave(c) \/ Killed(c) PROVE Holding'
  <2>1. UNCHANGED <<at, nsockfd, fds, fin>>
    BY <1>7 DEF Connect, Recv, Leave, Killed, server
  <2>2. \A d \in Clients : Asked(d)' <=> Asked(d)
    BY <1>0, <1>7 DEF Connect, Recv, Leave, Killed
  <2>3. QED
    BY <2>1, <2>2
<1>8. CASE UNCHANGED vars
  BY <1>8 DEF vars, server, net
<1>9. QED
  BY <1>1, <1>2, <1>3, <1>4, <1>5, <1>6, <1>7, <1>8 DEF Next, User, Process, Client

LEMMA NextQuiet == TypeOK /\ Quiet /\ [Next]_vars => Quiet'
<1> SUFFICES ASSUME TypeOK, Quiet, [Next]_vars PROVE Quiet'
  OBVIOUS
<1> USE DEF Quiet, TypeOK
<1>1. ASSUME NEW p \in Procs, Process(p) PROVE Quiet'
  <2>1. CASE Fork(p)
    BY <2>1 DEF Fork
  <2>2. CASE Accept(p) \/ ForkFails(p) \/ Test(p) \/ ScanEof(p)
    BY <2>2 DEF Accept, ForkFails, Test, ScanEof, Goto
  <2>3. CASE Scan(p) \/ Send(p)
    BY ZenonT(60), <2>3 DEF Scan, Send, Goto
  <2>4. CASE SendFails(p) \/ Close(p) \/ Reap(p)
    <3>1. UNCHANGED <<sdbuf, input>>
      BY <2>4 DEF SendFails, Close, Reap
    <3>2. /\ \/ at'[p] = "accept" /\ at[p] = "reap"
             \/ at'[p] = "reap" /\ at[p] = "close"
             \/ at'[p] \in {"free", "dead"}
          /\ \A q \in Procs \ {p} : at'[q] = at[q] \/ at'[q] = "free"
      <4>1. CASE SendFails(p)
        BY <4>1 DEF SendFails
      <4>2. CASE Close(p)
        BY <4>2 DEF Close, Goto
      <4>3. CASE Reap(p)
        BY <4>3 DEF Reap
      <4>4. QED
        BY <2>4, <4>1, <4>2, <4>3
    <3>3. QED
      BY <3>1, <3>2
  <2>5. QED
    BY <1>1, <2>1, <2>2, <2>3, <2>4 DEF Process
<1>2. CASE UNCHANGED server
  BY <1>2 DEF server
<1>3. QED
  BY <1>1, <1>2 DEF Next, User, Client, Type, EndOfFile, Connect, Recv, Leave, Killed, vars

LEMMA NextSessions == TypeOK /\ Holding /\ Sessions /\ [Next]_vars => Sessions'
<1> SUFFICES ASSUME TypeOK, Holding, Sessions, [Next]_vars PROVE Sessions'
  OBVIOUS
<1> USE DEF Sessions, Asked, Serving
<1>0. /\ at \in [Procs -> Steps] /\ nsockfd \in [Procs -> Clients \cup {NoConn}]
      /\ client \in [Clients -> {"off", "pending", "recv", "done"}]
      /\ stream \in [Clients -> Seq(Half)] /\ got \in [Clients -> SUBSET Tokens]
  BY DEF TypeOK, Half
<1>1. \A p \in Procs : at[p] \in Serving => nsockfd[p] \in Clients /\ Asked(nsockfd[p])
  BY DEF Holding, Open
<1>2. ASSUME NEW p \in Procs, Accept(p) PROVE Sessions'
  <2>1. PICK c \in Clients : /\ client[c] = "pending"
                             /\ client' = [client EXCEPT ![c] = "recv"]
                             /\ nsockfd' = [nsockfd EXCEPT ![p] = c]
    BY <1>2 DEF Accept
  <2>2. at' = [at EXCEPT ![p] = "fork"] /\ UNCHANGED <<stream, got>>
    BY <1>2 DEF Accept, Goto
  <2>3. QED
    BY <1>0, <1>1, <2>1, <2>2
<1>3. ASSUME NEW p \in Procs, Fork(p) PROVE Sessions'
  <2>1. PICK q \in Procs : /\ at[q] = "free"
                           /\ at' = [at EXCEPT ![p] = "close", ![q] = "test"]
                           /\ nsockfd' = [nsockfd EXCEPT ![q] = nsockfd[p]]
    BY <1>3 DEF Fork
  <2>2. at[p] = "fork" /\ p # q /\ UNCHANGED <<client, stream, got>>
    BY <1>3, <2>1 DEF Fork, net
  <2>3. QED
    BY <1>0, <1>1, <2>1, <2>2
<1>4. ASSUME NEW p \in Procs,
             ForkFails(p) \/ Test(p) \/ ScanEof(p) \/ Scan(p) \/ SendFails(p) \/ Close(p) \/ Reap(p)
      PROVE  Sessions'
  <2>1. \A q \in Procs : /\ at'[q] \in Serving => at[q] \in Serving
                         /\ at'[q] = "fork" => at[q] = "fork"
    <3>1. CASE ForkFails(p) \/ Test(p) \/ ScanEof(p) \/ Scan(p) \/ Close(p)
      BY <1>0, <3>1 DEF ForkFails, Test, ScanEof, Scan, Close, Goto
    <3>2. CASE SendFails(p)
      BY <1>0, <3>2 DEF SendFails
    <3>3. CASE Reap(p)
      BY <1>0, <3>3 DEF Reap
    <3>4. QED
      BY <1>4, <3>1, <3>2, <3>3
  <2>2. UNCHANGED <<nsockfd, client, stream, got>>
    BY <1>4 DEF ForkFails, Test, ScanEof, Scan, SendFails, Close, Reap, net
  <2>3. QED
    BY <2>1, <2>2
<1>5. ASSUME NEW p \in Procs, Send(p) PROVE Sessions'
  <2>1. /\ at[p] = "send" /\ at' = [at EXCEPT ![p] = "test"] /\ UNCHANGED <<nsockfd, client, got>>
        /\ \A c \in Clients \ {nsockfd[p]} : stream'[c] = stream[c]
    BY <1>0, <1>5 DEF Send, Goto
  <2>2. QED
    BY <1>0, <1>1, <2>1
<1>6. CASE Type \/ EndOfFile
  BY <1>6 DEF Type, EndOfFile, server, net
<1>7. ASSUME NEW c \in Clients, Connect(c) PROVE Sessions'
  BY <1>0, <1>1, <1>7 DEF Connect, server
<1>8. ASSUME NEW c \in Clients, Recv(c) \/ Leave(c) \/ Killed(c) PROVE Sessions'
  <2>1. /\ UNCHANGED <<at, nsockfd>> /\ Asked(c)
        /\ \A d \in Clients : Asked(d)' <=> Asked(d)
    BY <1>0, <1>8 DEF Recv, Leave, Killed, server
  <2>2. \A d \in Clients \ {c} : stream'[d] = stream[d] /\ got'[d] = got[d]
    BY <1>0, <1>8 DEF Recv, Leave, Killed
  <2>3. stream[c] # << >> \/ (stream'[c] = << >> /\ got'[c] = got[c])
    BY <1>0, <1>8 DEF Recv, Leave, Killed
  <2>4. QED
    BY <1>1, <2>1, <2>2, <2>3
<1>9. CASE UNCHANGED vars
  BY <1>9 DEF vars, server, net
<1>10. QED
  BY <1>2, <1>3, <1>4, <1>5, <1>6, <1>7, <1>8, <1>9 DEF Next, User, Process, Client
-----------------------------------------------------------------------------
(* What the steps that move tokens do, by positions.                       *)
LEMMA ScanStep ==
  ASSUME TypeOK, TtyOrder, NEW p \in Procs, Scan(p)
  PROVE  /\ at[p] = "scan" /\ at' = [at EXCEPT ![p] = "send"]
         /\ UNCHANGED <<nsockfd, typed, net>>
         /\ \A q \in Procs \ {p} : sdbuf'[q] = sdbuf[q] /\ input'[q] = input[q]
         /\ \/ /\ tty' = tty /\ input[p] # << >> /\ sdbuf'[p] = input[p][1]
               /\ DOMAIN input'[p] = 1..(Len(input[p]) - 1)
               /\ \A i \in DOMAIN input'[p] : input'[p][i] = input[p][i + 1]
            \/ /\ tty # << >> /\ tty[1] # << >> /\ sdbuf'[p] = tty[1][1] /\ input[p] = << >>
               /\ DOMAIN input'[p] = 1..(Len(tty[1]) - 1)
               /\ \A i \in DOMAIN input'[p] : input'[p][i] = tty[1][i + 1]
               /\ DOMAIN tty' = 1..(Len(tty) - 1)
               /\ \A i \in DOMAIN tty' : tty'[i] = tty[i + 1]
<1>0. /\ at \in [Procs -> Steps] /\ sdbuf \in [Procs -> Tokens] /\ input \in [Procs -> Seq(Tokens)]
      /\ tty \in Seq(Seq(Tokens))
  BY DEF TypeOK
<1>1. /\ at[p] = "scan" /\ at' = [at EXCEPT ![p] = "send"]
      /\ UNCHANGED <<nsockfd, typed, net>>
  BY DEF Scan, Goto
<1>2. CASE /\ input[p] # << >> /\ UNCHANGED tty
           /\ sdbuf' = [sdbuf EXCEPT ![p] = Head(input[p])]
           /\ input' = [input EXCEPT ![p] = Tail(@)]
  <2>1. /\ input[p] \in Seq(Tokens) /\ Head(input[p]) = input[p][1]
        /\ Tail(input[p]) \in Seq(Tokens) /\ Len(Tail(input[p])) = Len(input[p]) - 1
        /\ \A i \in 1..Len(Tail(input[p])) : Tail(input[p])[i] = input[p][i + 1]
    BY <1>0, <1>2, HeadTailProperties
  <2>2. DOMAIN Tail(input[p]) = 1..(Len(input[p]) - 1)
    BY <2>1, LenProperties
  <2>3. QED
    BY <1>0, <1>1, <1>2, <2>1, <2>2
<1>3. CASE /\ input[p] = << >> /\ tty # << >>
           /\ sdbuf' = [sdbuf EXCEPT ![p] = Head(tty)[1]]
           /\ input' = [input EXCEPT ![p] = Tail(Head(tty))]
           /\ tty' = Tail(tty)
  <2>1. Head(tty) = tty[1] /\ tty[1] \in Seq(Tokens) /\ 1 \in DOMAIN tty
    BY <1>0, <1>3, HeadTailProperties, LenProperties, EmptySeq
  <2>2. tty[1] # << >>
    BY <2>1 DEF TtyOrder
  <2>3. /\ Tail(tty[1]) \in Seq(Tokens) /\ Len(Tail(tty[1])) = Len(tty[1]) - 1
        /\ \A i \in 1..Len(Tail(tty[1])) : Tail(tty[1])[i] = tty[1][i + 1]
    BY <2>1, <2>2, HeadTailProperties
  <2>4. /\ Tail(tty) \in Seq(Seq(Tokens)) /\ Len(Tail(tty)) = Len(tty) - 1
        /\ \A i \in 1..Len(Tail(tty)) : Tail(tty)[i] = tty[i + 1]
    BY <1>0, <1>3, HeadTailProperties
  <2>5. DOMAIN Tail(tty) = 1..(Len(tty) - 1) /\ DOMAIN Tail(tty[1]) = 1..(Len(tty[1]) - 1)
    BY <2>3, <2>4, LenProperties
  <2>6. QED
    BY <1>0, <1>1, <1>3, <2>1, <2>2, <2>3, <2>4, <2>5
<1>4. QED
  BY <1>2, <1>3 DEF Scan

LEMMA SendStep ==
  ASSUME TypeOK, Holding, NEW p \in Procs, Send(p)
  PROVE  LET c == nsockfd[p] IN
         /\ c \in Clients /\ at[p] = "send" /\ at' = [at EXCEPT ![p] = "test"]
         /\ UNCHANGED <<sdbuf, input, nsockfd, terminal, client, got>>
         /\ \A d \in Clients \ {c} : stream'[d] = stream[d]
         /\ \/ stream' = stream
            \/ /\ DOMAIN stream'[c] = 1..(Len(stream[c]) + 2)
               /\ \A i \in 1..Len(stream[c]) : stream'[c][i] = stream[c][i]
               /\ stream'[c][Len(stream[c]) + 1] = [tok |-> sdbuf[p], half |-> 1]
               /\ stream'[c][Len(stream[c]) + 2] = [tok |-> sdbuf[p], half |-> 2]
<1> DEFINE c == nsockfd[p]
<1>0. /\ at \in [Procs -> Steps] /\ sdbuf \in [Procs -> Tokens] /\ stream \in [Clients -> Seq(Half)]
  BY DEF TypeOK, Half
<1>1. /\ at[p] = "send" /\ at' = [at EXCEPT ![p] = "test"] /\ c \in Clients
      /\ UNCHANGED <<sdbuf, input, nsockfd, terminal, client, got>>
  BY DEF Send, Goto, Holding, Open
<1>2. CASE stream' = stream
  BY <1>1, <1>2
<1>3. CASE stream' = [stream EXCEPT ![c] = @ \o Halves(sdbuf[p])]
  <2> DEFINE h == Halves(sdbuf[p])
             s == stream[c] \o h
  <2>1. h \in Seq(Half) /\ Len(h) = 2 /\ h[1] = [tok |-> sdbuf[p], half |-> 1]
        /\ h[2] = [tok |-> sdbuf[p], half |-> 2] /\ stream[c] \in Seq(Half)
    BY <1>0, <1>1, HalvesType
  <2> HIDE DEF h
  <2>2. /\ s \in Seq(Half) /\ Len(s) = Len(stream[c]) + 2
        /\ \A i \in 1..(Len(stream[c]) + 2) : s[i] = IF i <= Len(stream[c]) THEN stream[c][i] ELSE h[i - Len(stream[c])]
    <3>1. /\ s \in Seq(Half) /\ Len(s) = Len(stream[c]) + Len(h)
          /\ \A i \in 1..(Len(stream[c]) + Len(h)) :
               s[i] = IF i <= Len(stream[c]) THEN stream[c][i] ELSE h[i - Len(stream[c])]
      BY <2>1, ConcatProperties
    <3>2. QED
      BY <2>1, <3>1
  <2>3. DOMAIN s = 1..(Len(stream[c]) + 2) /\ Len(stream[c]) \in Nat
    BY <2>1, <2>2, LenProperties
  <2>4. stream'[c] = s /\ \A d \in Clients \ {c} : stream'[d] = stream[d]
    BY <1>0, <1>1, <1>3 DEF h
  <2> HIDE DEF s
  <2>5. /\ \A i \in 1..Len(stream[c]) : s[i] = stream[c][i]
        /\ s[Len(stream[c]) + 1] = h[1] /\ s[Len(stream[c]) + 2] = h[2]
    BY <2>2, <2>3
  <2>6. QED
    BY <1>1, <2>1, <2>3, <2>4, <2>5
<1>4. QED
  BY <1>2, <1>3 DEF Send

LEMMA RecvStep ==
  ASSUME TypeOK, NEW c \in Clients, Recv(c)
  PROVE  /\ UNCHANGED <<server, terminal, client>>
         /\ \A d \in Clients \ {c} : stream'[d] = stream[d] /\ got'[d] = got[d]
         /\ \E k \in 1..Len(stream[c]) :
              /\ DOMAIN stream'[c] = 1..(Len(stream[c]) - k)
              /\ \A i \in DOMAIN stream'[c] : stream'[c][i] = stream[c][k + i]
              /\ \A t \in got'[c] : \/ t \in got[c]
                                    \/ \E i \in 1..k : stream[c][i] = [tok |-> t, half |-> 2]
<1>0. stream \in [Clients -> Seq(Half)] /\ got \in [Clients -> SUBSET Tokens]
  BY DEF TypeOK, Half
<1>1. PICK k \in 1..Len(stream[c]) :
        LET num == SubSeq(stream[c], 1, k) IN
        /\ stream' = [stream EXCEPT ![c] = SubSeq(@, k + 1, Len(@))]
        /\ got' = [got EXCEPT ![c] = @ \cup {h.tok : h \in {g \in ToSet(num) : g.half = 2}}]
  BY DEF Recv
<1>2. \A i \in 1..Len(stream[c]) : stream[c][i] \in Half
  BY <1>0, ElementOfSeq
<1>3. Len(stream[c]) \in Nat
  BY <1>0, LenProperties
<1> DEFINE num == SubSeq(stream[c], 1, k)
           rest == SubSeq(stream[c], k + 1, Len(stream[c]))
<1>4. /\ num \in Seq(Half) /\ Len(num) = k /\ \A i \in 1..k : num[i] = stream[c][i]
  BY <1>2, <1>3, SubSeqProperties
<1>5. /\ rest \in Seq(Half) /\ Len(rest) = Len(stream[c]) - k
      /\ \A i \in 1..(Len(stream[c]) - k) : rest[i] = stream[c][k + i]
  <2>1. \A i \in (k + 1)..Len(stream[c]) : stream[c][i] \in Half
    BY <1>2, <1>3
  <2>2. /\ rest \in Seq(Half)
        /\ Len(rest) = IF k + 1 <= Len(stream[c]) THEN Len(stream[c]) - (k + 1) + 1 ELSE 0
        /\ \A i \in 1..(Len(stream[c]) - (k + 1) + 1) : rest[i] = stream[c][(k + 1) + i - 1]
    BY <1>3, <2>1, SubSeqProperties
  <2>3. QED
    BY <1>3, <2>2
<1>6. DOMAIN num = 1..k /\ DOMAIN rest = 1..(Len(stream[c]) - k)
  BY <1>4, <1>5, LenProperties
<1>7. \A t : t \in {h.tok : h \in {g \in ToSet(num) : g.half = 2}} =>
        \E i \in 1..k : stream[c][i] = [tok |-> t, half |-> 2]
  <2>1. TAKE t
  <2>2. HAVE t \in {h.tok : h \in {g \in ToSet(num) : g.half = 2}}
  <2>3. PICK i \in 1..k : num[i].half = 2 /\ t = num[i].tok
    BY <1>6, <2>2 DEF ToSet
  <2>4. stream[c][i] \in Half /\ stream[c][i].half = 2 /\ stream[c][i].tok = t
    BY <1>2, <1>4, <2>3
  <2>5. QED
    BY <2>4 DEF Half
<1>8. stream'[c] = rest /\ \A d \in Clients \ {c} : stream'[d] = stream[d] /\ got'[d] = got[d]
  BY <1>0, <1>1
<1>9. got'[c] = got[c] \cup {h.tok : h \in {g \in ToSet(num) : g.half = 2}}
  BY <1>0, <1>1
<1>10. UNCHANGED <<server, terminal, client>>
  BY DEF Recv
<1> HIDE DEF num, rest
<1>11. QED
  BY ZenonT(60), <1>5, <1>6, <1>7, <1>8, <1>9, <1>10

LEMMA TypeStep ==
  ASSUME TypeOK, Type
  PROVE  /\ UNCHANGED <<server, net>>
         /\ DOMAIN tty' = 1..(Len(tty) + 1) /\ \A i \in 1..Len(tty) : tty'[i] = tty[i]
         /\ \E k \in 1..2 :
              /\ typed' = typed + k /\ DOMAIN tty'[Len(tty) + 1] = 1..k
              /\ tty'[Len(tty) + 1] # << >>
              /\ \A j \in 1..k : tty'[Len(tty) + 1][j].n = typed + j
<1>1. PICK k \in 1..2 : \E e \in [1..k -> BOOLEAN] :
        /\ typed + k <= MaxTokens /\ typed' = typed + k
        /\ tty' = Append(tty, [i \in 1..k |-> [n |-> typed + i, exit |-> e[i]]])
  BY DEF Type
<1>2. PICK e \in [1..k -> BOOLEAN] :
        /\ typed + k <= MaxTokens /\ typed' = typed + k
        /\ tty' = Append(tty, [i \in 1..k |-> [n |-> typed + i, exit |-> e[i]]])
  BY <1>1
<1> DEFINE l == [i \in 1..k |-> [n |-> typed + i, exit |-> e[i]]]
<1>3. l \in Seq(Tokens)
  BY <1>2, ConstAssumption DEF TypeOK, Tokens
<1>4. DOMAIN l = 1..k /\ l # << >> /\ \A j \in 1..k : l[j].n = typed + j
  OBVIOUS
<1> HIDE DEF l
<1>5. tty \in Seq(Seq(Tokens)) /\ tty' = Append(tty, l)
  BY <1>2 DEF TypeOK, l
<1>6. /\ Len(tty') = Len(tty) + 1 /\ tty' \in Seq(Seq(Tokens))
      /\ \A i \in 1..Len(tty) : tty'[i] = tty[i] /\ tty'[Len(tty) + 1] = l
  BY <1>3, <1>5, AppendProperties
<1>7. tty'[Len(tty) + 1] = l /\ DOMAIN tty' = 1..(Len(tty) + 1)
  BY <1>3, <1>5, <1>6, AppendProperties, LenProperties
<1>8. QED
  BY <1>2, <1>4, <1>6, <1>7 DEF Type
-----------------------------------------------------------------------------
(* The order of tokens.                                                    *)
LEMMA NextTtyOrder == TypeOK /\ TtyOrder /\ [Next]_vars => TtyOrder'
<1> SUFFICES ASSUME TypeOK, TtyOrder, [Next]_vars PROVE TtyOrder'
  OBVIOUS
<1>0. tty \in Seq(Seq(Tokens)) /\ typed \in Nat /\ DOMAIN tty = 1..Len(tty) /\ Len(tty) \in Nat
  BY ConstAssumption, LenProperties DEF TypeOK
<1>1. ASSUME NEW p \in Procs, Scan(p) PROVE TtyOrder'
  <2>1. typed' = typed
    BY <1>1, ScanStep
  <2>2. CASE tty' = tty
    BY <2>1, <2>2 DEF TtyOrder
  <2>3. CASE DOMAIN tty' = 1..(Len(tty) - 1) /\ \A i \in DOMAIN tty' : tty'[i] = tty[i + 1]
    <3>1. \A i \in DOMAIN tty' : i \in Nat /\ i + 1 \in DOMAIN tty
      BY <1>0, <2>3
    <3>2. \A i, j \in DOMAIN tty' : i < j => i + 1 < j + 1
      BY <3>1
    <3>3. QED
      BY <2>1, <2>3, <3>1, <3>2 DEF TtyOrder
  <2>4. QED
    BY <1>1, <2>2, <2>3, ScanStep
<1>2. CASE Type
  <2>1. PICK k \in 1..2 :
          /\ typed' = typed + k /\ DOMAIN tty'[Len(tty) + 1] = 1..k
          /\ tty'[Len(tty) + 1] # << >>
          /\ \A j \in 1..k : tty'[Len(tty) + 1][j].n = typed + j
    BY <1>2, TypeStep
  <2>2. DOMAIN tty' = 1..(Len(tty) + 1) /\ \A i \in 1..Len(tty) : tty'[i] = tty[i]
    BY <1>2, TypeStep
  <2> DEFINE Old(i) == i \in 1..Len(tty)
             N == Len(tty) + 1
  <2>3. \A i \in DOMAIN tty' : Old(i) \/ i = N
    BY <1>0, <2>2
  <2>4. ASSUME NEW i \in DOMAIN tty', Old(i)
        PROVE  /\ tty'[i] = tty[i] /\ tty[i] # << >>
               /\ \A j \in DOMAIN tty[i] : tty[i][j].n \in 1..typed /\ tty[i][j].n \in 1..typed'
               /\ \A j, m \in DOMAIN tty[i] : j < m => tty[i][j].n < tty[i][m].n
    BY <1>0, <2>1, <2>2, <2>4 DEF TtyOrder
  <2>5. /\ tty'[N] # << >>
        /\ \A j \in DOMAIN tty'[N] : tty'[N][j].n \in 1..typed' /\ tty'[N][j].n > typed
        /\ \A j, m \in DOMAIN tty'[N] : j < m => tty'[N][j].n < tty'[N][m].n
    <3>1. DOMAIN tty'[N] = 1..k /\ tty'[N] # << >> /\ typed' = typed + k
      BY <2>1
    <3>2. \A j \in 1..k : tty'[N][j].n = typed + j
      BY <2>1
    <3> HIDE DEF N
    <3>3. QED
      BY SMTT(30), <1>0, <3>1, <3>2
  <2>6. ASSUME NEW i \in DOMAIN tty', NEW i2 \in DOMAIN tty', i < i2,
               NEW j \in DOMAIN tty'[i], NEW m \in DOMAIN tty'[i2]
        PROVE  tty'[i][j].n < tty'[i2][m].n
    <3>1. Old(i)
      BY <1>0, <2>2, <2>6
    <3>2. CASE Old(i2)
      BY <1>0, <2>4, <2>6, <3>1, <3>2 DEF TtyOrder
    <3>3. CASE i2 = N
      BY <1>0, <2>4, <2>5, <2>6, <3>1, <3>3
    <3>4. QED
      BY <2>3, <3>2, <3>3
  <2>7. ASSUME NEW i \in DOMAIN tty'
        PROVE  /\ tty'[i] # << >>
               /\ \A j \in DOMAIN tty'[i] : tty'[i][j].n \in 1..typed'
               /\ \A j, m \in DOMAIN tty'[i] : j < m => tty'[i][j].n < tty'[i][m].n
    BY <2>3, <2>4, <2>5
  <2> HIDE DEF Old, N
  <2>8. QED
    BY <2>6, <2>7 DEF TtyOrder
<1>3. CASE UNCHANGED <<tty, typed>>
  BY <1>3 DEF TtyOrder
<1>4. QED
  BY <1>1, <1>2, <1>3
     DEF Next, User, Process, Client, EndOfFile, Connect, Killed, Recv, Leave, Accept, Fork, ForkFails,
         Test, ScanEof, Send, SendFails, Close, Reap, vars, terminal

\* What each step does to the tokens of a client: Send adds two halves of what is
\* in sdbuf, Recv takes the first halves away, and leaving takes them all.
LEMMA StreamStep ==
  ASSUME TypeOK, Holding, [Next]_vars
  PROVE  \/ stream' = stream /\ got' = got
         \/ \E p \in Procs : Send(p)
         \/ \E c \in Clients : Recv(c)
         \/ \E c \in Clients : /\ UNCHANGED <<server, terminal, got>> /\ stream'[c] = << >>
                              /\ \A d \in Clients \ {c} : stream'[d] = stream[d]
<1>1. ASSUME NEW c \in Clients, Leave(c) \/ Killed(c)
      PROVE  /\ UNCHANGED <<server, terminal, got>> /\ stream'[c] = << >>
             /\ \A d \in Clients \ {c} : stream'[d] = stream[d]
  BY <1>1 DEF Leave, Killed, TypeOK
<1>2. CASE User \/ (\E p \in Procs : Process(p) /\ ~Send(p)) \/ UNCHANGED vars
  <2>1. CASE \E c \in Clients : Killed(c)
    BY <1>1, <2>1
  <2>2. CASE Type \/ EndOfFile \/ \E c \in Clients : Connect(c)
    BY <2>2 DEF Type, EndOfFile, Connect, net
  <2>3. CASE \E p \in Procs : Process(p) /\ ~Send(p)
    BY <2>3 DEF Process, Accept, Fork, ForkFails, Test, Scan, ScanEof, SendFails, Close, Reap, net
  <2>4. QED
    BY <1>2, <2>1, <2>2, <2>3 DEF User, vars, net
<1>3. QED
  BY <1>1, <1>2 DEF Next, Client

\* The tokens of a client by positions.
LEMMA StreamType ==
  ASSUME TypeOK
  PROVE  \A c \in Clients : /\ stream[c] \in Seq(Half) /\ Len(stream[c]) \in Nat
                           /\ DOMAIN stream[c] = 1..Len(stream[c])
                           /\ \A i \in DOMAIN stream[c] : stream[c][i] \in Half
<1>1. \A c \in Clients : stream[c] \in Seq(Half)
  BY DEF TypeOK, Half
<1>2. \A c \in Clients : Len(stream[c]) \in Nat /\ DOMAIN stream[c] = 1..Len(stream[c])
  BY <1>1, LenProperties
<1>3. \A c \in Clients : \A i \in 1..Len(stream[c]) : stream[c][i] \in Half
  BY <1>1, ElementOfSeq
<1>4. QED
  BY <1>1, <1>2, <1>3

LEMMA NextInOrder == TypeOK /\ TypeOK' /\ Holding /\ LiveOrder /\ InOrder /\ [Next]_vars => InOrder'
<1> SUFFICES ASSUME TypeOK, TypeOK', Holding, LiveOrder, InOrder, [Next]_vars PROVE InOrder'
  OBVIOUS
<1>1. \A c \in Clients : /\ Len(stream[c]) \in Nat /\ DOMAIN stream[c] = 1..Len(stream[c])
                         /\ \A i \in DOMAIN stream[c] : stream[c][i].tok.n \in Nat
  BY StreamType, ConstAssumption DEF Half, Tokens
<1>2. stream' \in [Clients -> Seq(Half)]
  BY DEF TypeOK, Half
<1>3. \A c \in Clients : Len(stream'[c]) \in Nat /\ DOMAIN stream'[c] = 1..Len(stream'[c])
  BY <1>2, LenProperties
<1>4. SUFFICES ASSUME NEW c \in Clients, NEW i \in DOMAIN stream'[c], NEW j \in DOMAIN stream'[c], i < j
               PROVE  stream'[c][i].tok.n <= stream'[c][j].tok.n
  BY <1>3 DEF InOrder
<1>5. CASE stream'[c] = stream[c]
  BY <1>1, <1>4, <1>5 DEF InOrder
<1>6. CASE stream'[c] = << >>
  BY <1>4, <1>6
<1>7. ASSUME NEW p \in Procs, Send(p), stream'[c] # stream[c]
      PROVE  stream'[c][i].tok.n <= stream'[c][j].tok.n
  <2>1. /\ c = nsockfd[p] /\ at[p] = "send"
        /\ DOMAIN stream'[c] = 1..(Len(stream[c]) + 2)
        /\ \A m \in 1..Len(stream[c]) : stream'[c][m] = stream[c][m]
        /\ stream'[c][Len(stream[c]) + 1] = [tok |-> sdbuf[p], half |-> 1]
        /\ stream'[c][Len(stream[c]) + 2] = [tok |-> sdbuf[p], half |-> 2]
    BY <1>7, SendStep
  <2>2. \A m \in 1..Len(stream[c]) : stream[c][m].tok.n <= sdbuf[p].n
    BY <1>1, <2>1 DEF LiveOrder, AfterSent, Live, Given
  <2>3. sdbuf[p].n \in Nat
    BY ConstAssumption DEF TypeOK, Tokens
  <2>4. CASE j \in 1..Len(stream[c])
    <3>1. i \in 1..Len(stream[c])
      BY <1>1, <1>4, <2>1, <2>4
    <3>2. stream[c][i].tok.n <= stream[c][j].tok.n
      BY <1>4, <2>4, <3>1 DEF InOrder
    <3>3. QED
      BY <2>1, <2>4, <3>1, <3>2
  <2>5. CASE j \notin 1..Len(stream[c])
    <3>0. ASSUME NEW m \in 1..(Len(stream[c]) + 2), m \notin 1..Len(stream[c])
          PROVE  stream'[c][m].tok.n = sdbuf[p].n
      <4>1. m = Len(stream[c]) + 1 \/ m = Len(stream[c]) + 2
        BY <1>1, <3>0
      <4>2. QED
        BY SMTT(30), <2>1, <4>1
    <3>1. stream'[c][j].tok.n = sdbuf[p].n
      BY <1>4, <2>1, <2>5, <3>0
    <3>2. i \in 1..Len(stream[c]) \/ stream'[c][i].tok.n = sdbuf[p].n
      BY <1>4, <2>1, <3>0
    <3>3. QED
      BY SMTT(30), <2>1, <2>2, <2>3, <3>1, <3>2
  <2>6. QED
    BY <2>4, <2>5
<1>8. ASSUME Recv(c)
      PROVE  stream'[c][i].tok.n <= stream'[c][j].tok.n
  <2>1. PICK k \in 1..Len(stream[c]) :
          /\ DOMAIN stream'[c] = 1..(Len(stream[c]) - k)
          /\ \A m \in DOMAIN stream'[c] : stream'[c][m] = stream[c][k + m]
    BY <1>8, RecvStep
  <2>2. QED
    <3>1. /\ k + i \in 1..Len(stream[c]) /\ k + j \in 1..Len(stream[c]) /\ k + i < k + j
          /\ i \in DOMAIN stream'[c] /\ j \in DOMAIN stream'[c]
      BY <1>1, <1>4, <2>1
    <3>2. stream[c][k + i].tok.n <= stream[c][k + j].tok.n
      BY <3>1 DEF InOrder
    <3>3. QED
      BY <2>1, <3>1, <3>2
<1>9. \A d \in Clients : Recv(d) => d = c \/ stream'[c] = stream[c]
  BY RecvStep
<1>10. QED
  BY <1>5, <1>6, <1>7, <1>8, <1>9, StreamStep

\* The numbers of tokens are natural numbers wherever the tokens are.
LEMMA Numbers ==
  ASSUME TypeOK
  PROVE  /\ typed \in Nat /\ \A p \in Procs : sdbuf[p].n \in Nat
         /\ \A p \in Procs : /\ Len(input[p]) \in Nat /\ DOMAIN input[p] = 1..Len(input[p])
                            /\ \A i \in DOMAIN input[p] : input[p][i].n \in Nat
         /\ Len(tty) \in Nat /\ DOMAIN tty = 1..Len(tty)
         /\ \A l \in DOMAIN tty : /\ Len(tty[l]) \in Nat /\ DOMAIN tty[l] = 1..Len(tty[l])
                                 /\ \A k \in DOMAIN tty[l] : tty[l][k].n \in Nat
         /\ \A c \in Clients : /\ Len(stream[c]) \in Nat /\ DOMAIN stream[c] = 1..Len(stream[c])
                              /\ \A i \in DOMAIN stream[c] : stream[c][i].tok.n \in Nat
<1>1. \A s \in Seq(Tokens) : /\ Len(s) \in Nat /\ DOMAIN s = 1..Len(s)
                            /\ \A i \in DOMAIN s : s[i].n \in Nat
  <2>1. TAKE s \in Seq(Tokens)
  <2>2. Len(s) \in Nat /\ DOMAIN s = 1..Len(s)
    BY LenProperties
  <2>3. \A i \in 1..Len(s) : s[i] \in Tokens
    BY ElementOfSeq
  <2>4. QED
    BY <2>2, <2>3, ConstAssumption DEF Tokens
<1>2. Len(tty) \in Nat /\ DOMAIN tty = 1..Len(tty) /\ \A l \in DOMAIN tty : tty[l] \in Seq(Tokens)
  <2>1. tty \in Seq(Seq(Tokens))
    BY DEF TypeOK
  <2>2. Len(tty) \in Nat /\ DOMAIN tty = 1..Len(tty)
    BY <2>1, LenProperties
  <2>3. QED
    BY <2>1, <2>2, ElementOfSeq
<1>3. /\ typed \in Nat /\ \A p \in Procs : sdbuf[p].n \in Nat
      /\ \A p \in Procs : input[p] \in Seq(Tokens)
  <2>1. /\ typed \in 0..MaxTokens /\ \A p \in Procs : sdbuf[p] \in Tokens
        /\ \A p \in Procs : input[p] \in Seq(Tokens)
    BY DEF TypeOK
  <2>2. \A t \in Tokens : t.n \in Nat
    BY ConstAssumption DEF Tokens
  <2>3. QED
    BY <2>1, <2>2, ConstAssumption
<1>4. \A c \in Clients : /\ Len(stream[c]) \in Nat /\ DOMAIN stream[c] = 1..Len(stream[c])
                         /\ \A i \in DOMAIN stream[c] : stream[c][i].tok.n \in Nat
  BY StreamType, ConstAssumption DEF Half, Tokens
<1>5. QED
  BY <1>1, <1>2, <1>3, <1>4

\* A process that is live after a step was so before, has scanned, or is a new child.
LEMMA LiveStep ==
  ASSUME TypeOK, [Next]_vars, NEW q \in Procs, Live(q)'
  PROVE  \/ Live(q) /\ sdbuf'[q] = sdbuf[q] /\ input'[q] = input[q] /\ nsockfd'[q] = nsockfd[q]
         \/ Scan(q)
         \/ \E p \in Procs : /\ at[p] = "fork" /\ UNCHANGED <<terminal, net>> /\ at'[q] = "test"
                            /\ sdbuf'[q] = sdbuf[p] /\ input'[q] = input[p] /\ nsockfd'[q] = nsockfd[p]
<1>0. /\ at \in [Procs -> Steps] /\ sdbuf \in [Procs -> Tokens] /\ input \in [Procs -> Seq(Tokens)]
      /\ nsockfd \in [Procs -> Clients \cup {NoConn}]
  BY DEF TypeOK
<1>1. CASE UNCHANGED server
  BY <1>1 DEF server, Live
<1>2. ASSUME NEW p \in Procs, Accept(p) PROVE Live(q) /\ UNCHANGED <<sdbuf, input>> /\ nsockfd'[q] = nsockfd[q]
  <2>1. q # p
    BY <1>0, <1>2 DEF Accept, Goto, Live
  <2>2. QED
    BY <1>0, <1>2, <2>1 DEF Accept, Goto, Live
<1>3. ASSUME NEW p \in Procs, Fork(p)
      PROVE  \/ Live(q) /\ sdbuf'[q] = sdbuf[q] /\ input'[q] = input[q] /\ nsockfd'[q] = nsockfd[q]
             \/ /\ at[p] = "fork" /\ UNCHANGED <<terminal, net>> /\ at'[q] = "test"
                /\ sdbuf'[q] = sdbuf[p] /\ input'[q] = input[p] /\ nsockfd'[q] = nsockfd[p]
  <2>1. PICK r \in Procs : /\ at[r] = "free"
                           /\ at' = [at EXCEPT ![p] = "close", ![r] = "test"]
                           /\ sdbuf' = [sdbuf EXCEPT ![r] = sdbuf[p]]
                           /\ input' = [input EXCEPT ![r] = input[p]]
                           /\ nsockfd' = [nsockfd EXCEPT ![r] = nsockfd[p]]
    BY <1>3 DEF Fork
  <2>2. at[p] = "fork" /\ UNCHANGED <<terminal, net>> /\ p # r
    BY <1>3, <2>1 DEF Fork
  <2>3. CASE q = r
    BY <1>0, <2>1, <2>2, <2>3
  <2>4. CASE q # r
    BY <1>0, <2>1, <2>2, <2>4 DEF Live
  <2>5. QED
    BY <2>3, <2>4
<1>4. ASSUME NEW p \in Procs, ForkFails(p) \/ Test(p) \/ ScanEof(p) \/ Send(p) \/ Close(p)
      PROVE  Live(q) /\ UNCHANGED <<sdbuf, input, nsockfd>>
  BY <1>0, <1>4 DEF ForkFails, Test, ScanEof, Send, Close, Goto, Live
<1>5. ASSUME NEW p \in Procs, SendFails(p) \/ Reap(p)
      PROVE  Live(q) /\ UNCHANGED <<sdbuf, input, nsockfd>>
  <2>1. UNCHANGED <<sdbuf, input, nsockfd>>
    BY <1>5 DEF SendFails, Reap
  <2>2. at'[q] = at[q] \/ at'[q] \in {"free", "dead", "accept"}
    <3>1. CASE SendFails(p)
      BY <1>0, <3>1 DEF SendFails
    <3>2. CASE Reap(p)
      BY <1>0, <3>2 DEF Reap
    <3>3. QED
      BY <1>5, <3>1, <3>2
  <2>3. QED
    BY <2>1, <2>2 DEF Live
<1>6. ASSUME NEW p \in Procs, Scan(p), p # q
      PROVE  Live(q) /\ sdbuf'[q] = sdbuf[q] /\ input'[q] = input[q] /\ nsockfd'[q] = nsockfd[q]
  BY <1>0, <1>6 DEF Scan, Goto, Live
<1>7. QED
  BY <1>1, <1>2, <1>3, <1>4, <1>5, <1>6
     DEF Next, User, Process, Client, Type, EndOfFile, Connect, Killed, Recv, Leave, vars

\* The terminal changes by a scan or by what is typed.
LEMMA TtyStep ==
  [Next]_vars => \/ tty' = tty /\ typed' = typed
                 \/ \E p \in Procs : Scan(p)
                 \/ Type
BY DEF Next, User, Process, Client, EndOfFile, Connect, Killed, Recv, Leave, Accept, Fork, ForkFails,
       Test, ScanEof, Send, SendFails, Close, Reap, vars, terminal

LEMMA NextReadAhead ==
  ASSUME TypeOK, Quiet, TtyOrder, LiveOrder, [Next]_vars, NEW q \in Procs, Live(q)'
  PROVE  ReadAhead(q)'
<1>1. CASE Live(q) /\ sdbuf'[q] = sdbuf[q] /\ input'[q] = input[q]
  <2>1. typed' \in Nat /\ typed <= typed'
    <3>1. typed' = typed \/ \E k \in 1..2 : typed' = typed + k
      BY TtyStep, ScanStep, TypeStep
    <3>2. QED
      BY <3>1, Numbers
  <2>2. ReadAhead(q)
    BY <1>1 DEF LiveOrder
  <2>3. QED
    BY <1>1, <2>1, <2>2, Numbers DEF ReadAhead
<1>2. CASE Scan(q)
  <2>1. Live(q)
    BY <1>2 DEF Live, Scan
  <2>2. CASE /\ input[q] # << >> /\ sdbuf'[q] = input[q][1]
             /\ DOMAIN input'[q] = 1..(Len(input[q]) - 1)
             /\ \A i \in DOMAIN input'[q] : input'[q][i] = input[q][i + 1]
    <3>1. /\ 1 \in DOMAIN input[q]
          /\ \A i \in DOMAIN input'[q] : i \in Nat /\ i + 1 \in DOMAIN input[q] /\ 1 < i + 1
      <4>1. input[q] \in Seq(Tokens)
        BY DEF TypeOK
      <4>2. QED
        BY <2>2, <4>1, Numbers, EmptySeq
    <3>2. ReadAhead(q) /\ typed' = typed
      BY <1>2, <2>1, ScanStep DEF LiveOrder
    <3>3. \A i, j \in DOMAIN input'[q] : i < j => i + 1 < j + 1
      BY <3>1
    <3>4. QED
      BY <2>2, <3>1, <3>2, <3>3 DEF ReadAhead
  <2>3. CASE /\ tty # << >> /\ tty[1] # << >> /\ sdbuf'[q] = tty[1][1]
             /\ DOMAIN input'[q] = 1..(Len(tty[1]) - 1)
             /\ \A i \in DOMAIN input'[q] : input'[q][i] = tty[1][i + 1]
    <3>1. /\ 1 \in DOMAIN tty /\ 1 \in DOMAIN tty[1]
          /\ \A i \in DOMAIN input'[q] : i \in Nat /\ i + 1 \in DOMAIN tty[1] /\ 1 < i + 1
      <4>1. tty \in Seq(Seq(Tokens))
        BY DEF TypeOK
      <4>2. 1 \in DOMAIN tty
        BY <2>3, <4>1, Numbers, EmptySeq
      <4>3. tty[1] \in Seq(Tokens)
        BY <4>1, <4>2, Numbers, ElementOfSeq
      <4>4. QED
        BY <2>3, <4>2, <4>3, Numbers, EmptySeq
    <3>2. typed' = typed /\ \A i, j \in DOMAIN input'[q] : i < j => i + 1 < j + 1
      BY <1>2, <3>1, ScanStep
    <3>3. /\ \A j \in DOMAIN tty[1] : tty[1][j].n <= typed
          /\ \A j, k \in DOMAIN tty[1] : j < k => tty[1][j].n < tty[1][k].n
      BY <3>1, Numbers DEF TtyOrder
    <3>4. QED
      BY <2>3, <3>1, <3>2, <3>3 DEF ReadAhead
  <2>4. QED
    BY <1>2, <2>2, <2>3, ScanStep
<1>3. ASSUME NEW p \in Procs, at[p] = "fork", UNCHANGED terminal, at'[q] = "test",
             sdbuf'[q] = sdbuf[p], input'[q] = input[p]
      PROVE  ReadAhead(q)'
  <2>1. input[p] = << >> /\ sdbuf[p].n = 0
    BY <1>3 DEF Quiet, Live
  <2>2. QED
    BY <1>3, <2>1, Numbers DEF ReadAhead, terminal
<1>4. QED
  BY <1>1, <1>2, <1>3, LiveStep

LEMMA NextBeforeTty ==
  ASSUME TypeOK, Quiet, TtyOrder, LiveOrder, [Next]_vars, NEW q \in Procs, Live(q)'
  PROVE  BeforeTty(q)'
<1>1. CASE Live(q) /\ sdbuf'[q] = sdbuf[q] /\ input'[q] = input[q]
  <2>0. ReadAhead(q) /\ BeforeTty(q)
    BY <1>1 DEF LiveOrder
  <2>1. CASE tty' = tty
    BY <1>1, <2>0, <2>1 DEF BeforeTty
  <2>2. CASE DOMAIN tty' = 1..(Len(tty) - 1) /\ \A i \in DOMAIN tty' : tty'[i] = tty[i + 1]
    <3>1. \A i \in DOMAIN tty' : i + 1 \in DOMAIN tty
      BY <2>2, Numbers
    <3>2. QED
      BY <1>1, <2>0, <2>2, <3>1 DEF BeforeTty
  <2>3. CASE Type
    <3>1. PICK k \in 1..2 : /\ DOMAIN tty'[Len(tty) + 1] = 1..k
                            /\ \A j \in 1..k : tty'[Len(tty) + 1][j].n = typed + j
      BY <2>3, TypeStep
    <3>2. DOMAIN tty' = 1..(Len(tty) + 1) /\ \A i \in 1..Len(tty) : tty'[i] = tty[i]
      BY <2>3, TypeStep
    <3>3. \A j \in DOMAIN tty'[Len(tty) + 1] : tty'[Len(tty) + 1][j].n \in Nat /\ typed < tty'[Len(tty) + 1][j].n
      BY <3>1, Numbers
    <3>4. \A i \in DOMAIN tty' : i \in DOMAIN tty \/ i = Len(tty) + 1
      BY <3>2, Numbers
    <3>5. ASSUME NEW l \in DOMAIN tty', NEW k2 \in DOMAIN tty'[l]
          PROVE  /\ sdbuf[q].n < tty'[l][k2].n
                 /\ \A i \in DOMAIN input[q] : input[q][i].n < tty'[l][k2].n
      <4>1. CASE l \in DOMAIN tty
        BY <2>0, <3>2, <3>5, <4>1, Numbers DEF BeforeTty
      <4>2. CASE l = Len(tty) + 1
        BY <2>0, <3>3, <3>5, <4>2, Numbers DEF ReadAhead
      <4>3. QED
        BY <3>4, <4>1, <4>2
    <3>6. QED
      BY <1>1, <3>5 DEF BeforeTty
  <2>4. QED
    BY <2>1, <2>2, <2>3, TtyStep, ScanStep
<1>2. CASE Scan(q)
  <2>1. Live(q)
    BY <1>2 DEF Live, Scan
  <2>2. CASE /\ tty' = tty /\ input[q] # << >> /\ sdbuf'[q] = input[q][1]
             /\ DOMAIN input'[q] = 1..(Len(input[q]) - 1)
             /\ \A i \in DOMAIN input'[q] : input'[q][i] = input[q][i + 1]
    <3>1. 1 \in DOMAIN input[q] /\ \A i \in DOMAIN input'[q] : i + 1 \in DOMAIN input[q]
      <4>1. input[q] \in Seq(Tokens)
        BY DEF TypeOK
      <4>2. QED
        BY <2>2, <4>1, Numbers, EmptySeq
    <3>2. BeforeTty(q)
      BY <2>1 DEF LiveOrder
    <3>3. QED
      BY <2>2, <3>1, <3>2 DEF BeforeTty
  <2>3. CASE /\ tty # << >> /\ tty[1] # << >> /\ sdbuf'[q] = tty[1][1]
             /\ DOMAIN input'[q] = 1..(Len(tty[1]) - 1)
             /\ \A i \in DOMAIN input'[q] : input'[q][i] = tty[1][i + 1]
             /\ DOMAIN tty' = 1..(Len(tty) - 1)
             /\ \A i \in DOMAIN tty' : tty'[i] = tty[i + 1]
    <3>1. 1 \in DOMAIN tty /\ \A i \in DOMAIN tty' : i + 1 \in DOMAIN tty /\ 1 < i + 1
      <4>1. tty \in Seq(Seq(Tokens))
        BY DEF TypeOK
      <4>2. QED
        BY <2>3, <4>1, Numbers, EmptySeq
    <3>2. 1 \in DOMAIN tty[1] /\ \A i \in DOMAIN input'[q] : i + 1 \in DOMAIN tty[1]
      <4>1. tty \in Seq(Seq(Tokens))
        BY DEF TypeOK
      <4>2. tty[1] \in Seq(Tokens)
        BY <3>1, <4>1, Numbers, ElementOfSeq
      <4>3. QED
        BY <2>3, <3>1, <4>2, Numbers, EmptySeq
    <3>3. QED
      BY <2>3, <3>1, <3>2 DEF BeforeTty, TtyOrder
  <2>4. QED
    BY <1>2, <2>2, <2>3, ScanStep
<1>3. ASSUME NEW p \in Procs, at[p] = "fork", UNCHANGED terminal, at'[q] = "test",
             sdbuf'[q] = sdbuf[p], input'[q] = input[p]
      PROVE  BeforeTty(q)'
  <2>1. input[p] = << >> /\ sdbuf[p].n = 0 /\ tty' = tty
    BY <1>3 DEF Quiet, Live, terminal
  <2>2. \A l \in DOMAIN tty : \A k \in DOMAIN tty[l] : 0 < tty[l][k].n
    BY Numbers DEF TtyOrder
  <2>3. QED
    BY <1>3, <2>1, <2>2 DEF BeforeTty
<1>4. QED
  BY <1>1, <1>2, <1>3, LiveStep

\* A client is given what is sent to it, and nothing else.
LEMMA GivenStep ==
  ASSUME TypeOK, Holding, [Next]_vars, NEW c \in Clients
  PROVE  \/ Given(c)' \subseteq Given(c)
         \/ \E p \in Procs : /\ Send(p) /\ nsockfd[p] = c
                            /\ Given(c)' \subseteq Given(c) \cup {sdbuf[p].n}
<1>0. Len(stream[c]) \in Nat /\ DOMAIN stream[c] = 1..Len(stream[c])
  BY Numbers
<1>1. CASE stream'[c] = stream[c] /\ got'[c] = got[c]
  BY <1>1 DEF Given
<1>2. CASE stream'[c] = << >> /\ got'[c] = got[c]
  BY <1>2 DEF Given
<1>3. ASSUME NEW p \in Procs, Send(p), nsockfd[p] = c, stream'[c] # stream[c]
      PROVE  Given(c)' \subseteq Given(c) \cup {sdbuf[p].n}
  <2>1. /\ got' = got /\ DOMAIN stream'[c] = 1..(Len(stream[c]) + 2)
        /\ \A m \in 1..Len(stream[c]) : stream'[c][m] = stream[c][m]
        /\ stream'[c][Len(stream[c]) + 1] = [tok |-> sdbuf[p], half |-> 1]
        /\ stream'[c][Len(stream[c]) + 2] = [tok |-> sdbuf[p], half |-> 2]
    BY <1>3, SendStep
  <2>2. ASSUME NEW m \in DOMAIN stream'[c]
        PROVE  stream'[c][m].tok.n \in Given(c) \cup {sdbuf[p].n}
    <3>1. m \in DOMAIN stream[c] \/ m = Len(stream[c]) + 1 \/ m = Len(stream[c]) + 2
      BY <1>0, <2>1, <2>2
    <3>2. CASE m \in DOMAIN stream[c]
      BY <1>0, <2>1, <3>2 DEF Given
    <3>3. CASE m = Len(stream[c]) + 1 \/ m = Len(stream[c]) + 2
      BY <2>1, <3>3
    <3>4. QED
      BY <3>1, <3>2, <3>3
  <2>3. QED
    BY <2>1, <2>2 DEF Given
<1>4. ASSUME Recv(c) PROVE Given(c)' \subseteq Given(c)
  <2>1. PICK k \in 1..Len(stream[c]) :
          /\ DOMAIN stream'[c] = 1..(Len(stream[c]) - k)
          /\ \A m \in DOMAIN stream'[c] : stream'[c][m] = stream[c][k + m]
          /\ \A t \in got'[c] : \/ t \in got[c]
                                \/ \E i \in 1..k : stream[c][i] = [tok |-> t, half |-> 2]
    BY <1>4, RecvStep
  <2>2. \A m \in DOMAIN stream'[c] : k + m \in DOMAIN stream[c]
    BY <1>0, <2>1
  <2>3. \A t \in got'[c] : t.n \in Given(c)
    <3>1. \A i \in 1..k : i \in DOMAIN stream[c]
      BY <1>0
    <3>2. TAKE t \in got'[c]
    <3>3. CASE t \in got[c]
      BY <3>3 DEF Given
    <3>4. CASE \E i \in 1..k : stream[c][i] = [tok |-> t, half |-> 2]
      <4>1. PICK i \in 1..k : stream[c][i] = [tok |-> t, half |-> 2]
        BY <3>4
      <4>2. i \in DOMAIN stream[c] /\ stream[c][i].tok.n = t.n
        BY <3>1, <4>1
      <4>3. QED
        BY <4>2 DEF Given
    <3>5. QED
      BY <2>1, <3>3, <3>4
  <2>4. QED
    BY <2>1, <2>2, <2>3 DEF Given
<1>5. ASSUME NEW d \in Clients, Recv(d), d # c PROVE stream'[c] = stream[c] /\ got'[c] = got[c]
  BY <1>5, RecvStep
<1>6. ASSUME NEW p \in Procs, Send(p), nsockfd[p] # c PROVE stream'[c] = stream[c] /\ got'[c] = got[c]
  <2>1. UNCHANGED got /\ \A d \in Clients \ {nsockfd[p]} : stream'[d] = stream[d]
    BY <1>6, SendStep
  <2>2. QED
    BY <1>6, <2>1
<1>7. \A p \in Procs : Send(p) => got' = got
  BY SendStep
<1>8. QED
  BY <1>1, <1>2, <1>3, <1>4, <1>5, <1>6, <1>7, StreamStep

\* A scan reads a number above the one before.
LEMMA ScanAbove ==
  ASSUME TypeOK, TtyOrder, LiveOrder, NEW q \in Procs, Scan(q)
  PROVE  sdbuf[q].n < sdbuf'[q].n /\ sdbuf'[q].n \in Nat
<1>1. Live(q)
  BY DEF Live, Scan
<1>2. ReadAhead(q) /\ BeforeTty(q)
  BY <1>1 DEF LiveOrder
<1>3. CASE input[q] # << >> /\ sdbuf'[q] = input[q][1]
  <2>1. 1 \in DOMAIN input[q]
    BY <1>3, Numbers, EmptySeq DEF TypeOK
  <2>2. QED
    BY <1>2, <1>3, <2>1, Numbers DEF ReadAhead
<1>4. CASE tty # << >> /\ tty[1] # << >> /\ sdbuf'[q] = tty[1][1]
  <2>1. 1 \in DOMAIN tty
    BY <1>4, Numbers, EmptySeq DEF TypeOK
  <2>2. 1 \in DOMAIN tty[1]
    <3>1. tty[1] \in Seq(Tokens)
      BY <2>1, Numbers, ElementOfSeq DEF TypeOK
    <3>2. QED
      BY <1>4, <2>1, <3>1, Numbers, EmptySeq
  <2>3. QED
    BY <1>2, <1>4, <2>1, <2>2, Numbers DEF BeforeTty
<1>5. QED
  BY <1>3, <1>4, ScanStep

\* What a client is given is a number.
LEMMA GivenNat ==
  ASSUME TypeOK
  PROVE  \A c \in Clients : Given(c) \subseteq Nat
<1>1. \A c \in Clients : \A t \in got[c] : t.n \in Nat
  BY ConstAssumption DEF TypeOK, Tokens
<1>2. QED
  BY <1>1, Numbers DEF Given

LEMMA NextAfterSent ==
  ASSUME TypeOK, Holding, Sessions, TtyOrder, LiveOrder, [Next]_vars, NEW q \in Procs, Live(q)'
  PROVE  AfterSent(q)'
<1>1. CASE Live(q) /\ sdbuf'[q] = sdbuf[q] /\ nsockfd'[q] = nsockfd[q]
  <2>0. PICK c \in Clients : c = nsockfd[q]
    BY <1>1 DEF Live, Holding, Open
  <2>1. AfterSent(q) /\ at[q] \in Serving
    BY <1>1 DEF LiveOrder, Live, Serving
  <2>2. \A p \in Procs : Send(p) /\ nsockfd[p] = c => p = q
    BY <2>0, <2>1 DEF Sessions, Serving, Send
  <2>3. Given(c)' \subseteq Given(c) \cup {sdbuf[q].n}
    BY <2>2, GivenStep
  <2>4. Given(nsockfd[q])' = Given(c)'
    BY <1>1, <2>0 DEF Given
  <2>5. QED
    BY <1>1, <2>0, <2>1, <2>3, <2>4, Numbers DEF AfterSent
<1>2. CASE Scan(q)
  <2>1. Live(q) /\ nsockfd' = nsockfd /\ nsockfd[q] \in Clients /\ UNCHANGED <<stream, got>>
    BY <1>2 DEF Live, Scan, net, Holding, Open
  <2>2. AfterSent(q) /\ Given(nsockfd[q]) \subseteq Nat
    BY <2>1, GivenNat DEF LiveOrder
  <2>3. Given(nsockfd[q])' = Given(nsockfd[q])
    BY <2>1 DEF Given
  <2>4. \A n \in Given(nsockfd[q]) : n <= sdbuf'[q].n
    BY <1>2, <2>2, ScanAbove, Numbers DEF AfterSent
  <2>5. QED
    BY <2>3, <2>4 DEF AfterSent
<1>3. ASSUME NEW p \in Procs, at[p] = "fork", UNCHANGED net, nsockfd'[q] = nsockfd[p]
      PROVE  AfterSent(q)'
  <2>1. stream'[nsockfd'[q]] = << >> /\ got'[nsockfd'[q]] = {}
    BY <1>3 DEF Sessions, net
  <2>2. QED
    BY <2>1 DEF AfterSent, Given
<1>4. QED
  BY <1>1, <1>2, <1>3, LiveStep
-----------------------------------------------------------------------------
(* The invariant, and what follows of it.                                  *)
LEMMA InitIInv == Init => IInv
<1> SUFFICES ASSUME Init PROVE IInv
  OBVIOUS
<1>1. TypeOK
  BY InitType
<1>2. PICK g \in Garbage : sdbuf = [p \in Procs |-> g]
  BY DEF Init
<1>3. \A p \in Procs : at[p] \in {"accept", "free"} /\ fds[p] = {} /\ input[p] = << >> /\ sdbuf[p].n = 0
  BY <1>2 DEF Init, Garbage
<1>4. \A c \in Clients : client[c] = "off" /\ ~fin[c] /\ stream[c] = << >> /\ got[c] = {}
  BY DEF Init
<1>5. Holding
  BY <1>3, <1>4 DEF Holding, Open, Asked
<1>6. Sessions /\ Quiet /\ LiveOrder
  BY <1>3, <1>4 DEF Sessions, Serving, Asked, Quiet, LiveOrder, Live
<1>7. TtyOrder
  BY DEF Init, TtyOrder
<1>8. InOrder
  BY <1>4 DEF InOrder
<1>9. QED
  BY <1>1, <1>5, <1>6, <1>7, <1>8 DEF IInv

LEMMA NextIInv == IInv /\ [Next]_vars => IInv'
<1> SUFFICES ASSUME IInv, [Next]_vars PROVE IInv'
  OBVIOUS
<1> USE DEF IInv
<1>1. TypeOK'
  BY NextType
<1>2. Holding' /\ Sessions' /\ Quiet' /\ TtyOrder'
  BY NextHolding, NextSessions, NextQuiet, NextTtyOrder
<1>3. InOrder'
  BY <1>1, NextInOrder
<1>4. LiveOrder'
  <2>1. \A q \in Procs : Live(q)' => ReadAhead(q)'
    BY NextReadAhead
  <2>2. \A q \in Procs : Live(q)' => BeforeTty(q)'
    BY NextBeforeTty
  <2>3. \A q \in Procs : Live(q)' => AfterSent(q)'
    BY NextAfterSent
  <2>4. QED
    BY <2>1, <2>2, <2>3 DEF LiveOrder
<1>5. QED
  BY <1>1, <1>2, <1>3, <1>4

LEMMA IInvHolds == Spec => []IInv
BY InitIInv, NextIInv, PTL DEF Spec

\* The processes, the terminal and the connections stay within their types.
THEOREM TypeCorrect == Spec => []TypeOK
BY IInvHolds, PTL DEF IInv

\* No connection leaks over the forks, whatever the number of processes, of
\* clients, and of clients killed (tcp_server.c:75, 86, 93).
THEOREM NoLeakCorrect == Spec => []NoLeak
<1>1. IInv => NoLeak
  BY DEF IInv, TypeOK, Holding, Asked, Open, NoLeak
<1>2. QED
  BY <1>1, IInvHolds, PTL

\* A client receives its session's tokens in the order they were typed, also
\* when the terminal ends and the last token is sent again and again.
THEOREM InOrderCorrect == Spec => []InOrder
BY IInvHolds, PTL DEF IInv
-----------------------------------------------------------------------------
(* A token goes to one client, once, unless scanf fails and leaves it in   *)
(* sdbuf to be sent again.                                                 *)

\* A step of the terminal leaves what is not read in order.
LEMMA UnreadStep ==
  ASSUME TypeOK, TtyOrder, [Next]_vars
  PROVE  \/ Unread' \subseteq Unread /\ typed' = typed
         \/ Type /\ typed <= typed' /\ typed' \in Nat
              /\ \A n \in Unread' : n \in Unread \/ (n \in Nat /\ typed < n)
<1>1. CASE tty' = tty /\ typed' = typed
  BY <1>1 DEF Unread
<1>2. ASSUME NEW p \in Procs, Scan(p) PROVE Unread' \subseteq Unread /\ typed' = typed
  <2>1. typed' = typed
    BY <1>2, ScanStep
  <2>2. CASE tty' = tty
    BY <2>1, <2>2 DEF Unread
  <2>3. CASE DOMAIN tty' = 1..(Len(tty) - 1) /\ \A i \in DOMAIN tty' : tty'[i] = tty[i + 1]
    <3>1. \A i \in DOMAIN tty' : i + 1 \in DOMAIN tty
      BY <2>3, Numbers
    <3>2. QED
      BY <2>1, <2>3, <3>1 DEF Unread
  <2>4. QED
    BY <1>2, <2>2, <2>3, ScanStep
<1>3. CASE Type
  <2>1. PICK k \in 1..2 : /\ typed' = typed + k /\ DOMAIN tty'[Len(tty) + 1] = 1..k
                          /\ \A j \in 1..k : tty'[Len(tty) + 1][j].n = typed + j
    BY <1>3, TypeStep
  <2>2. DOMAIN tty' = 1..(Len(tty) + 1) /\ \A i \in 1..Len(tty) : tty'[i] = tty[i]
    BY <1>3, TypeStep
  <2>3. \A i \in DOMAIN tty' : i \in DOMAIN tty \/ i = Len(tty) + 1
    BY <2>2, Numbers
  <2>4. ASSUME NEW i \in DOMAIN tty', NEW j \in DOMAIN tty'[i]
        PROVE  tty'[i][j].n \in Unread \/ (tty'[i][j].n \in Nat /\ typed < tty'[i][j].n)
    <3>1. CASE i \in DOMAIN tty
      BY <2>2, <2>4, <3>1, Numbers DEF Unread
    <3>2. CASE i = Len(tty) + 1
      <4>1. j \in 1..k /\ tty'[i][j].n = typed + j
        BY <2>1, <2>4, <3>2
      <4>2. QED
        BY <4>1, Numbers
    <3>3. QED
      BY <2>3, <3>1, <3>2
  <2>5. \A n \in Unread' : n \in Unread \/ (n \in Nat /\ typed < n)
    BY <2>4 DEF Unread
  <2>6. QED
    BY <1>3, <2>1, <2>5, Numbers
<1>4. QED
  BY <1>1, <1>2, <1>3, TtyStep

\* A process owns what it has owned and what it reads, which nobody has read before.
LEMMA OwnedStep ==
  ASSUME IInv, ~eof, [Next]_vars, NEW q \in Procs, Live(q)'
  PROVE  \/ Live(q) /\ Owned(q)' \subseteq Owned(q)
         \/ Scan(q) /\ Owned(q)' \subseteq Unread /\ stream' = stream /\ got' = got
         \/ Owned(q)' = {}
<1> USE DEF IInv
<1>1. CASE Live(q) /\ sdbuf'[q] = sdbuf[q] /\ input'[q] = input[q]
  <2>1. at'[q] = "send" => at[q] = "send" \/ Scan(q)
    <3>1. ASSUME NEW p \in Procs, Process(p), at'[q] = "send", at[q] # "send" PROVE Scan(q)
      <4>1. ~ScanEof(p)
        BY DEF ScanEof
      <4>2. at \in [Procs -> Steps]
        BY DEF TypeOK
      <4>3. ~(Accept(p) \/ ForkFails(p) \/ Test(p) \/ Send(p) \/ Close(p))
        BY <3>1, <4>2 DEF Accept, ForkFails, Test, Send, Close, Goto
      <4>4. ~Fork(p)
        BY <3>1, <4>2 DEF Fork
      <4>5. ~SendFails(p)
        BY <3>1, <4>2 DEF SendFails
      <4>6. ~Reap(p)
        BY <3>1, <4>2 DEF Reap
      <4>7. Scan(p) /\ p = q
        BY <3>1, <4>1, <4>2, <4>3, <4>4, <4>5, <4>6 DEF Process, Scan, Goto
      <4>8. QED
        BY <4>7
    <3>2. QED
      BY <3>1 DEF Next, User, Client, Type, EndOfFile, Connect, Killed, Recv, Leave, vars, server
  <2>2. ASSUME Scan(q) PROVE Owned(q)' = {}
    <3>1. FALSE
      BY <1>1, <2>2, ScanAbove, Numbers
    <3>2. QED
      BY <3>1
  <2>3. CASE at'[q] = "send" => at[q] = "send"
    BY <1>1, <2>3 DEF Owned
  <2>4. QED
    BY <2>1, <2>2, <2>3
<1>2. CASE Scan(q)
  <2>1. at'[q] = "send" /\ Live(q) /\ stream' = stream /\ got' = got
    BY <1>2 DEF Scan, Goto, Live, TypeOK, net
  <2>2. CASE /\ input[q] # << >> /\ sdbuf'[q] = input[q][1]
             /\ DOMAIN input'[q] = 1..(Len(input[q]) - 1)
             /\ \A i \in DOMAIN input'[q] : input'[q][i] = input[q][i + 1]
    <3>1. 1 \in DOMAIN input[q] /\ \A i \in DOMAIN input'[q] : i + 1 \in DOMAIN input[q]
      <4>1. input[q] \in Seq(Tokens)
        BY DEF TypeOK
      <4>2. QED
        BY <2>2, <4>1, Numbers, EmptySeq
    <3>2. QED
      BY <2>1, <2>2, <3>1 DEF Owned
  <2>3. CASE /\ tty # << >> /\ tty[1] # << >> /\ sdbuf'[q] = tty[1][1]
             /\ DOMAIN input'[q] = 1..(Len(tty[1]) - 1)
             /\ \A i \in DOMAIN input'[q] : input'[q][i] = tty[1][i + 1]
    <3>1. 1 \in DOMAIN tty
      BY <2>3, Numbers, EmptySeq DEF TypeOK
    <3>2. 1 \in DOMAIN tty[1] /\ \A i \in DOMAIN input'[q] : i + 1 \in DOMAIN tty[1]
      <4>1. tty[1] \in Seq(Tokens)
        BY <3>1, Numbers, ElementOfSeq DEF TypeOK
      <4>2. QED
        BY <2>3, <3>1, <4>1, Numbers, EmptySeq
    <3>3. QED
      BY <1>2, <2>1, <2>3, <3>1, <3>2 DEF Owned, Unread
  <2>4. QED
    BY <1>2, <2>2, <2>3, ScanStep
<1>3. ASSUME NEW p \in Procs, at[p] = "fork", at'[q] = "test", sdbuf'[q] = sdbuf[p], input'[q] = input[p]
      PROVE  Owned(q)' = {}
  <2>1. input'[q] = << >>
    BY <1>3 DEF Quiet, Live
  <2>2. QED
    BY <1>3, <2>1 DEF Owned
<1>4. QED
  BY <1>1, <1>2, <1>3, LiveStep

\* What a live process owns is below what nobody has read.
LEMMA OwnedBelow ==
  ASSUME TypeOK, LiveOrder, NEW p \in Procs, Live(p)
  PROVE  /\ Owned(p) \subseteq Nat /\ Unread \subseteq Nat
         /\ \A n \in Owned(p) : n <= typed /\ \A m \in Unread : n < m
<1>1. ReadAhead(p) /\ BeforeTty(p)
  BY DEF LiveOrder
<1>2. QED
  BY <1>1, Numbers DEF ReadAhead, BeforeTty, Owned, Unread

LEMMA NextOnePlace == ~Eof /\ IInv /\ OnePlace /\ [Next]_vars => OnePlace'
<1> SUFFICES ASSUME ~Eof, IInv, OnePlace, [Next]_vars PROVE OnePlace'
  OBVIOUS
<1> USE DEF IInv
<1>1. ~eof'
  BY DEF OnePlace, Next, User, Process, Client, Type, EndOfFile, Connect, Killed, Recv, Leave, Accept, Fork,
         ForkFails, Test, Scan, ScanEof, Send, SendFails, Close, Reap, vars, terminal
<1>2. ASSUME NEW p \in Procs, Send(p)
      PROVE  Live(p) /\ sdbuf[p].n \in Owned(p) /\ Owned(p)' = Owned(p) \ {sdbuf[p].n}
  <2>1. at[p] = "send" /\ at'[p] = "test" /\ sdbuf' = sdbuf /\ input' = input
    BY <1>2, SendStep DEF TypeOK
  <2>2. ReadAhead(p)
    BY <2>1 DEF LiveOrder, Live
  <2>3. \A i \in DOMAIN input[p] : input[p][i].n # sdbuf[p].n
    BY <2>2, Numbers DEF ReadAhead
  <2>4. QED
    BY <2>1, <2>3 DEF Live, Owned
<1>3. ASSUME NEW c \in Clients, NEW d \in Clients, c # d PROVE Given(c)' \cap Given(d)' = {}
  <2>1. ASSUME NEW p \in Procs, Send(p), nsockfd[p] = c
        PROVE  Given(d)' \subseteq Given(d) /\ sdbuf[p].n \notin Given(d)
    <3>0. UNCHANGED got /\ \A e \in Clients \ {nsockfd[p]} : stream'[e] = stream[e]
      BY <2>1, SendStep
    <3>1. Given(d)' = Given(d)
      BY <1>3, <2>1, <3>0 DEF Given
    <3>2. QED
      BY <1>2, <2>1, <3>1 DEF OnePlace
  <2>2. ASSUME NEW p \in Procs, Send(p), nsockfd[p] = d
        PROVE  Given(c)' \subseteq Given(c) /\ sdbuf[p].n \notin Given(c)
    <3>0. UNCHANGED got /\ \A e \in Clients \ {nsockfd[p]} : stream'[e] = stream[e]
      BY <2>2, SendStep
    <3>1. Given(c)' = Given(c)
      BY <1>3, <2>2, <3>0 DEF Given
    <3>2. QED
      BY <1>2, <2>2, <3>1 DEF OnePlace
  <2>3. Given(c) \cap Given(d) = {}
    BY <1>3 DEF OnePlace
  <2>4. CASE Given(c)' \subseteq Given(c) /\ Given(d)' \subseteq Given(d)
    BY <2>3, <2>4
  <2>5. CASE \E p \in Procs : /\ Send(p) /\ nsockfd[p] = c
                             /\ Given(c)' \subseteq Given(c) \cup {sdbuf[p].n}
    BY <2>1, <2>3, <2>5
  <2>6. CASE \E p \in Procs : /\ Send(p) /\ nsockfd[p] = d
                             /\ Given(d)' \subseteq Given(d) \cup {sdbuf[p].n}
    BY <2>2, <2>3, <2>6
  <2>7. QED
    BY <2>4, <2>5, <2>6, GivenStep
<1>4. ASSUME NEW p \in Procs, NEW q \in Procs, p # q, Live(p)', Live(q)'
      PROVE  Owned(p)' \cap Owned(q)' = {}
  <2>1. \/ Live(p) /\ Owned(p)' \subseteq Owned(p)
        \/ Scan(p) /\ Owned(p)' \subseteq Unread
        \/ Owned(p)' = {}
    BY <1>4, OwnedStep DEF OnePlace
  <2>2. \/ Live(q) /\ Owned(q)' \subseteq Owned(q)
        \/ Scan(q) /\ Owned(q)' \subseteq Unread
        \/ Owned(q)' = {}
    BY <1>4, OwnedStep DEF OnePlace
  <2>3. ~(Scan(p) /\ Scan(q))
    BY <1>4 DEF Scan, Goto, TypeOK
  <2>4. Live(p) /\ Live(q) => Owned(p) \cap Owned(q) = {}
    BY <1>4 DEF OnePlace
  <2>5. Live(p) => Owned(p) \cap Unread = {}
    BY OwnedBelow
  <2>6. Live(q) => Owned(q) \cap Unread = {}
    BY OwnedBelow
  <2>7. QED
    BY <2>1, <2>2, <2>3, <2>4, <2>5, <2>6
<1>5. ASSUME NEW p \in Procs, NEW c \in Clients, Live(p)' PROVE Owned(p)' \cap Given(c)' = {}
  <2>1. CASE Live(p) /\ Owned(p)' \subseteq Owned(p)
    <3>1. Owned(p) \cap Given(c) = {}
      BY <2>1 DEF OnePlace
    <3>2. ASSUME NEW r \in Procs, Send(r) PROVE sdbuf[r].n \notin Owned(p)'
      <4>1. CASE r = p
        BY <1>2, <3>2, <4>1
      <4>2. CASE r # p
        BY <1>2, <2>1, <3>2, <4>2 DEF OnePlace
      <4>3. QED
        BY <4>1, <4>2
    <3>3. QED
      BY <2>1, <3>1, <3>2, GivenStep
  <2>2. CASE Owned(p)' \subseteq Unread /\ stream' = stream /\ got' = got
    <3>1. Given(c)' = Given(c)
      BY <2>2 DEF Given
    <3>2. Given(c) \cap Unread = {}
      BY GivenNat DEF OnePlace
    <3>3. QED
      BY <2>2, <3>1, <3>2
  <2>3. QED
    BY <1>5, <2>1, <2>2, OwnedStep DEF OnePlace
<1>6. ASSUME NEW c \in Clients, NEW n \in Given(c)'
      PROVE  n <= typed' /\ \A m \in Unread' : n < m
  <2>1. n \in Nat /\ n <= typed /\ \A m \in Unread : n < m
    <3>1. CASE n \in Given(c)
      BY <3>1, GivenNat DEF OnePlace
    <3>2. ASSUME NEW p \in Procs, Send(p), n = sdbuf[p].n
          PROVE  n \in Nat /\ n <= typed /\ \A m \in Unread : n < m
      BY <1>2, <3>2, OwnedBelow, Numbers
    <3>3. QED
      BY <1>6, <3>1, <3>2, GivenStep
  <2>2. QED
    <3>1. CASE Unread' \subseteq Unread /\ typed' = typed
      BY <2>1, <3>1
    <3>2. CASE /\ typed <= typed' /\ typed' \in Nat
               /\ \A m \in Unread' : m \in Unread \/ (m \in Nat /\ typed < m)
      BY <2>1, <3>2, Numbers
    <3>3. QED
      BY <3>1, <3>2, UnreadStep
<1>7. QED
  BY <1>1, <1>3, <1>4, <1>5, <1>6 DEF OnePlace

LEMMA KeyOrder ==
  \A g, h : g.tok.n \in Nat /\ h.tok.n \in Nat /\ g.half \in 1..2 /\ h.half \in 1..2 =>
    /\ Key(g) \in Nat
    /\ g.tok.n < h.tok.n => Key(g) < Key(h)
    /\ g.half = 2 /\ Key(g) < Key(h) => g.tok.n < h.tok.n
<1>1. \A a, b \in Nat : \A i, j \in 1..2 :
        /\ 2 * a + i \in Nat
        /\ a < b => 2 * a + i < 2 * b + j
        /\ i = 2 /\ 2 * a + i < 2 * b + j => a < b
  OBVIOUS
<1>2. QED
  BY <1>1 DEF Key

LEMMA NextHalvesInOrder ==
  TypeOK /\ Holding /\ LiveOrder /\ OnePlace /\ HalvesInOrder /\ [Next]_vars => HalvesInOrder'
<1> SUFFICES ASSUME TypeOK, Holding, LiveOrder, OnePlace, HalvesInOrder, [Next]_vars,
                    NEW c \in Clients
             PROVE  /\ \A i, j \in DOMAIN stream'[c] : i < j => Key(stream'[c][i]) < Key(stream'[c][j])
                    /\ \A t \in got'[c] : \A i \in DOMAIN stream'[c] : t.n < stream'[c][i].tok.n
  BY DEF HalvesInOrder, Key
<1>1. /\ Len(stream[c]) \in Nat /\ DOMAIN stream[c] = 1..Len(stream[c])
      /\ \A i \in DOMAIN stream[c] : stream[c][i].tok.n \in Nat /\ stream[c][i].half \in 1..2
  BY StreamType, Numbers DEF Half
<1>2. \A t \in got[c] : t.n \in Nat
  BY GivenNat DEF Given
<1>3. CASE stream'[c] = stream[c] /\ got'[c] = got[c]
  BY <1>3 DEF HalvesInOrder
<1>4. CASE stream'[c] = << >>
  BY <1>4
<1>5. ASSUME NEW p \in Procs, Send(p), nsockfd[p] = c, stream'[c] # stream[c]
      PROVE  /\ \A i, j \in DOMAIN stream'[c] : i < j => Key(stream'[c][i]) < Key(stream'[c][j])
             /\ \A t \in got'[c] : \A i \in DOMAIN stream'[c] : t.n < stream'[c][i].tok.n
  <2> DEFINE L == Len(stream[c])
             n == sdbuf[p].n
  <2>1. /\ at[p] = "send" /\ got' = got /\ DOMAIN stream'[c] = 1..(L + 2)
        /\ \A m \in 1..L : stream'[c][m] = stream[c][m]
        /\ stream'[c][L + 1] = [tok |-> sdbuf[p], half |-> 1]
        /\ stream'[c][L + 2] = [tok |-> sdbuf[p], half |-> 2]
    BY <1>5, SendStep
  <2>2. \A m \in Given(c) : m < n /\ m \in Nat
    <3>1. AfterSent(p) /\ n \in Owned(p) /\ Live(p)
      BY <2>1 DEF LiveOrder, Live, Owned
    <3>2. n \notin Given(c)
      BY <3>1 DEF OnePlace
    <3>3. QED
      BY <1>5, <3>1, <3>2, GivenNat, Numbers DEF AfterSent
  <2>3. n \in Nat
    BY Numbers
  <2>4. \A m \in 1..L : /\ stream'[c][m].tok.n < n /\ stream'[c][m].tok.n \in Nat
                         /\ stream'[c][m].half \in 1..2
    BY <1>1, <2>1, <2>2 DEF Given
  <2>5. stream'[c][L + 1].tok.n = n /\ stream'[c][L + 1].half = 1 /\ stream'[c][L + 2].tok.n = n
        /\ stream'[c][L + 2].half = 2
    BY <2>1
  <2>6. \A m \in DOMAIN stream'[c] : m \in 1..L \/ m = L + 1 \/ m = L + 2
    BY <1>1, <2>1
  <2>7. ASSUME NEW i \in DOMAIN stream'[c], NEW j \in DOMAIN stream'[c], i < j
        PROVE  Key(stream'[c][i]) < Key(stream'[c][j])
    <3>1. CASE j \in 1..L
      <4>1. i \in 1..L
        BY <1>1, <2>1, <2>7, <3>1
      <4>2. QED
        BY <1>1, <2>1, <2>7, <3>1, <4>1 DEF HalvesInOrder
    <3>2. CASE j = L + 1
      <4>1. i \in 1..L
        BY <1>1, <2>1, <2>7, <3>2
      <4>2. QED
        BY <2>3, <2>4, <2>5, <3>2, <4>1, KeyOrder
    <3>3. CASE j = L + 2
      <4>1. i \in 1..L \/ i = L + 1
        BY <1>1, <2>1, <2>7, <3>3
      <4> HIDE DEF L, n
      <4>2. QED
        BY <2>3, <2>4, <2>5, <3>3, <4>1 DEF Key
    <3>4. QED
      BY <2>6, <3>1, <3>2, <3>3
  <2>8. ASSUME NEW t \in got'[c], NEW i \in DOMAIN stream'[c]
        PROVE  t.n < stream'[c][i].tok.n
    <3>1. t \in got[c] /\ t.n < n
      BY <2>1, <2>2, <2>8 DEF Given
    <3>2. CASE i \in 1..L
      BY <1>1, <2>1, <3>1, <3>2 DEF HalvesInOrder
    <3>3. CASE i = L + 1 \/ i = L + 2
      BY <2>5, <3>1, <3>3
    <3>4. QED
      BY <2>6, <3>2, <3>3
  <2>9. QED
    BY <2>7, <2>8
<1>6. ASSUME Recv(c)
      PROVE  /\ \A i, j \in DOMAIN stream'[c] : i < j => Key(stream'[c][i]) < Key(stream'[c][j])
             /\ \A t \in got'[c] : \A i \in DOMAIN stream'[c] : t.n < stream'[c][i].tok.n
  <2>1. PICK k \in 1..Len(stream[c]) :
          /\ DOMAIN stream'[c] = 1..(Len(stream[c]) - k)
          /\ \A m \in DOMAIN stream'[c] : stream'[c][m] = stream[c][k + m]
          /\ \A t \in got'[c] : \/ t \in got[c]
                                \/ \E i \in 1..k : stream[c][i] = [tok |-> t, half |-> 2]
    BY <1>6, RecvStep
  <2>2. \A m \in DOMAIN stream'[c] : k + m \in DOMAIN stream[c] /\ m \in Nat /\ k < k + m
    BY <1>1, <2>1
  <2>3. \A i, j \in DOMAIN stream'[c] : i < j => k + i < k + j
    BY <2>2
  <2>4. \A i, j \in DOMAIN stream'[c] : i < j => Key(stream'[c][i]) < Key(stream'[c][j])
    BY <2>1, <2>2, <2>3 DEF HalvesInOrder
  <2>5. ASSUME NEW t \in got'[c], NEW m \in DOMAIN stream'[c]
        PROVE  t.n < stream'[c][m].tok.n
    <3>1. CASE t \in got[c]
      BY <2>1, <2>2, <2>5, <3>1 DEF HalvesInOrder
    <3>2. ASSUME NEW i \in 1..k, stream[c][i] = [tok |-> t, half |-> 2]
          PROVE  t.n < stream'[c][m].tok.n
      <4>1. i \in DOMAIN stream[c] /\ i < k + m
        BY <1>1, <2>2, <2>5
      <4>2. Key(stream[c][i]) < Key(stream[c][k + m])
        BY <2>2, <2>5, <4>1 DEF HalvesInOrder
      <4>3. /\ stream[c][i].tok.n = t.n /\ stream[c][i].half = 2
            /\ stream[c][i].tok.n \in Nat
        BY <1>1, <3>2, <4>1
      <4>4. stream[c][k + m].tok.n \in Nat /\ stream[c][k + m].half \in 1..2
        BY <1>1, <2>2, <2>5
      <4>5. t.n < stream[c][k + m].tok.n
        BY SMTT(30), <3>2, <4>2, <4>3, <4>4, KeyOrder
      <4>6. QED
        BY <2>1, <2>5, <4>5
    <3>3. QED
      BY <2>1, <2>5, <3>1, <3>2
  <2>6. QED
    BY <2>4, <2>5
<1>7. ASSUME NEW d \in Clients, Recv(d), d # c PROVE stream'[c] = stream[c] /\ got'[c] = got[c]
  BY <1>7, RecvStep
<1>8. ASSUME NEW p \in Procs, Send(p)
      PROVE  got'[c] = got[c] /\ (nsockfd[p] # c => stream'[c] = stream[c])
  BY <1>8, SendStep
<1>9. QED
  BY <1>3, <1>4, <1>5, <1>6, <1>7, <1>8, StreamStep

\* A token typed goes to one client, once, over any forks, sessions and clients
\* killed, as long as the terminal does not end: scanf then leaves the last token
\* in sdbuf, which is sent again (tcp_server.c:75-90).
THEOREM NoDuplicateCorrect == ASSUME ~Eof PROVE Spec => []NoDuplicate
<1>1. Init => OnceInv
  <2> SUFFICES ASSUME Init PROVE OnceInv
    OBVIOUS
  <2>1. \A p \in Procs : ~Live(p)
    BY DEF Init, Live
  <2>2. \A c \in Clients : Given(c) = {} /\ stream[c] = << >> /\ got[c] = {}
    BY DEF Init, Given
  <2>3. OnePlace
    BY <2>1, <2>2 DEF OnePlace, Init
  <2>4. HalvesInOrder
    BY <2>2 DEF HalvesInOrder
  <2>5. QED
    BY <2>3, <2>4 DEF OnceInv
<1>2. IInv /\ OnceInv /\ [Next]_vars => OnceInv'
  BY NextOnePlace, NextHalvesInOrder DEF IInv, OnceInv
<1>3. IInv /\ OnceInv => NoDuplicate
  <2> SUFFICES ASSUME IInv, OnceInv PROVE NoDuplicate
    OBVIOUS
  <2>1. \A c \in Clients : \A t \in Sent(c) : t.n \in Given(c)
    BY DEF Sent, Given, ToSet
  <2>2. \A c, d \in Clients : c # d => Sent(c) \cap Sent(d) = {}
    BY <2>1 DEF OnceInv, OnePlace
  <2>3. ASSUME NEW c \in Clients PROVE IsInjective(stream[c])
    <3>1. \A i \in DOMAIN stream[c] : Key(stream[c][i]) \in Nat /\ i \in Nat
      <4>1. \A i \in DOMAIN stream[c] : stream[c][i].half \in 1..2 /\ stream[c][i].tok.n \in Nat /\ i \in Nat
        BY StreamType, Numbers DEF IInv, Half
      <4>2. QED
        BY <4>1, KeyOrder
    <3>2. \A i, j \in DOMAIN stream[c] : i < j => Key(stream[c][i]) < Key(stream[c][j])
      BY DEF OnceInv, HalvesInOrder
    <3>3. \A i, j \in DOMAIN stream[c] : i < j => stream[c][i] # stream[c][j]
      BY <3>1, <3>2
    <3>4. QED
      BY <3>1, <3>3 DEF IsInjective
  <2>4. ASSUME NEW c \in Clients, NEW i \in 1..Len(stream[c]) PROVE stream[c][i].tok \notin got[c]
    BY Numbers DEF IInv, OnceInv, HalvesInOrder
  <2>5. QED
    BY <2>2, <2>3, <2>4 DEF NoDuplicate
<1>4. QED
  BY <1>1, <1>2, <1>3, IInvHolds, PTL DEF Spec
=============================================================================
