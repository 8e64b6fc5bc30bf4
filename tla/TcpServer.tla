------------------------------ MODULE TcpServer ------------------------------
(***************************************************************************)
(* tcp_server.c and tcp_client.c of imx6ull/net: a listening process forks *)
(* one child per connection, which sends each token scanf reads from the   *)
(* terminal the processes share, until that token is "exit". A client      *)
(* prints what it receives until that is "exit".                           *)
(* A token is [n: Nat, exit: BOOLEAN], its number on the terminal and      *)
(* whether it reads "exit"; a stream carries it as two halves, the units   *)
(* in which TCP may split or join what recv returns.                       *)
(***************************************************************************)
EXTENDS Integers, Sequences, FiniteSets, SequencesExt

CONSTANTS
  Procs,     \* process slots 1..k
  Clients,
  MaxTokens, \* bound on the tokens typed
  MaxSent,   \* halves a connection's buffers hold before send blocks
  Residue,   \* whether the uninitialised buffers may happen to read "exit"
  Eof,       \* whether the terminal may reach end of file
  Leaving    \* whether a client may be killed

ASSUME ConstAssumption ==
  /\ Procs \in SUBSET Nat /\ 1 \in Procs /\ IsFiniteSet(Procs)
  /\ MaxTokens \in Nat /\ MaxSent \in Nat
  /\ Residue \in SUBSET BOOLEAN /\ Residue # {}
  /\ Eof \in BOOLEAN /\ Leaving \in BOOLEAN

Garbage == [n: {0}, exit: Residue]      \* sdbuf before the first scanf
Tokens == [n: 0..MaxTokens, exit: BOOLEAN]
Halves(t) == << [tok |-> t, half |-> 1], [tok |-> t, half |-> 2] >>
NoConn == "no connection"
Steps == {"free", "accept", "fork", "test", "scan", "send", "close", "reap", "dead"}

VARIABLES
  at,        \* process -> its place in main, "dead" until reaped
  parent,    \* process -> the process that forked it, 0 once that died
  sdbuf,     \* process -> token in sdbuf
  input,     \* process -> tokens read ahead by its stdin
  nsockfd,   \* process -> connection of nsockfd
  fds,       \* process -> connections it holds open
  tty,       \* lines typed and not read yet
  typed,     \* tokens typed so far
  eof,       \* the terminal is at end of file
  client,    \* client -> "off", "pending", "recv" or "done"
  stream,    \* client -> halves sent to it and not received
  fin,       \* client -> the server's side of its connection is closed
  reset,     \* client -> its side answered data with a reset
  revbuf,    \* client -> what the last recv returned
  got        \* client -> tokens of which it received the last half

server == <<at, parent, sdbuf, input, nsockfd, fds>>
terminal == <<tty, typed, eof>>
net == <<client, stream, fin, reset, revbuf, got>>
vars == <<server, terminal, net>>
-----------------------------------------------------------------------------
Init ==
  /\ at = [p \in Procs |-> IF p = 1 THEN "accept" ELSE "free"]
  /\ parent = [p \in Procs |-> 0]
  /\ \E g \in Garbage : sdbuf = [p \in Procs |-> g]
  /\ input = [p \in Procs |-> << >>]
  /\ nsockfd = [p \in Procs |-> NoConn] /\ fds = [p \in Procs |-> {}]
  /\ tty = << >> /\ typed = 0 /\ eof = FALSE
  /\ client = [c \in Clients |-> "off"] /\ stream = [c \in Clients |-> << >>]
  /\ fin = [c \in Clients |-> FALSE] /\ reset = [c \in Clients |-> FALSE]
  /\ revbuf \in [Clients -> {IF g.exit THEN Halves(g) ELSE << >> : g \in Garbage}]
  /\ got = [c \in Clients |-> {}]

Goto(p, s) == at' = [at EXCEPT ![p] = s]

\* The descriptors p gives up; a connection nobody holds is finished.
Closes(p, cs) ==
  /\ fds' = [fds EXCEPT ![p] = @ \ cs]
  /\ fin' = [c \in Clients |-> fin[c] \/ (c \in cs /\ \A q \in Procs : c \notin fds'[q])]
-----------------------------------------------------------------------------
\* accept; an error return goes round the loop again.
Accept(p) ==
  /\ at[p] = "accept"
  /\ \E c \in Clients :
       /\ client[c] = "pending"
       /\ client' = [client EXCEPT ![c] = "recv"]
       /\ nsockfd' = [nsockfd EXCEPT ![p] = c]
       /\ fds' = [fds EXCEPT ![p] = @ \cup {c}]
  /\ Goto(p, "fork")
  /\ UNCHANGED <<parent, sdbuf, input, terminal, stream, fin, reset, revbuf, got>>

\* Mutant of Fork: the child clears sdbuf before its session.
ForkClears(p) ==
  /\ at[p] = "fork"
  /\ \E q \in Procs :
       /\ at[q] = "free"
       /\ at' = [at EXCEPT ![p] = "close", ![q] = "test"]
       /\ parent' = [parent EXCEPT ![q] = p]
       /\ sdbuf' = [sdbuf EXCEPT ![q] = [n |-> 0, exit |-> FALSE]]
       /\ input' = [input EXCEPT ![q] = input[p]]
       /\ nsockfd' = [nsockfd EXCEPT ![q] = nsockfd[p]]
       /\ fds' = [fds EXCEPT ![q] = fds[p]]
  /\ UNCHANGED <<terminal, net>>

\* The child copies the parent's buffers and descriptors.
Fork(p) ==
  /\ at[p] = "fork"
  /\ \E q \in Procs :
       /\ at[q] = "free"
       /\ at' = [at EXCEPT ![p] = "close", ![q] = "test"]
       /\ parent' = [parent EXCEPT ![q] = p]
       /\ sdbuf' = [sdbuf EXCEPT ![q] = sdbuf[p]]
       /\ input' = [input EXCEPT ![q] = input[p]]
       /\ nsockfd' = [nsockfd EXCEPT ![q] = nsockfd[p]]
       /\ fds' = [fds EXCEPT ![q] = fds[p]]
  /\ UNCHANGED <<terminal, net>>

\* !fork() takes -1, for want of a slot or of memory, for the parent's return.
ForkFails(p) ==
  /\ at[p] = "fork"
  /\ Goto(p, "close")
  /\ UNCHANGED <<parent, sdbuf, input, nsockfd, fds, terminal, net>>

\* while (strcmp(sdbuf, "exit") != 0)
Test(p) ==
  /\ at[p] = "test"
  /\ Goto(p, IF sdbuf[p].exit THEN "close" ELSE "scan")
  /\ UNCHANGED <<parent, sdbuf, input, nsockfd, fds, terminal, net>>

\* Mutant of Scan: the line is read before what stdin has read ahead.
ScanNewestFirst(p) ==
  /\ at[p] = "scan" /\ Goto(p, "send")
  /\ \/ /\ input[p] # << >> /\ tty = << >>
        /\ sdbuf' = [sdbuf EXCEPT ![p] = Last(input[p])]
        /\ input' = [input EXCEPT ![p] = Front(@)]
        /\ UNCHANGED tty
     \/ /\ tty # << >>
        /\ sdbuf' = [sdbuf EXCEPT ![p] = Last(Head(tty))]
        /\ input' = [input EXCEPT ![p] = @ \o Front(Head(tty))]
        /\ tty' = Tail(tty)
  /\ UNCHANGED <<parent, nsockfd, fds, typed, eof, net>>

\* scanf: the next token of the input read ahead, else of the next line.
Scan(p) ==
  /\ at[p] = "scan" /\ Goto(p, "send")
  /\ \/ /\ input[p] # << >>
        /\ sdbuf' = [sdbuf EXCEPT ![p] = Head(input[p])]
        /\ input' = [input EXCEPT ![p] = Tail(@)]
        /\ UNCHANGED tty
     \/ /\ input[p] = << >> /\ tty # << >>
        /\ sdbuf' = [sdbuf EXCEPT ![p] = Head(tty)[1]]
        /\ input' = [input EXCEPT ![p] = Tail(Head(tty))]
        /\ tty' = Tail(tty)
  /\ UNCHANGED <<parent, nsockfd, fds, typed, eof, net>>

\* scanf returns EOF, which is not above 512, and leaves sdbuf as it is.
ScanEof(p) ==
  /\ at[p] = "scan" /\ input[p] = << >> /\ tty = << >> /\ eof
  /\ Goto(p, "send")
  /\ UNCHANGED <<parent, sdbuf, input, nsockfd, fds, terminal, net>>

\* send to a client that listens, or to one that has gone and resets.
Send(p) ==
  LET c == nsockfd[p] IN
  /\ at[p] = "send" /\ ~reset[c]
  /\ \/ /\ client[c] = "recv" /\ Len(stream[c]) + 2 <= MaxSent
        /\ stream' = [stream EXCEPT ![c] = @ \o Halves(sdbuf[p])]
        /\ UNCHANGED reset
     \/ /\ client[c] = "done" /\ reset' = [reset EXCEPT ![c] = TRUE]
        /\ UNCHANGED stream
  /\ Goto(p, "test")
  /\ UNCHANGED <<parent, sdbuf, input, nsockfd, fds, terminal, client, fin, revbuf, got>>

\* -1 and exit(1), or SIGPIPE: the process dies and its descriptors close.
SendFails(p) ==
  /\ at[p] = "send" /\ reset[nsockfd[p]]
  /\ at' = [q \in Procs |->
              IF q = p THEN IF parent[p] = 0 THEN "free" ELSE "dead"
              ELSE IF at[q] = "dead" /\ parent[q] = p THEN "free" ELSE at[q]]
  /\ parent' = [q \in Procs |-> IF parent[q] = p THEN 0 ELSE parent[q]]
  /\ Closes(p, fds[p])
  /\ UNCHANGED <<sdbuf, input, nsockfd, terminal, client, stream, reset, revbuf, got>>

\* Mutant of Close: only a process whose session has ended closes nsockfd.
CloseInChildOnly(p) ==
  /\ at[p] = "close" /\ Goto(p, "reap")
  /\ Closes(p, IF sdbuf[p].exit THEN {nsockfd[p]} ELSE {})
  /\ UNCHANGED <<parent, sdbuf, input, nsockfd, terminal, client, stream, reset,
                 revbuf, got>>

\* close(nsockfd), by the parent at once and by a child after its session.
Close(p) ==
  /\ at[p] = "close" /\ Goto(p, "reap")
  /\ Closes(p, {nsockfd[p]})
  /\ UNCHANGED <<parent, sdbuf, input, nsockfd, terminal, client, stream, reset,
                 revbuf, got>>

\* Mutant of Reap: waitpid without WNOHANG waits for a child to die.
ReapBlocks(p) ==
  LET children == {q \in Procs : at[q] # "free" /\ parent[q] = p} IN
  /\ at[p] = "reap" /\ (children = {} \/ \E q \in children : at[q] = "dead")
  /\ at' = [q \in Procs |-> IF q = p THEN "accept"
                            ELSE IF at[q] = "dead" /\ q \in children THEN "free"
                            ELSE at[q]]
  /\ UNCHANGED <<parent, sdbuf, input, nsockfd, fds, terminal, net>>

\* while (waitpid(-1, NULL, WNOHANG) > 0); then round to accept.
Reap(p) ==
  /\ at[p] = "reap"
  /\ at' = [q \in Procs |-> IF q = p THEN "accept"
                            ELSE IF at[q] = "dead" /\ parent[q] = p THEN "free"
                            ELSE at[q]]
  /\ UNCHANGED <<parent, sdbuf, input, nsockfd, fds, terminal, net>>

Process(p) == \/ Accept(p) \/ Fork(p) \/ ForkFails(p) \/ Test(p) \/ Scan(p)
              \/ ScanEof(p) \/ Send(p) \/ SendFails(p) \/ Close(p) \/ Reap(p)
-----------------------------------------------------------------------------
\* A line of one or two tokens; end of file.
Type ==
  /\ ~eof
  /\ \E k \in 1..2 : \E e \in [1..k -> BOOLEAN] :
       /\ typed + k <= MaxTokens /\ typed' = typed + k
       /\ tty' = Append(tty, [i \in 1..k |-> [n |-> typed + i, exit |-> e[i]]])
  /\ UNCHANGED <<eof, server, net>>
EndOfFile ==
  /\ Eof /\ ~eof /\ eof' = TRUE
  /\ UNCHANGED <<tty, typed, server, net>>

Connect(c) ==
  /\ client[c] = "off" /\ client' = [client EXCEPT ![c] = "pending"]
  /\ UNCHANGED <<server, terminal, stream, fin, reset, revbuf, got>>

\* strcmp(revbuf, "exit"): exactly the two halves of one exit token.
IsExit(buf) == \E t \in Tokens : t.exit /\ buf = Halves(t)

\* recv returns some of what has arrived, but 0 only at the end.
Recv(c) ==
  /\ client[c] = "recv" /\ ~IsExit(revbuf[c]) /\ stream[c] # << >>
  /\ \E k \in 1..Len(stream[c]) :
       LET num == SubSeq(stream[c], 1, k) IN
       /\ revbuf' = [revbuf EXCEPT ![c] = num]
       /\ stream' = [stream EXCEPT ![c] = SubSeq(@, k + 1, Len(@))]
       /\ got' = [got EXCEPT ![c] = @ \cup {h.tok : h \in {g \in ToSet(num) : g.half = 2}}]
  /\ UNCHANGED <<server, terminal, client, fin, reset>>

\* The end of the loop: "exit" read, or recv returning 0.
Leave(c) ==
  /\ client[c] = "recv"
  /\ IsExit(revbuf[c]) \/ (stream[c] = << >> /\ fin[c])
  /\ client' = [client EXCEPT ![c] = "done"]
  /\ stream' = [stream EXCEPT ![c] = << >>]
  /\ reset' = [reset EXCEPT ![c] = stream[c] # << >>]
  /\ UNCHANGED <<server, terminal, fin, revbuf, got>>

\* A client killed at any time; data it has not read makes a reset.
Killed(c) ==
  /\ Leaving /\ client[c] = "recv"
  /\ client' = [client EXCEPT ![c] = "done"]
  /\ stream' = [stream EXCEPT ![c] = << >>]
  /\ reset' = [reset EXCEPT ![c] = stream[c] # << >>]
  /\ UNCHANGED <<server, terminal, fin, revbuf, got>>

Client(c) == Recv(c) \/ Leave(c)
User == Type \/ EndOfFile \/ \E c \in Clients : Connect(c) \/ Killed(c)
Next == User \/ (\E p \in Procs : Process(p)) \/ (\E c \in Clients : Client(c))

Spec == Init /\ [][Next]_vars
\* Processes and clients run; nobody has to type, connect or be killed.
FairSpec == /\ Spec /\ \A p \in Procs : WF_vars(Process(p))
            /\ \A c \in Clients : WF_vars(Client(c))
-----------------------------------------------------------------------------
TypeOK ==
  /\ at \in [Procs -> Steps] /\ parent \in [Procs -> Procs \cup {0}]
  /\ sdbuf \in [Procs -> Tokens] /\ input \in [Procs -> Seq(Tokens)]
  /\ nsockfd \in [Procs -> Clients \cup {NoConn}] /\ fds \in [Procs -> SUBSET Clients]
  /\ tty \in Seq(Seq(Tokens)) /\ typed \in 0..MaxTokens /\ eof \in BOOLEAN
  /\ client \in [Clients -> {"off", "pending", "recv", "done"}]
  /\ stream \in [Clients -> Seq([tok: Tokens, half: 1..2])]
  /\ revbuf \in [Clients -> Seq([tok: Tokens, half: 1..2])]
  /\ fin \in [Clients -> BOOLEAN] /\ reset \in [Clients -> BOOLEAN]
  /\ got \in [Clients -> SUBSET Tokens]

\* A process goes back to accept, or dies, holding no connection, and a
\* connection is finished exactly when no process holds it: none leaks over
\* the forks (tcp_server.c:75, 86, 93).
NoLeak ==
  /\ \A p \in Procs : at[p] \in {"free", "accept", "reap", "dead"} => fds[p] = {}
  /\ \A c \in Clients : client[c] \notin {"off", "pending"} =>
       (fin[c] <=> \A p \in Procs : c \notin fds[p])

\* Each token typed goes to one client, once, although the processes share
\* the terminal and fork copies what stdin has read ahead (tcp_server.c:75-90).
Sent(c) == got[c] \cup {h.tok : h \in {g \in ToSet(stream[c]) : g.half = 2}}
NoDuplicate ==
  /\ \A c, d \in Clients : c # d => Sent(c) \cap Sent(d) = {}
  /\ \A c \in Clients : IsInjective(stream[c])
  /\ \A c \in Clients : \A i \in 1..Len(stream[c]) :
       stream[c][i].half = 1 => stream[c][i].tok \notin got[c]

\* A session's tokens arrive in the order they were typed.
InOrder ==
  \A c \in Clients : \A i, j \in 1..Len(stream[c]) :
    i < j => stream[c][i].tok.n <= stream[c][j].tok.n

\* The listening process keeps accepting, whatever the sessions do.
PendingAccepted == \A c \in Clients : client[c] = "pending" ~> client[c] # "pending"

\* Once "exit" is being sent to a client it ends, even if TCP joins or
\* splits the token so that its strcmp never sees it (tcp_client.c:52-75).
ExitEndsClient ==
  \A c \in Clients :
    (\E p \in Procs : at[p] = "send" /\ sdbuf[p].exit /\ nsockfd[p] = c)
      ~> client[c] = "done"

\* tcp_server.c:77, "press 'exit' to end the connect": the server ends a
\* session only after sending it "exit".  It does not so when a process whose own
\* session has ended serves another.
ExitEndsSession ==
  \A c \in Clients : fin[c] /\ client[c] = "recv" => \E t \in Sent(c) : t.exit

\* tcp_client.c:52, "check the remote command": a client that has received
\* the whole of "exit" sees it.  Not when it comes in parts or with other text.
ExitSeen ==
  \A c \in Clients :
    client[c] = "recv" /\ (\E t \in got[c] : t.exit) => IsExit(revbuf[c])
=============================================================================
