----------------------------- MODULE SharedServer -----------------------------
(***************************************************************************)
(* lib/libshared/SharedServer.cpp: the control connection through which    *)
(* client processes create shared-memory channels, bind them to the hash   *)
(* of the packets they want, and close them.  One thread of the server     *)
(* runs a select() loop over the listening socket and the connections; the *)
(* thread that captures packets calls send(), which under the hash mutex   *)
(* looks up the channel a packet's hash is bound to.                       *)
(*                                                                         *)
(* A client (SharedClient.cpp, app/example.cpp) connects once, sends a     *)
(* command and waits for one answer before the next, and may go away at    *)
(* any moment; a client that comes back is another client.  Descriptors    *)
(* are reused, by other clients.                                           *)
(***************************************************************************)
EXTENDS Integers, Sequences, FiniteSets, FiniteSetsExt, Functions

CONSTANTS Clients,
          Strangers,      \* those that are not SharedClients
          Fds,            \* descriptors accept() may return; the listening socket is 0
          Hashes,         \* packet hashes that clients bind
          MaxIndex,       \* bound of the model: channels asked for in a behaviour
          MaxPipe,        \* bound of the model: what a client sends and does not read
          OneBind,        \* do clients bind a channel to at most one hash?
          ChecksReplies   \* does a client tell SS_ACK from SS_NACK?

ASSUME FdsAssumption == Fds \subseteq Nat \ {0} /\ IsFiniteSet(Fds)
ASSUME ClientsAssumption == /\ Strangers \subseteq Clients
                            /\ OneBind \in BOOLEAN
                            /\ ChecksReplies \in BOOLEAN
                            /\ MaxIndex \in Nat /\ MaxPipe \in Nat

VARIABLES client,   \* what each client believes: [st, inited, await, ids, binds]
          up,       \* commands of each client that the server has not read whole
          down,     \* answers each client has not read
          rst,      \* has the connection been reset by the client's end?
          accepted, \* the clients accept() has returned
          peer,     \* the server's connections: descriptor -> client
          ctxState, \* _socket_ctx_map: descriptor -> SocketCtx state
          partial,  \* _partial_data: the command read in part on a descriptor
          mainSet,  \* _main_set
          maxSd,    \* _max_sd
          ctxSock,  \* _ctx_map_sock: pairs of descriptor and channel id
          ctxHash,  \* _ctx_map_hash: hash -> channel id
          shmHash,  \* _shmid_hash_map: channel id -> hashes
          shmIndex, \* _shm_index
          dir,      \* the direction of each channel created
          gExit,    \* main()'s flag, set by SIGPIPE: the program is to end
          touched   \* has start() written to an erased entry of _partial_data?

net == <<up, down, rst>>
conns == <<accepted, peer, ctxState, partial, mainSet, maxSd>>
chans == <<ctxSock, ctxHash, shmHash, shmIndex, dir>>
vars == <<client, net, conns, chans, gExit, touched>>

Listen == 0
Ids == 0 .. MaxIndex - 1
Cmd(op, id, hash) == [op |-> op, id |-> id, hash |-> hash]
None == Cmd("none", 0, "none")
Answer(ok, id) == [ok |-> ok, id |-> id]

(* The maps of the server: emplace keeps an entry that is there.           *)
Assigned(map, key, value) ==
    [k \in DOMAIN map \cup {key} |-> IF k = key THEN value ELSE map[k]]
Emplaced(map, key, value) == IF key \in DOMAIN map THEN map ELSE Assigned(map, key, value)

Init ==
    /\ client = [c \in Clients |-> [st |-> "new", inited |-> FALSE, await |-> None,
                                    ids |-> {}, binds |-> {}]]
    /\ up = [c \in Clients |-> << >>] /\ down = up
    /\ rst = [c \in Clients |-> FALSE]
    /\ accepted = {}
    /\ peer = << >> /\ ctxState = << >>
    /\ partial = [fd \in Fds |-> None]
    /\ mainSet = {Listen} /\ maxSd = Listen
    /\ ctxSock = {} /\ ctxHash = << >> /\ shmHash = << >> /\ shmIndex = 0 /\ dir = << >>
    /\ gExit = FALSE /\ touched = FALSE

------------------------------------------------------------------------------
(* Clients.                                                                *)

Connect(c) ==
    /\ client[c].st = "new"
    /\ client' = [client EXCEPT ![c].st = "open"]
    /\ UNCHANGED <<net, conns, chans, gExit, touched>>

Asks(d) == \E i \in DOMAIN up[d] : up[d][i].op \in {"newR", "newW"}

(* The commands client c may send: init() first, then those of its API,    *)
(* about channels it has.  A stranger says no hi, or a wrong one, and asks *)
(* for channels of others to be closed; or it does say hi, and then sends  *)
(* what is no command.                                                     *)
Allowed(c, cmd) ==
    IF c \in Strangers
    THEN /\ cmd.hash = "none"
         /\ \/ cmd.op \in {"init", "badinit", "bogus"} /\ cmd.id = 0
            \/ cmd.op = "close" /\ ~client[c].inited
    ELSE IF ~client[c].inited THEN cmd = Cmd("init", 0, "none")
    ELSE \/ /\ cmd.op \in {"newR", "newW"} /\ cmd.id = 0 /\ cmd.hash = "none"
            /\ shmIndex + Cardinality({d \in Clients : Asks(d)}) < MaxIndex
         \/ /\ cmd.op = "bind" /\ cmd.id \in client[c].ids /\ cmd.hash \in Hashes
            /\ OneBind => \A b \in client[c].binds : b[1] # cmd.id
         \/ cmd.op = "close" /\ cmd.id \in client[c].ids /\ cmd.hash = "none"

Commands == [op : {"init", "badinit", "bogus", "newR", "newW", "bind", "close"},
             id : Ids, hash : Hashes \cup {"none"}]

Call(c, cmd) ==
    /\ client[c].st = "open" /\ client[c].await = None
    /\ Allowed(c, cmd)
    /\ Len(up[c]) + Len(down[c]) < MaxPipe
    /\ up' = [up EXCEPT ![c] = Append(@, cmd)]
    /\ client' = [client EXCEPT ![c].await = IF c \in Strangers THEN None ELSE cmd,
                                ![c].inited = @ \/ (c \in Strangers /\ cmd.op = "init"),
                                ![c].ids = IF cmd.op = "close" THEN @ \ {cmd.id} ELSE @,
                                ![c].binds = IF cmd.op = "close"
                                             THEN {b \in @ : b[1] # cmd.id} ELSE @]
    /\ UNCHANGED <<down, rst, conns, chans, gExit, touched>>

(* waitAck() has read a whole ss_cmd.  app/example.cpp takes the id in it  *)
(* for that of its channel whatever the answer was.                        *)
GotAnswer(c) ==
    LET a == Head(down[c])
        cmd == client[c].await
        takes == a.ok \/ ~ChecksReplies
    IN  /\ client[c].st = "open" /\ cmd # None /\ down[c] # << >>
        /\ down' = [down EXCEPT ![c] = Tail(@)]
        /\ client' = [client EXCEPT
              ![c].await = None,
              ![c].inited = @ \/ cmd.op = "init",
              ![c].ids = IF cmd.op \in {"newR", "newW"} /\ takes THEN @ \cup {a.id} ELSE @,
              ![c].binds = IF cmd.op = "bind" /\ a.ok THEN @ \cup {<<cmd.id, cmd.hash>>} ELSE @]
        /\ UNCHANGED <<up, rst, conns, chans, gExit, touched>>

(* The client ends, or closes its socket, with or without answers unread;  *)
(* unread ones make its kernel reset the connection.  waitAck() closes it  *)
(* too when the server has closed its end.                                 *)
Leave(c) ==
    /\ client[c].st = "open"
    /\ client' = [client EXCEPT ![c].st = "closed", ![c].await = None]
    /\ rst' = [rst EXCEPT ![c] = down[c] # << >>]
    /\ down' = [down EXCEPT ![c] = << >>]
    /\ UNCHANGED <<up, conns, chans, gExit, touched>>

------------------------------------------------------------------------------
(* The server's loop: what one ready descriptor makes it do.               *)

Accept(c, fd) ==
    /\ client[c].st # "new" /\ c \notin accepted
    /\ fd \in Fds \ DOMAIN peer
    /\ accepted' = accepted \cup {c}
    /\ peer' = Emplaced(peer, fd, c)
    /\ ctxState' = Assigned(ctxState, fd, "connected")
    /\ mainSet' = mainSet \cup {fd}
    /\ maxSd' = IF fd > maxSd THEN fd ELSE maxSd
    /\ UNCHANGED <<client, net, partial, chans, gExit, touched>>

(* Mutants: what is forgotten when a connection is closed.                 *)
EraseStateNotPart(fd) == /\ ctxState' = Restrict(ctxState, DOMAIN ctxState \ {fd})
                         /\ UNCHANGED partial
StopWatchingNotMax(fd) == mainSet' = mainSet \ {fd} /\ UNCHANGED maxSd

EraseState(fd) == /\ ctxState' = Restrict(ctxState, DOMAIN ctxState \ {fd})
                  /\ partial' = [partial EXCEPT ![fd] = None]

StopWatching(fd) == /\ mainSet' = mainSet \ {fd}
                    /\ maxSd' = IF fd = maxSd THEN Max(mainSet \ {fd}) ELSE maxSd

(* The channels of the connection and their hashes are left as they are.   *)
CloseConnection(fd) == /\ peer' = Restrict(peer, DOMAIN peer \ {fd})
                       /\ EraseState(fd)
                       /\ StopWatching(fd)
                       /\ UNCHANGED accepted

(* writeData() of one or two answers on fd.  The first to a client that    *)
(* has gone provokes a reset; one after the reset fails, with or without   *)
(* SIGPIPE, and the server closes the connection in the middle of start(). *)
WriteData(fd, state, answers) ==
    LET c == peer[fd]
        gone == client[c].st = "closed"
    IN  /\ down' = IF gone THEN down ELSE [down EXCEPT ![c] = @ \o answers]
        /\ rst' = [rst EXCEPT ![c] = @ \/ gone]
        /\ \/ /\ ctxState' = [ctxState EXCEPT ![fd] = state]
              /\ partial' = [partial EXCEPT ![fd] = None]
              /\ UNCHANGED <<accepted, peer, mainSet, maxSd, gExit, touched>>
           \/ /\ rst[c] \/ (gone /\ Len(answers) > 1)
              /\ CloseConnection(fd)
              /\ gExit' \in {gExit, TRUE} /\ touched' = TRUE

Reply(fd, answers) == WriteData(fd, ctxState[fd], answers)

(* A command that makes start() close the connection it came on.           *)
Reject(fd) ==
    /\ CloseConnection(fd)
    /\ touched' = TRUE
    /\ UNCHANGED <<down, rst, chans, gExit>>

InitCommand(fd, cmd) ==
    \/ /\ cmd.op = "init"
       /\ WriteData(fd, "inited", <<Answer(TRUE, 0)>>)
       /\ UNCHANGED chans
    \/ cmd.op = "badinit" /\ Reject(fd)

NewChan(fd, cmd) ==
    /\ cmd.op \in {"newR", "newW"}
    /\ shmIndex' = shmIndex + 1
    /\ \/ /\ ctxSock' = ctxSock \cup {<<fd, shmIndex>>}
          /\ dir' = Emplaced(dir, shmIndex, IF cmd.op = "newR" THEN "write" ELSE "read")
          /\ Reply(fd, <<Answer(TRUE, shmIndex)>>)
       \/ /\ Reply(fd, <<Answer(FALSE, 0)>>)    \* the segment cannot be created
          /\ UNCHANGED <<ctxSock, dir>>
    /\ UNCHANGED <<ctxHash, shmHash>>

(* Mutants: the hash is not looked up first; the refusal of a hash that is *)
(* taken is answered twice, or not at all.                                 *)
BindChanOver(fd, cmd) ==
    /\ cmd.op = "bind"
    /\ IF <<fd, cmd.id>> \in ctxSock
       THEN /\ ctxHash' = Assigned(ctxHash, cmd.hash, cmd.id)
            /\ shmHash' = Emplaced(shmHash, cmd.id, {cmd.hash})
            /\ Reply(fd, <<Answer(TRUE, cmd.id)>>)
       ELSE Reply(fd, <<Answer(FALSE, 0)>>) /\ UNCHANGED <<ctxHash, shmHash>>
    /\ UNCHANGED <<ctxSock, shmIndex, dir>>

BindChanRepeats(fd, cmd) ==
    /\ cmd.op = "bind"
    /\ IF <<fd, cmd.id>> \in ctxSock /\ cmd.hash \notin DOMAIN ctxHash
       THEN /\ ctxHash' = Emplaced(ctxHash, cmd.hash, cmd.id)
            /\ shmHash' = Emplaced(shmHash, cmd.id, {cmd.hash})
            /\ Reply(fd, <<Answer(TRUE, cmd.id)>>)
       ELSE Reply(fd, <<Answer(FALSE, cmd.id), Answer(FALSE, 0)>>) /\ UNCHANGED <<ctxHash, shmHash>>
    /\ UNCHANGED <<ctxSock, shmIndex, dir>>

BindChanSilent(fd, cmd) ==
    /\ cmd.op = "bind"
    /\ IF <<fd, cmd.id>> \in ctxSock /\ cmd.hash \notin DOMAIN ctxHash
       THEN /\ ctxHash' = Emplaced(ctxHash, cmd.hash, cmd.id)
            /\ shmHash' = Emplaced(shmHash, cmd.id, {cmd.hash})
            /\ Reply(fd, <<Answer(TRUE, cmd.id)>>)
       ELSE Reply(fd, << >>) /\ UNCHANGED <<ctxHash, shmHash>>
    /\ UNCHANGED <<ctxSock, shmIndex, dir>>

BindChan(fd, cmd) ==
    LET owned == {x \in ctxSock : x[1] = fd}
    IN  /\ cmd.op = "bind"
        /\ \/ /\ owned = {}
              /\ Reply(fd, <<Answer(FALSE, 0), Answer(FALSE, 0)>>)
              /\ UNCHANGED <<ctxHash, shmHash>>
           \/ /\ owned # {} /\ <<fd, cmd.id>> \notin owned
              /\ Reply(fd, <<Answer(FALSE, 0)>>)
              /\ UNCHANGED <<ctxHash, shmHash>>
           \/ /\ <<fd, cmd.id>> \in owned /\ cmd.hash \in DOMAIN ctxHash
              /\ Reply(fd, <<Answer(FALSE, cmd.id)>>)
              /\ UNCHANGED <<ctxHash, shmHash>>
           \/ /\ <<fd, cmd.id>> \in owned /\ cmd.hash \notin DOMAIN ctxHash
              /\ ctxHash' = Emplaced(ctxHash, cmd.hash, cmd.id)
              /\ shmHash' = Emplaced(shmHash, cmd.id, {cmd.hash})
              /\ Reply(fd, <<Answer(TRUE, cmd.id)>>)
        /\ UNCHANGED <<ctxSock, shmIndex, dir>>

CloseChanBound(fd, cmd) ==    \* a mutant: the hashes are left
    /\ cmd.op = "close"
    /\ ctxSock' = ctxSock \ {<<fd, cmd.id>>}
    /\ Reply(fd, <<Answer(TRUE, cmd.id)>>)
    /\ UNCHANGED <<ctxHash, shmHash, shmIndex, dir>>

CloseChan(fd, cmd) ==
    LET hashes == IF cmd.id \in DOMAIN shmHash THEN shmHash[cmd.id] ELSE {}
    IN  /\ cmd.op = "close"
        /\ ctxSock' = ctxSock \ {<<fd, cmd.id>>}
        /\ ctxHash' = Restrict(ctxHash, DOMAIN ctxHash \ hashes)
        /\ shmHash' = Restrict(shmHash, DOMAIN shmHash \ {cmd.id})
        /\ Reply(fd, <<Answer(TRUE, cmd.id)>>)
        /\ UNCHANGED <<shmIndex, dir>>

ProcessCommandsUninited(fd, cmd) ==    \* a mutant: anybody may have channels
    \/ InitCommand(fd, cmd)
    \/ NewChan(fd, cmd) \/ BindChan(fd, cmd) \/ CloseChan(fd, cmd)
    \/ cmd.op = "bogus" /\ Reject(fd)

ProcessCommands(fd, cmd) ==
    \/ InitCommand(fd, cmd)
    \/ /\ ctxState[fd] = "inited"
       /\ \/ NewChan(fd, cmd) \/ BindChan(fd, cmd) \/ CloseChan(fd, cmd)
          \/ cmd.op = "bogus" /\ Reject(fd)
    \/ /\ ctxState[fd] # "inited" /\ cmd.op \notin {"init", "badinit"}    \* dropped
       /\ partial' = [partial EXCEPT ![fd] = None]
       /\ UNCHANGED <<down, rst, accepted, peer, ctxState, mainSet, maxSd, chans, gExit, touched>>

(* Part of a command has arrived: kept in _partial_data.                   *)
ReadPart(fd) ==
    /\ fd \in DOMAIN peer
    /\ up[peer[fd]] # << >> /\ partial[fd] = None
    /\ partial' = [partial EXCEPT ![fd] = Head(up[peer[fd]])]
    /\ UNCHANGED <<client, net, accepted, peer, ctxState, mainSet, maxSd, chans, gExit, touched>>

(* The whole of a command, or what was missing of it.                      *)
ReadCommand(fd) ==
    /\ fd \in DOMAIN peer
    /\ LET c == peer[fd]
       IN  /\ up[c] # << >>
           /\ up' = [up EXCEPT ![c] = Tail(@)]
           /\ ProcessCommands(fd, Head(up[c]))
    /\ UNCHANGED client

(* The end of the stream, or ECONNRESET.                                   *)
ReadEnd(fd) ==
    /\ fd \in DOMAIN peer
    /\ LET c == peer[fd]
       IN  /\ client[c].st = "closed" /\ (up[c] = << >> \/ rst[c])
           /\ up' = [up EXCEPT ![c] = << >>]
    /\ CloseConnection(fd)
    /\ UNCHANGED <<client, down, rst, chans, gExit, touched>>

Serve(fd) == ReadPart(fd) \/ ReadCommand(fd) \/ ReadEnd(fd)

Next == \/ \E c \in Clients : \/ Connect(c)
                              \/ \E cmd \in Commands : Call(c, cmd)
                              \/ GotAnswer(c)
                              \/ Leave(c)
                              \/ \E fd \in Fds : Accept(c, fd)
        \/ \E fd \in Fds : Serve(fd)

Spec == Init /\ [][Next]_vars

(* The client finds that the server has closed its end.                    *)
ServerClosed(c) == c \in accepted /\ \A fd \in DOMAIN peer : peer[fd] # c

(* select() returns every ready descriptor and the loop serves them all; a *)
(* client that waits for an answer reads what has come.                    *)
FairSpec == /\ Spec
            /\ \A fd \in Fds : WF_vars(ReadCommand(fd) \/ ReadEnd(fd))
            /\ \A c \in Clients : /\ WF_vars(\E fd \in Fds : Accept(c, fd))
                                  /\ WF_vars(GotAnswer(c))
                                  /\ WF_vars(ServerClosed(c) /\ Leave(c))

------------------------------------------------------------------------------
(* The channel, if any, that send() pushes a packet of hash h to.          *)
SendsTo(h) == {ctxHash[x] : x \in {y \in DOMAIN ctxHash : y = h /\ dir[ctxHash[y]] = "write"}}

TypeOK ==
    /\ \A c \in Clients : /\ client[c].st \in {"new", "open", "closed"}
                          /\ client[c].await \in Commands \cup {None}
                          /\ client[c].ids \subseteq Ids
    /\ accepted \subseteq Clients
    /\ DOMAIN peer \subseteq Fds /\ DOMAIN ctxState = DOMAIN peer
    /\ ctxSock \subseteq Fds \X Ids
    /\ DOMAIN ctxHash \subseteq Hashes /\ DOMAIN shmHash \subseteq Ids
    /\ shmIndex \in 0 .. MaxIndex

(* A client that has its SS_ACK for a bind, and has not closed the channel *)
(* since, gets the packets of that hash into that channel, whatever other  *)
(* clients and earlier users of the descriptor did.                        *)
AckedMeansBound ==
    \A c \in Clients : client[c].st = "open" =>
        \A b \in client[c].binds :
            /\ b[2] \in DOMAIN ctxHash /\ ctxHash[b[2]] = b[1]
            /\ SendsTo(b[2]) = IF dir[b[1]] = "write" THEN {b[1]} ELSE {}

(* SharedServer.h:70-71, "Need to remove all corresponds hashes if shared  *)
(* ctx with id will be removed": no hash leads to a channel that has been  *)
(* closed.                                                                 *)
ClosedIsUnbound ==
    \A h \in DOMAIN ctxHash : \E fd \in Fds : <<fd, ctxHash[h]>> \in ctxSock

(* A client that waits has one command or one answer on its way, a client  *)
(* that does not wait has none: the next waitAck() reads the answer to the *)
(* next command.                                                           *)
OneReply ==
    \A c \in Clients \ Strangers : client[c].st = "open" /\ ~ServerClosed(c) =>
        Len(up[c]) + Len(down[c]) = IF client[c].await = None THEN 0 ELSE 1

(* Clients that go away at a bad moment neither make the program end       *)
(* (SIGPIPE sets gExit in mediaroom.cpp) nor make start() use the entry    *)
(* of _partial_data that closeConnection() erased.                         *)
CleanServer == ~gExit /\ ~touched

(* select() watches the listening socket and every connection, and no      *)
(* descriptor above _max_sd is among them.                                 *)
SelectCovers == mainSet = {Listen} \cup DOMAIN peer /\ maxSd = Max(mainSet)

(* A command read in part is completed by the rest of the same command,    *)
(* never by one of a later user of the descriptor.                         *)
FramingKept ==
    \A fd \in Fds : partial[fd] # None =>
        /\ fd \in DOMAIN peer
        /\ up[peer[fd]] # << >> /\ Head(up[peer[fd]]) = partial[fd]

(* What a stranger sends changes no channel, on a descriptor that belonged *)
(* to a client before as on any other.                                     *)
StrangersShutOut ==
    [][\A c \in Strangers : Len(up'[c]) < Len(up[c]) => UNCHANGED chans]_vars

(* Every command is answered, or the connection ends.                      *)
Answered == \A c \in Clients \ Strangers : client[c].await # None ~> client[c].await = None
==============================================================================
