-------------------------- MODULE SharedServerProofs --------------------------
(***************************************************************************)
(* What the control connection keeps right for every number of clients,    *)
(* descriptors, hashes and channels, whatever strangers send.              *)
(*                                                                         *)
(* The argument: a connection belongs to one client and a client has one   *)
(* connection (Conns), so that what is read on a descriptor changes the    *)
(* stream of one client only; and what has been read of a command is the   *)
(* beginning of what comes next on that stream (FramingKept).              *)
(***************************************************************************)
EXTENDS SharedServer, FiniteSetTheorems, SequenceTheorems, TLAPS

(* Connections and what select() is told of them.                          *)
Conns == /\ DOMAIN peer \subseteq Fds
         /\ accepted \subseteq Clients
         /\ \A fd \in DOMAIN peer : peer[fd] \in accepted
         /\ \A f, g \in DOMAIN peer : peer[f] = peer[g] => f = g

States == DOMAIN ctxState = DOMAIN peer

Watched == /\ mainSet = {Listen} \cup DOMAIN peer
           /\ maxSd \in mainSet
           /\ \A fd \in mainSet : maxSd >= fd

Streams == /\ up \in [Clients -> Seq(Commands)]
           /\ DOMAIN partial = Fds

Shape == /\ DOMAIN client = Clients
         /\ \A c \in Clients : DOMAIN client[c] = {"st", "inited", "await", "ids", "binds"}

(* A stranger that may still ask for a channel to be closed has not said   *)
(* hi, and what it sent before it did is read before the hi is.            *)
PowerlessOf(c) ==
    /\ client[c].await = None
    /\ \A i \in DOMAIN up[c] : up[c][i].op \in {"init", "badinit", "bogus", "close"}
    /\ \A i, j \in DOMAIN up[c] : up[c][i].op = "init" /\ up[c][j].op = "close" => j < i
    /\ \A i \in DOMAIN up[c] : up[c][i].op = "init" => client[c].inited = TRUE
    /\ \A fd \in DOMAIN peer : peer[fd] = c /\ ctxState[fd] = "inited" =>
          client[c].inited = TRUE /\ \A i \in DOMAIN up[c] : up[c][i].op # "close"

Powerless == \A c \in Strangers : PowerlessOf(c)

IInv == Conns /\ States /\ Watched /\ Streams /\ FramingKept /\ Shape /\ Powerless

------------------------------------------------------------------------------
(* A finite set of numbers has a greatest: the one that the fewest of them *)
(* are above.                                                              *)
LEMMA GreatestExists ==
    ASSUME NEW S, IsFiniteSet(S), S \subseteq Nat, S # {}
    PROVE  \E x \in S : \A y \in S : x >= y
<1> DEFINE Above(x) == {y \in S : y > x}
           T == {Above(x) : x \in S}
<1>1. T \subseteq FiniteSubsetsOf(S) /\ T # {}
  <2>1. \A x \in S : Above(x) \in SUBSET S
    OBVIOUS
  <2>2. T \subseteq SUBSET S /\ T # {}
    BY <2>1
  <2>3. FiniteSubsetsOf(S) = SUBSET S
    BY FS_FiniteSubsetsOfFinite
  <2>4. QED
    BY <2>2, <2>3
<1>2. IsWellFoundedOn(StrictSubsetOrdering(S), FiniteSubsetsOf(S))
  BY FS_StrictSubsetOrderingWellFounded
<1>3. \E A \in T : \A B \in T : <<B, A>> \notin StrictSubsetOrdering(S)
  <2> HIDE DEF T
  <2>1. QED
    BY <1>1, <1>2, WFMin
<1>4. PICK x \in S : \A B \in T : <<B, Above(x)>> \notin StrictSubsetOrdering(S)
  BY <1>3
<1>5. ASSUME NEW y \in S, y > x PROVE FALSE
  <2>1. Above(y) \subseteq Above(x) /\ y \in Above(x) /\ y \notin Above(y)
    <3>1. x \in Nat /\ y \in Nat /\ \A z \in S : z \in Nat
      OBVIOUS
    <3>2. \A z \in S : z > y => z > x
      BY <1>5, <3>1
    <3>3. ~(y > y)
      BY <3>1
    <3>4. QED
      BY <1>5, <3>2, <3>3
  <2>2. <<Above(y), Above(x)>> \in StrictSubsetOrdering(S)
    BY <2>1 DEF StrictSubsetOrdering
  <2>3. QED
    BY <1>4, <2>2
<1>6. QED
  BY <1>4, <1>5

LEMMA GreatestIsMax ==
    ASSUME NEW S, S \subseteq Nat, NEW m \in S, \A y \in S : m >= y
    PROVE  Max(S) = m
<1>1. \A x \in S : (\A y \in S : x >= y) => x = m
  OBVIOUS
<1>2. QED
  BY <1>1 DEF Max

LEMMA MaxIsGreatest ==
    ASSUME NEW S, IsFiniteSet(S), S \subseteq Nat, S # {}
    PROVE  Max(S) \in S /\ \A y \in S : Max(S) >= y
  BY GreatestExists DEF Max

(* Maps with an entry more, or less.                                       *)
LEMMA AssignedMap ==
    ASSUME NEW f, NEW x, NEW v, NEW g, g = Assigned(f, x, v)
    PROVE  /\ DOMAIN g = DOMAIN f \cup {x}
           /\ \A y \in DOMAIN f \ {x} : g[y] = f[y]
           /\ g[x] = v
  BY DEF Assigned

LEMMA Restricted ==
    ASSUME NEW f, NEW x
    PROVE  LET g == Restrict(f, DOMAIN f \ {x})
           IN  DOMAIN g = DOMAIN f \ {x} /\ \A y \in DOMAIN g : g[y] = f[y]
  BY DEF Restrict

------------------------------------------------------------------------------
(* What a command makes of its connection: kept, and in the same state but *)
(* for one that says hi, or closed.                                        *)
Keeps(fd, cmd) ==
    /\ \/ ctxState' = ctxState
       \/ ctxState' = [ctxState EXCEPT ![fd] = ctxState[fd]]
       \/ cmd.op = "init" /\ ctxState' = [ctxState EXCEPT ![fd] = "inited"]
    /\ partial' = [partial EXCEPT ![fd] = None]
    /\ UNCHANGED <<accepted, peer, mainSet, maxSd>>

LEMMA Replied ==
    ASSUME NEW fd, NEW cmd, NEW s, NEW answers, WriteData(fd, s, answers),
           s = ctxState[fd] \/ (s = "inited" /\ cmd.op = "init")
    PROVE  Keeps(fd, cmd) \/ CloseConnection(fd)
  BY DEF WriteData, Keeps

LEMMA Processed ==
    ASSUME NEW fd, NEW cmd, ProcessCommands(fd, cmd)
    PROVE  Keeps(fd, cmd) \/ CloseConnection(fd)
<1>1. CASE InitCommand(fd, cmd)
  BY <1>1, Replied DEF InitCommand, Reject
<1>2. CASE NewChan(fd, cmd)
  BY <1>2, Replied DEF NewChan, Reply
<1>3. CASE BindChan(fd, cmd)
  BY <1>3, Replied DEF BindChan, Reply
<1>4. CASE CloseChan(fd, cmd)
  BY <1>4, Replied DEF CloseChan, Reply
<1>5. CASE Reject(fd)
  BY <1>5 DEF Reject
<1>6. CASE /\ partial' = [partial EXCEPT ![fd] = None]
           /\ UNCHANGED <<down, rst, accepted, peer, ctxState, mainSet, maxSd, chans, gExit, touched>>
  BY <1>6 DEF Keeps
<1>7. QED
  BY <1>1, <1>2, <1>3, <1>4, <1>5, <1>6 DEF ProcessCommands

(* select() goes on to watch every connection.                             *)
LEMMA AcceptWatches ==
    ASSUME IInv, NEW c \in Clients, NEW fd \in Fds, Accept(c, fd)
    PROVE  (Conns /\ States /\ Watched)'
<1>1. peer' = Assigned(peer, fd, c) /\ fd \notin DOMAIN peer /\ c \notin accepted
  BY DEF Accept, Emplaced
<1>2. /\ DOMAIN peer' = DOMAIN peer \cup {fd} /\ peer'[fd] = c
      /\ \A f \in DOMAIN peer : peer'[f] = peer[f]
  <2>1. /\ DOMAIN peer' = DOMAIN peer \cup {fd}
        /\ \A f \in DOMAIN peer \ {fd} : peer'[f] = peer[f]
        /\ peer'[fd] = c
    BY <1>1 DEF Assigned
  <2>2. QED
    BY <1>1, <2>1
<1>3. Conns'
  BY <1>1, <1>2 DEF Accept, IInv, Conns
<1>4. States'
  <2>1. DOMAIN ctxState' = DOMAIN ctxState \cup {fd}
    <3>1. ctxState' = Assigned(ctxState, fd, "connected")
      BY DEF Accept
    <3>2. QED
      BY <3>1, AssignedMap
  <2>2. DOMAIN ctxState = DOMAIN peer
    BY DEF IInv, States
  <2>3. QED
    BY <1>2, <2>1, <2>2 DEF States
<1>5. Watched'
  <2>1. fd \in Nat /\ \A x \in mainSet : x \in Nat
    BY FdsAssumption DEF IInv, Watched, Conns, Listen
  <2>2. mainSet' = mainSet \cup {fd} /\ maxSd' = IF fd > maxSd THEN fd ELSE maxSd
    BY DEF Accept
  <2>3. maxSd' \in mainSet' /\ \A x \in mainSet' : maxSd' >= x
    BY <2>1, <2>2 DEF IInv, Watched
  <2>4. QED
    BY <1>2, <2>2, <2>3 DEF IInv, Watched
<1>6. QED
  BY <1>3, <1>4, <1>5

LEMMA CloseWatches ==
    ASSUME IInv, NEW fd \in DOMAIN peer, CloseConnection(fd)
    PROVE  /\ (Conns /\ States /\ Watched)'
           /\ DOMAIN peer' = DOMAIN peer \ {fd}
           /\ \A f \in DOMAIN peer' : peer'[f] = peer[f]
           /\ \A f \in DOMAIN peer' : ctxState'[f] = ctxState[f]
<1>1. DOMAIN peer' = DOMAIN peer \ {fd} /\ \A f \in DOMAIN peer' : peer'[f] = peer[f]
  <2>1. peer' = Restrict(peer, DOMAIN peer \ {fd})
    BY DEF CloseConnection
  <2>2. QED
    BY <2>1, Restricted
<1>2. Conns'
  BY <1>1 DEF CloseConnection, IInv, Conns
<1>0. DOMAIN ctxState' = DOMAIN ctxState \ {fd} /\ \A f \in DOMAIN ctxState' : ctxState'[f] = ctxState[f]
  <2>1. ctxState' = Restrict(ctxState, DOMAIN ctxState \ {fd})
    BY DEF CloseConnection, EraseState
  <2>2. QED
    BY <2>1, Restricted
<1>3. States'
  <2>1. DOMAIN ctxState = DOMAIN peer
    BY DEF IInv, States
  <2>2. DOMAIN ctxState' = DOMAIN peer'
    BY <1>0, <1>1, <2>1
  <2>3. QED
    BY <2>2 DEF States
<1>6. \A f \in DOMAIN peer' : ctxState'[f] = ctxState[f]
  <2>1. DOMAIN ctxState' = DOMAIN peer'
    BY <1>3 DEF States
  <2>2. QED
    BY <1>0, <2>1
<1>4. Watched'
  <2>1. fd \in Fds /\ fd # Listen
    BY FdsAssumption DEF IInv, Conns, Listen
  <2>2. mainSet' = mainSet \ {fd} /\ maxSd' = IF fd = maxSd THEN Max(mainSet \ {fd}) ELSE maxSd
    BY DEF CloseConnection, StopWatching
  <2>3. Listen \in mainSet' /\ mainSet' \subseteq {Listen} \cup Fds
    BY <2>1, <2>2 DEF IInv, Watched, Conns
  <2>4. IsFiniteSet(mainSet') /\ mainSet' \subseteq Nat
    <3>1. IsFiniteSet({Listen} \cup Fds) /\ {Listen} \cup Fds \subseteq Nat
      BY FdsAssumption, FS_AddElement DEF Listen
    <3>2. QED
      BY <2>3, <3>1, FS_Subset
  <2>5. Max(mainSet') \in mainSet' /\ \A x \in mainSet' : Max(mainSet') >= x
    BY <2>3, <2>4, MaxIsGreatest
  <2>6. maxSd' \in mainSet' /\ \A x \in mainSet' : maxSd' >= x
    BY <2>2, <2>5 DEF IInv, Watched
  <2>7. QED
    BY <1>1, <2>1, <2>2, <2>6 DEF IInv, Watched
<1>5. QED
  BY <1>1, <1>2, <1>3, <1>4, <1>6

------------------------------------------------------------------------------
LEMMA CommandRead ==
    ASSUME IInv, NEW fd \in Fds, ReadCommand(fd)
    PROVE  /\ fd \in DOMAIN peer /\ peer[fd] \in Clients
           /\ up[peer[fd]] # << >> /\ up[peer[fd]] \in Seq(Commands)
           /\ up' = [up EXCEPT ![peer[fd]] = Tail(@)]
           /\ Keeps(fd, Head(up[peer[fd]])) \/ CloseConnection(fd)
           /\ UNCHANGED client
  BY Processed DEF ReadCommand, IInv, Conns, Streams

(* Whose streams grow, and whose shrink.                                   *)
LEMMA StreamsStep == IInv /\ [Next]_vars => Streams'
<1> SUFFICES ASSUME IInv, [Next]_vars PROVE Streams'
  OBVIOUS
<1>1. ASSUME NEW c \in Clients, NEW cmd \in Commands, Call(c, cmd) PROVE Streams'
  BY <1>1, AppendProperties DEF Call, conns, IInv, Streams
<1>2. ASSUME NEW c \in Clients, NEW fd \in Fds, Accept(c, fd) PROVE Streams'
  BY <1>2 DEF Accept, net, IInv, Streams
<1>3. ASSUME NEW fd \in Fds, ReadPart(fd) PROVE Streams'
  BY <1>3 DEF ReadPart, net, IInv, Streams
<1>4. ASSUME NEW fd \in Fds, ReadCommand(fd) PROVE Streams'
  <2>1. up' \in [Clients -> Seq(Commands)]
    <3>1. /\ up[peer[fd]] # << >> /\ up[peer[fd]] \in Seq(Commands) /\ peer[fd] \in Clients
          /\ up' = [up EXCEPT ![peer[fd]] = Tail(@)]
      BY <1>4, CommandRead
    <3>2. Tail(up[peer[fd]]) \in Seq(Commands)
      BY <3>1, HeadTailProperties
    <3>3. up \in [Clients -> Seq(Commands)]
      BY DEF IInv, Streams
    <3>4. QED
      BY <3>1, <3>2, <3>3
  <2>2. DOMAIN partial' = DOMAIN partial
    BY <1>4, CommandRead DEF Keeps, CloseConnection, EraseState
  <2>3. QED
    BY <2>1, <2>2 DEF IInv, Streams
<1>5. ASSUME NEW fd \in Fds, ReadEnd(fd) PROVE Streams'
  BY <1>5, EmptySeq DEF ReadEnd, CloseConnection, EraseState, IInv, Streams, Conns
<1>6. ASSUME NEW c \in Clients, Connect(c) \/ GotAnswer(c) \/ Leave(c) PROVE Streams'
  BY <1>6 DEF Connect, GotAnswer, Leave, net, conns, IInv, Streams
<1>7. CASE UNCHANGED vars
  BY <1>7 DEF vars, net, conns, IInv, Streams
<1>8. QED
  BY <1>1, <1>2, <1>3, <1>4, <1>5, <1>6, <1>7 DEF Next, Serve

LEMMA ConnsStep == IInv /\ [Next]_vars => (Conns /\ States /\ Watched)'
<1> SUFFICES ASSUME IInv, [Next]_vars PROVE (Conns /\ States /\ Watched)'
  OBVIOUS
<1>1. ASSUME NEW fd \in Fds, ReadCommand(fd) PROVE (Conns /\ States /\ Watched)'
  <2>1. CASE CloseConnection(fd)
    BY <1>1, <2>1, CommandRead, CloseWatches
  <2>2. CASE Keeps(fd, Head(up[peer[fd]]))
    BY <2>2 DEF Keeps, IInv, Conns, States, Watched
  <2>3. QED
    BY <1>1, <2>1, <2>2, CommandRead
<1>2. ASSUME NEW fd \in Fds, ReadEnd(fd) PROVE (Conns /\ States /\ Watched)'
  BY <1>2, CloseWatches DEF ReadEnd
<1>3. ASSUME NEW fd \in Fds, ReadPart(fd) PROVE (Conns /\ States /\ Watched)'
  BY <1>3 DEF ReadPart, IInv, Conns, States, Watched
<1>4. ASSUME UNCHANGED conns PROVE (Conns /\ States /\ Watched)'
  BY <1>4 DEF conns, IInv, Conns, States, Watched
<1>5. ASSUME NEW c \in Clients, Connect(c) \/ GotAnswer(c) \/ Leave(c) PROVE UNCHANGED conns
  BY <1>5 DEF Connect, GotAnswer, Leave
<1>6. ASSUME NEW c \in Clients, NEW cmd \in Commands, Call(c, cmd) PROVE UNCHANGED conns
  BY <1>6 DEF Call
<1>7. CASE UNCHANGED vars
  BY <1>4, <1>7 DEF vars
<1>8. QED
  BY <1>1, <1>2, <1>3, <1>4, <1>5, <1>6, <1>7, AcceptWatches DEF Next, Serve

LEMMA HeadStays ==
    ASSUME NEW S, NEW s \in Seq(S), NEW e \in S, s # << >>
    PROVE  Append(s, e) # << >> /\ Head(Append(s, e)) = Head(s)
  BY AppendProperties, HeadTailProperties, EmptySeq, LenProperties

(* What others send, and what is read of their streams, leaves a part of a *)
(* command where it is.                                                    *)
LEMMA FramingStep == IInv /\ [Next]_vars => FramingKept'
<1> SUFFICES ASSUME IInv, [Next]_vars PROVE FramingKept'
  OBVIOUS
<1>1. ASSUME NEW c \in Clients, NEW cmd \in Commands, Call(c, cmd) PROVE FramingKept'
  <2>1. up' = [up EXCEPT ![c] = Append(up[c], cmd)] /\ UNCHANGED <<peer, partial>>
    BY <1>1 DEF Call, conns
  <2>2. up[c] # << >> => Append(up[c], cmd) # << >> /\ Head(Append(up[c], cmd)) = Head(up[c])
    BY HeadStays DEF IInv, Streams
  <2>3. QED
    BY <2>1, <2>2 DEF IInv, Streams, Conns, FramingKept
<1>2. ASSUME NEW c \in Clients, NEW fd \in Fds, Accept(c, fd) PROVE FramingKept'
  <2>1. /\ peer' = Assigned(peer, fd, c) /\ fd \notin DOMAIN peer
        /\ UNCHANGED <<up, partial>>
    BY <1>2 DEF Accept, Emplaced, net
  <2>2. DOMAIN peer \subseteq DOMAIN peer' /\ \A f \in DOMAIN peer : peer'[f] = peer[f]
    BY <2>1 DEF Assigned
  <2>3. QED
    BY <2>1, <2>2 DEF IInv, FramingKept
<1>3. ASSUME NEW fd \in Fds, ReadPart(fd) PROVE FramingKept'
  BY <1>3 DEF ReadPart, net, IInv, Streams, FramingKept
<1>4. ASSUME NEW fd \in Fds, fd \in DOMAIN peer, partial' = [partial EXCEPT ![fd] = None],
             \A c \in Clients : c # peer[fd] => up'[c] = up[c],
             DOMAIN peer \ {fd} \subseteq DOMAIN peer', \A f \in DOMAIN peer \ {fd} : peer'[f] = peer[f]
      PROVE  FramingKept'
  <2> SUFFICES ASSUME NEW f \in Fds, partial'[f] # None
               PROVE  f \in DOMAIN peer' /\ up'[peer'[f]] # << >> /\ Head(up'[peer'[f]]) = partial'[f]
    BY DEF FramingKept
  <2>1. f # fd /\ partial[f] # None /\ partial'[f] = partial[f]
    BY <1>4 DEF IInv, Streams
  <2>2. f \in DOMAIN peer /\ up[peer[f]] # << >> /\ Head(up[peer[f]]) = partial[f]
    BY <2>1 DEF IInv, FramingKept
  <2>3. peer'[f] = peer[f] /\ peer[f] # peer[fd] /\ peer[f] \in Clients
    BY <1>4, <2>1, <2>2 DEF IInv, Conns
  <2>4. QED
    BY <1>4, <2>1, <2>2, <2>3
<1>5. ASSUME NEW fd \in Fds, ReadCommand(fd) PROVE FramingKept'
  <2>1. fd \in DOMAIN peer /\ \A c \in Clients : c # peer[fd] => up'[c] = up[c]
    BY <1>5, CommandRead DEF IInv, Streams
  <2>2. CASE CloseConnection(fd)
    BY <1>4, <2>1, <2>2, CloseWatches DEF CloseConnection, EraseState
  <2>3. CASE Keeps(fd, Head(up[peer[fd]]))
    BY <1>4, <2>1, <2>3 DEF Keeps
  <2>4. QED
    BY <1>5, <2>2, <2>3, CommandRead
<1>6. ASSUME NEW fd \in Fds, ReadEnd(fd) PROVE FramingKept'
  <2>1. fd \in DOMAIN peer /\ CloseConnection(fd) /\ \A c \in Clients : c # peer[fd] => up'[c] = up[c]
    BY <1>6 DEF ReadEnd, IInv, Streams
  <2>2. QED
    BY <1>4, <2>1, CloseWatches DEF CloseConnection, EraseState
<1>7. ASSUME UNCHANGED <<up, conns>> PROVE FramingKept'
  BY <1>7 DEF conns, IInv, FramingKept
<1>8. ASSUME NEW c \in Clients, Connect(c) \/ GotAnswer(c) \/ Leave(c) PROVE UNCHANGED <<up, conns>>
  BY <1>8 DEF Connect, GotAnswer, Leave, net
<1>9. CASE UNCHANGED vars
  BY <1>7, <1>9 DEF vars, net
<1>10. QED
  BY <1>1, <1>2, <1>3, <1>5, <1>6, <1>7, <1>8, <1>9 DEF Next, Serve

LEMMA ShapeStep == IInv /\ [Next]_vars => Shape'
<1> SUFFICES ASSUME IInv, [Next]_vars PROVE Shape'
  OBVIOUS
<1>1. ASSUME NEW c \in Clients, Connect(c) PROVE Shape'
  BY <1>1 DEF Connect, IInv, Shape
<1>2. ASSUME NEW c \in Clients, NEW cmd \in Commands, Call(c, cmd) PROVE Shape'
  BY <1>2 DEF Call, IInv, Shape
<1>3. ASSUME NEW c \in Clients, GotAnswer(c) PROVE Shape'
  BY <1>3 DEF GotAnswer, IInv, Shape
<1>4. ASSUME NEW c \in Clients, Leave(c) PROVE Shape'
  BY <1>4 DEF Leave, IInv, Shape
<1>5. ASSUME UNCHANGED client PROVE Shape'
  BY <1>5 DEF IInv, Shape
<1>6. ASSUME NEW c \in Clients, NEW fd \in Fds, Accept(c, fd) PROVE UNCHANGED client
  BY <1>6 DEF Accept
<1>7. ASSUME NEW fd \in Fds, Serve(fd) PROVE UNCHANGED client
  BY <1>7 DEF Serve, ReadPart, ReadCommand, ReadEnd
<1>8. CASE UNCHANGED vars
  BY <1>5, <1>8 DEF vars
<1>9. QED
  BY <1>1, <1>2, <1>3, <1>4, <1>5, <1>6, <1>7, <1>8 DEF Next

------------------------------------------------------------------------------
LEMMA TailItems ==
    ASSUME NEW S, NEW s \in Seq(S), s # << >>
    PROVE  /\ Len(s) \in Nat /\ DOMAIN s = 1 .. Len(s) /\ Len(Tail(s)) = Len(s) - 1
           /\ DOMAIN Tail(s) = 1 .. Len(s) - 1
           /\ \A i \in DOMAIN Tail(s) : i + 1 \in DOMAIN s /\ Tail(s)[i] = s[i + 1]
           /\ 1 \in DOMAIN s /\ Head(s) = s[1]
  BY HeadTailProperties, LenProperties, EmptySeq

(* What a stranger may do depends on what it sent and on whether its       *)
(* connection has been greeted: nothing others do touches either.          *)
LEMMA PowerlessKept ==
    ASSUME IInv, NEW c \in Strangers,
           client'[c].await = client[c].await, client'[c].inited = client[c].inited,
           up'[c] = up[c] \/ up'[c] = << >>,
           \A fd \in DOMAIN peer' : peer'[fd] = c /\ ctxState'[fd] = "inited" =>
               fd \in DOMAIN peer /\ peer[fd] = c /\ ctxState[fd] = "inited"
    PROVE  PowerlessOf(c)'
<1>1. PowerlessOf(c)
  BY DEF IInv, Powerless
<1>2. CASE up'[c] = up[c]
  BY <1>1, <1>2 DEF PowerlessOf
<1>3. CASE up'[c] = << >>
  BY <1>1, <1>3 DEF PowerlessOf
<1>4. QED
  BY <1>2, <1>3

(* A stranger sends what Allowed lets it.                                  *)
LEMMA StrangerCalls ==
    ASSUME IInv, NEW c \in Strangers, NEW cmd \in Commands, Call(c, cmd)
    PROVE  PowerlessOf(c)'
<1>1. PowerlessOf(c) /\ c \in Clients /\ up[c] \in Seq(Commands)
  BY ClientsAssumption DEF IInv, Powerless, Streams
<1>2. /\ up'[c] = Append(up[c], cmd)
      /\ client'[c].await = None
      /\ client'[c].inited = (client[c].inited \/ cmd.op = "init")
      /\ UNCHANGED <<peer, ctxState>>
  BY <1>1 DEF Call, conns, IInv, Streams, Shape
<1>3. /\ cmd.op \in {"init", "badinit", "bogus", "close"}
      /\ cmd.op = "close" => ~client[c].inited
  BY DEF Call, Allowed
<1>4. /\ Len(up[c]) \in Nat /\ DOMAIN up[c] = 1 .. Len(up[c])
      /\ DOMAIN up'[c] = 1 .. Len(up[c]) + 1
      /\ \A i \in DOMAIN up[c] : up'[c][i] = up[c][i]
      /\ up'[c][Len(up[c]) + 1] = cmd
  BY <1>1, <1>2, AppendProperties, LenProperties
<1>5. \A i \in DOMAIN up'[c] : i \in DOMAIN up[c] \/ i = Len(up[c]) + 1
  BY <1>4
<1>6. \A i \in DOMAIN up'[c] : up'[c][i].op \in {"init", "badinit", "bogus", "close"}
  BY <1>1, <1>3, <1>4, <1>5 DEF PowerlessOf
<1>7. \A i \in DOMAIN up'[c] : up'[c][i].op = "init" => client'[c].inited = TRUE
  BY <1>1, <1>2, <1>4, <1>5 DEF PowerlessOf
<1>8. ASSUME NEW i \in DOMAIN up'[c], NEW j \in DOMAIN up'[c],
             up'[c][i].op = "init", up'[c][j].op = "close"
      PROVE  j < i
  <2>1. CASE i \in DOMAIN up[c] /\ j \in DOMAIN up[c]
    BY <1>1, <1>4, <1>8, <2>1 DEF PowerlessOf
  <2>2. CASE i \in DOMAIN up[c] /\ j = Len(up[c]) + 1
    BY <1>1, <1>3, <1>4, <1>8, <2>2 DEF PowerlessOf
  <2>3. CASE i = Len(up[c]) + 1 /\ j \in DOMAIN up[c]
    BY <1>4, <2>3
  <2>4. CASE i = Len(up[c]) + 1 /\ j = Len(up[c]) + 1
    BY <1>4, <1>8, <2>4
  <2>5. QED
    BY <1>5, <2>1, <2>2, <2>3, <2>4
<1>9. ASSUME NEW fd \in DOMAIN peer', peer'[fd] = c, ctxState'[fd] = "inited"
      PROVE  client'[c].inited = TRUE /\ \A i \in DOMAIN up'[c] : up'[c][i].op # "close"
  <2>1. client[c].inited = TRUE /\ \A i \in DOMAIN up[c] : up[c][i].op # "close"
    BY <1>1, <1>2, <1>9 DEF PowerlessOf
  <2>2. client'[c].inited = TRUE /\ cmd.op # "close"
    BY <1>2, <1>3, <2>1
  <2>3. QED
    BY <1>4, <1>5, <2>1, <2>2
<1>10. QED
  BY <1>2, <1>6, <1>7, <1>8, <1>9 DEF PowerlessOf

(* Its hi is read when nothing of what it sent before is left.             *)
LEMMA StrangerRead ==
    ASSUME IInv, NEW fd \in Fds, ReadCommand(fd), NEW c \in Strangers, c = peer[fd]
    PROVE  PowerlessOf(c)'
<1>1. /\ PowerlessOf(c) /\ fd \in DOMAIN peer
      /\ up[c] \in Seq(Commands) /\ up[c] # << >> /\ up'[c] = Tail(up[c])
      /\ Keeps(fd, Head(up[c])) \/ CloseConnection(fd)
      /\ client' = client
  BY CommandRead DEF IInv, Powerless, Streams
<1>2. /\ Len(up[c]) \in Nat /\ DOMAIN up[c] = 1 .. Len(up[c])
      /\ DOMAIN up'[c] = 1 .. Len(up[c]) - 1
      /\ \A i \in DOMAIN up'[c] : i + 1 \in DOMAIN up[c] /\ up'[c][i] = up[c][i + 1]
      /\ 1 \in DOMAIN up[c] /\ Head(up[c]) = up[c][1]
  BY <1>1, TailItems
<1>3. /\ \A i \in DOMAIN up'[c] : up'[c][i].op \in {"init", "badinit", "bogus", "close"}
      /\ \A i \in DOMAIN up'[c] : up'[c][i].op = "init" => client'[c].inited = TRUE
      /\ client'[c].await = None
  BY <1>1, <1>2 DEF PowerlessOf
<1>4. ASSUME NEW i \in DOMAIN up'[c], NEW j \in DOMAIN up'[c],
             up'[c][i].op = "init", up'[c][j].op = "close"
      PROVE  j < i
  <2>1. j + 1 < i + 1
    BY <1>1, <1>2, <1>4 DEF PowerlessOf
  <2>2. i \in Int /\ j \in Int
    BY <1>2
  <2>3. QED
    BY <2>1, <2>2
<1>5. ASSUME NEW f \in DOMAIN peer', peer'[f] = c, ctxState'[f] = "inited"
      PROVE  client'[c].inited = TRUE /\ \A i \in DOMAIN up'[c] : up'[c][i].op # "close"
  <2>1. f = fd /\ f \in DOMAIN peer /\ Keeps(fd, Head(up[c]))
    <3>1. CASE CloseConnection(fd)
      <4>1. f \in DOMAIN peer /\ f # fd /\ peer[f] = peer[fd]
        BY <1>1, <1>5, <3>1, CloseWatches
      <4>2. QED
        BY <1>1, <4>1 DEF IInv, Conns
    <3>2. CASE Keeps(fd, Head(up[c]))
      BY <1>1, <1>5, <3>2 DEF Keeps, IInv, Conns
    <3>3. QED
      BY <1>1, <3>1, <3>2
  <2>2. ctxState[fd] = "inited" \/ Head(up[c]).op = "init"
    BY <1>5, <2>1 DEF Keeps, IInv, States
  <2>3. CASE ctxState[fd] = "inited"
    BY <1>1, <1>2, <2>3 DEF PowerlessOf
  <2>4. CASE Head(up[c]).op = "init"
    <3>1. client'[c].inited = TRUE
      BY <1>1, <1>2, <2>4 DEF PowerlessOf
    <3>2. \A j \in DOMAIN up[c] : up[c][j].op = "close" => j < 1
      BY <1>1, <1>2, <2>4 DEF PowerlessOf
    <3>3. \A j \in DOMAIN up[c] : ~(j < 1)
      BY <1>2
    <3>4. QED
      BY <1>2, <3>1, <3>2, <3>3
  <2>5. QED
    BY <2>2, <2>3, <2>4
<1>6. QED
  BY <1>3, <1>4, <1>5 DEF PowerlessOf

LEMMA PowerlessStep == IInv /\ [Next]_vars => Powerless'
<1> SUFFICES ASSUME IInv, [Next]_vars, NEW c \in Strangers PROVE PowerlessOf(c)'
  BY DEF Powerless
<1>0. c \in Clients /\ PowerlessOf(c)
  BY ClientsAssumption DEF IInv, Powerless
<1>1. ASSUME NEW d \in Clients, NEW cmd \in Commands, Call(d, cmd) PROVE PowerlessOf(c)'
  <2>1. CASE d = c
    BY <1>1, <2>1, StrangerCalls
  <2>2. CASE d # c
    <3>1. up'[c] = up[c] /\ client'[c] = client[c] /\ UNCHANGED <<peer, ctxState>>
      BY <1>0, <1>1, <2>2 DEF Call, conns, IInv, Streams, Shape
    <3>2. QED
      BY <3>1, PowerlessKept
  <2>3. QED
    BY <2>1, <2>2
<1>2. ASSUME NEW d \in Clients, NEW fd \in Fds, Accept(d, fd) PROVE PowerlessOf(c)'
  <2>1. /\ peer' = Assigned(peer, fd, d) /\ fd \notin DOMAIN peer
        /\ ctxState' = Assigned(ctxState, fd, "connected")
        /\ UNCHANGED <<client, up>>
    BY <1>2 DEF Accept, Emplaced, net
  <2>2. DOMAIN peer' = DOMAIN peer \cup {fd} /\ DOMAIN ctxState' = DOMAIN peer \cup {fd}
    BY <2>1 DEF Assigned, IInv, States
  <2>3. \A f \in DOMAIN peer : peer'[f] = peer[f] /\ ctxState'[f] = ctxState[f]
    BY <2>1 DEF Assigned, IInv, States
  <2>4. ctxState'[fd] = "connected"
    BY <2>1 DEF Assigned
  <2>5. QED
    BY <2>1, <2>2, <2>3, <2>4, PowerlessKept
<1>3. ASSUME NEW fd \in Fds, ReadPart(fd) PROVE PowerlessOf(c)'
  BY <1>3, PowerlessKept DEF ReadPart, net
<1>4. ASSUME NEW fd \in Fds, ReadCommand(fd) PROVE PowerlessOf(c)'
  <2>1. CASE peer[fd] = c
    BY <1>4, <2>1, StrangerRead
  <2>2. CASE peer[fd] # c
    <3>1. up'[c] = up[c] /\ client' = client
      BY <1>0, <1>4, <2>2, CommandRead DEF IInv, Streams
    <3>2. CASE CloseConnection(fd)
      <4>0. fd \in DOMAIN peer
        BY <1>4, CommandRead
      <4>1. /\ DOMAIN peer' = DOMAIN peer \ {fd}
            /\ \A f \in DOMAIN peer' : peer'[f] = peer[f]
            /\ \A f \in DOMAIN peer' : ctxState'[f] = ctxState[f]
        BY <4>0, <3>2, CloseWatches
      <4>2. QED
        BY <3>1, <4>1, PowerlessKept
    <3>3. CASE Keeps(fd, Head(up[peer[fd]]))
      <4>1. peer' = peer /\ \A f \in DOMAIN peer : f # fd => ctxState'[f] = ctxState[f]
        BY <3>3 DEF Keeps, IInv, States
      <4>2. QED
        BY <2>2, <3>1, <4>1, PowerlessKept
    <3>4. QED
      BY <1>4, <3>2, <3>3, CommandRead
  <2>3. QED
    BY <2>1, <2>2
<1>5. ASSUME NEW fd \in Fds, ReadEnd(fd) PROVE PowerlessOf(c)'
  <2>1. fd \in DOMAIN peer /\ CloseConnection(fd) /\ client' = client
        /\ (up'[c] = up[c] \/ up'[c] = << >>)
    BY <1>0, <1>5 DEF ReadEnd, IInv, Streams
  <2>2. /\ DOMAIN peer' = DOMAIN peer \ {fd}
        /\ \A f \in DOMAIN peer' : peer'[f] = peer[f]
        /\ \A f \in DOMAIN peer' : ctxState'[f] = ctxState[f]
    BY <2>1, CloseWatches
  <2>3. QED
    BY <2>1, <2>2, PowerlessKept
<1>6. ASSUME UNCHANGED <<up, conns>>, client'[c].await = client[c].await,
             client'[c].inited = client[c].inited
      PROVE  PowerlessOf(c)'
  BY <1>6, PowerlessKept DEF conns
<1>7. ASSUME NEW d \in Clients, Connect(d) PROVE PowerlessOf(c)'
  BY <1>0, <1>6, <1>7 DEF Connect, net, IInv, Shape
<1>8. ASSUME NEW d \in Clients, GotAnswer(d) PROVE PowerlessOf(c)'
  <2>1. d # c
    BY <1>8, <1>0 DEF GotAnswer, PowerlessOf
  <2>2. QED
    BY <1>0, <1>6, <1>8, <2>1 DEF GotAnswer, net, IInv, Shape
<1>9. ASSUME NEW d \in Clients, Leave(d) PROVE PowerlessOf(c)'
  <2>1. client'[c].await = client[c].await /\ client'[c].inited = client[c].inited
    BY <1>0, <1>9 DEF Leave, IInv, Shape, PowerlessOf
  <2>2. QED
    BY <1>6, <1>9, <2>1 DEF Leave
<1>10. CASE UNCHANGED vars
  BY <1>6, <1>10 DEF vars, net
<1>11. QED
  BY <1>1, <1>2, <1>3, <1>4, <1>5, <1>7, <1>8, <1>9, <1>10 DEF Next, Serve

LEMMA Start == Init => IInv
<1> SUFFICES ASSUME Init PROVE IInv
  OBVIOUS
<1>1. DOMAIN peer = {} /\ DOMAIN ctxState = {} /\ accepted = {}
  BY EmptySeq DEF Init
<1>2. Conns /\ States /\ Watched
  BY <1>1 DEF Init, Conns, States, Watched, Listen
<1>3. Streams /\ FramingKept /\ Shape
  BY EmptySeq DEF Init, Streams, FramingKept, Shape
<1>4. ASSUME NEW c \in Strangers PROVE PowerlessOf(c)
  <2>1. c \in Clients /\ client[c].await = None /\ DOMAIN up[c] = {}
    BY ClientsAssumption, EmptySeq DEF Init
  <2>2. QED
    BY <1>1, <2>1 DEF PowerlessOf
<1>5. QED
  BY <1>2, <1>3, <1>4 DEF IInv, Powerless

(* The connections, their streams and what strangers may still do.         *)
THEOREM Invariance == Spec => []IInv
<1>1. IInv /\ [Next]_vars => IInv'
  BY StreamsStep, ConnsStep, FramingStep, ShapeStep, PowerlessStep DEF IInv
<1>2. QED
  BY Start, <1>1, PTL DEF Spec

(* select() watches the listening socket and every connection, and _max_sd *)
(* is the greatest of their descriptors, whoever came and went.            *)
THEOREM SelectWatchesAll == Spec => []SelectCovers
<1>1. IInv => SelectCovers
  <2> SUFFICES ASSUME IInv PROVE SelectCovers
    OBVIOUS
  <2>1. mainSet \subseteq Nat
    <3>1. Fds \subseteq Nat /\ 0 \in Nat
      BY FdsAssumption
    <3>2. mainSet \subseteq {0} \cup Fds
      BY DEF IInv, Watched, Conns, Listen
    <3>3. QED
      BY <3>1, <3>2
  <2>2. Max(mainSet) = maxSd
    BY <2>1, GreatestIsMax DEF IInv, Watched
  <2>3. QED
    BY <2>2 DEF SelectCovers, IInv, Watched
<1>2. QED
  BY <1>1, Invariance, PTL

(* A command read in part is completed by its own rest.                    *)
THEOREM CommandsStayWhole == Spec => []FramingKept
<1>1. IInv => FramingKept
  BY DEF IInv
<1>2. QED
  BY <1>1, Invariance, PTL

(* Commands that a stranger may have sent change no channel when they are  *)
(* read: a close has come before its hi, and is dropped.                   *)
LEMMA StrangerCommand ==
    ASSUME IInv, NEW fd \in Fds, ReadCommand(fd), NEW c \in Strangers, c = peer[fd]
    PROVE  UNCHANGED chans
<1>1. /\ PowerlessOf(c) /\ fd \in DOMAIN peer
      /\ up[c] \in Seq(Commands) /\ up[c] # << >>
      /\ ProcessCommands(fd, Head(up[c]))
  BY CommandRead DEF ReadCommand, IInv, Powerless, Streams
<1>2. 1 \in DOMAIN up[c] /\ Head(up[c]) = up[c][1]
  BY <1>1, TailItems
<1>3. Head(up[c]).op \in {"init", "badinit", "bogus", "close"}
  BY <1>1, <1>2 DEF PowerlessOf
<1>4. ~(ctxState[fd] = "inited" /\ Head(up[c]).op = "close")
  BY <1>1, <1>2 DEF PowerlessOf
<1>5. CASE InitCommand(fd, Head(up[c]))
  BY <1>5 DEF InitCommand, Reject
<1>6. CASE Reject(fd)
  BY <1>6 DEF Reject
<1>7. ASSUME ctxState[fd] = "inited"
      PROVE  /\ ~NewChan(fd, Head(up[c])) /\ ~BindChan(fd, Head(up[c]))
             /\ ~CloseChan(fd, Head(up[c]))
  BY <1>3, <1>4, <1>7 DEF NewChan, BindChan, CloseChan
<1>8. QED
  BY <1>1, <1>5, <1>6, <1>7 DEF ProcessCommands

LEMMA StrangerStep ==
    IInv /\ [Next]_vars => \A c \in Strangers : Len(up'[c]) < Len(up[c]) => UNCHANGED chans
<1> SUFFICES ASSUME IInv, [Next]_vars, NEW c \in Strangers, Len(up'[c]) < Len(up[c])
             PROVE  UNCHANGED chans
  OBVIOUS
<1>1. c \in Clients /\ up[c] \in Seq(Commands) /\ Len(up[c]) \in Nat
  BY ClientsAssumption, LenProperties DEF IInv, Streams
<1>2. ASSUME NEW d \in Clients, NEW cmd \in Commands, Call(d, cmd) PROVE UNCHANGED chans
  BY <1>2 DEF Call
<1>3. ASSUME NEW d \in Clients, Connect(d) \/ GotAnswer(d) \/ Leave(d) PROVE UNCHANGED chans
  BY <1>3 DEF Connect, GotAnswer, Leave
<1>4. ASSUME NEW d \in Clients, NEW fd \in Fds, Accept(d, fd) PROVE UNCHANGED chans
  BY <1>4 DEF Accept
<1>5. ASSUME NEW fd \in Fds, ReadPart(fd) \/ ReadEnd(fd) PROVE UNCHANGED chans
  BY <1>5 DEF ReadPart, ReadEnd
<1>6. ASSUME NEW fd \in Fds, ReadCommand(fd) PROVE UNCHANGED chans
  <2>1. CASE peer[fd] = c
    BY <1>6, <2>1, StrangerCommand
  <2>2. CASE peer[fd] # c
    <3>1. up'[c] = up[c]
      BY <1>1, <1>6, <2>2, CommandRead DEF IInv, Streams
    <3>2. QED
      BY <1>1, <3>1
  <2>3. QED
    BY <2>1, <2>2
<1>7. CASE UNCHANGED vars
  BY <1>7 DEF vars
<1>8. QED
  BY <1>2, <1>3, <1>4, <1>5, <1>6, <1>7 DEF Next, Serve

(* What is read from a stranger changes no channel.                        *)
THEOREM StrangersChangeNothing == Spec => StrangersShutOut
<1>1. IInv /\ [Next]_vars =>
          [\A c \in Strangers : Len(up'[c]) < Len(up[c]) => UNCHANGED chans]_vars
  BY StrangerStep
<1>2. QED
  BY <1>1, Invariance, PTL DEF Spec, StrangersShutOut

------------------------------------------------------------------------------
(***************************************************************************)
(* What a client of the control connection may rely on: one answer a       *)
(* command, bindings that hold once they are acknowledged, no binding to a *)
(* channel that is closed, and a server that no client harms by going away.*)
(*                                                                         *)
(* The argument: of a client's command and its answer one is on the way at *)
(* most, so that the answer a client reads is that to the command it waits *)
(* for, and a command is read before its connection can fail.  A channel   *)
(* belongs to one descriptor, hence to one client, and only its client's   *)
(* close removes what is bound to it.                                      *)
(***************************************************************************)

Honest == Clients \ Strangers
On(fd, c) == fd \in DOMAIN peer /\ peer[fd] = c

(* Channels belong to one descriptor each; what is kept as the hashes of a *)
(* channel is bound to it.                                                 *)
Channels ==
    /\ shmIndex \in Nat
    /\ ctxSock \subseteq Fds \X (0 .. shmIndex - 1)
    /\ \A f, g \in Fds : \A id \in 0 .. shmIndex - 1 :
          <<f, id>> \in ctxSock /\ <<g, id>> \in ctxSock => f = g
    /\ DOMAIN shmHash \subseteq 0 .. shmIndex - 1
    /\ \A id \in DOMAIN shmHash : \A h \in shmHash[id] : h \in DOMAIN ctxHash /\ ctxHash[h] = id

Answers == DOMAIN down = Clients /\ DOMAIN rst = Clients

Has(c, id) == \E fd \in Fds : On(fd, c) /\ <<fd, id>> \in ctxSock
Bound(id, h) == h \in DOMAIN ctxHash /\ ctxHash[h] = id
Acked(c) == down[c] # << >> /\ down[c][1].ok

(* The command of a client that the server has not read.                   *)
Sends(c) ==
    \/ up[c] = << >>
    \/ /\ up[c] = <<up[c][1]>>
       /\ up[c][1].op \in {"init", "newR", "newW", "bind", "close"}
       /\ ~rst[c]
       /\ c \notin accepted => up[c][1].op = "init"
       /\ \A fd \in Fds : On(fd, c) /\ up[c][1].op \in {"bind", "close"} => <<fd, up[c][1].id>> \in ctxSock

OneWay(c) ==
    \/ client[c].await = None /\ up[c] = << >> /\ down[c] = << >>
    \/ client[c].await # None /\ up[c] = <<client[c].await>> /\ down[c] = << >>
    \/ client[c].await # None /\ up[c] = << >> /\ down[c] = <<down[c][1]>>

Hello(c) ==
    /\ client[c].inited \in BOOLEAN
    /\ client[c].inited \/ down[c] # << >> => \E fd \in Fds : On(fd, c) /\ ctxState[fd] = "inited"
    /\ ~client[c].inited => client[c].await \in {None, Cmd("init", 0, "none")} /\ client[c].ids = {}
    /\ client[c].inited => client[c].await.op # "init"

Knows(c) ==
    LET cmd == client[c].await
    IN  /\ \A id \in client[c].ids : Has(c, id)
        /\ \A b \in client[c].binds : b[1] \in client[c].ids /\ Bound(b[1], b[2])
        /\ cmd.op \in {"newR", "newW"} /\ Acked(c) => Has(c, down[c][1].id)
        /\ cmd.op = "bind" => cmd.id \in client[c].ids
        /\ cmd.op = "bind" /\ Acked(c) => Bound(cmd.id, cmd.hash)
        /\ cmd.op = "close" => cmd.id \notin client[c].ids

Fresh(c) == /\ client[c].await = None /\ client[c].inited = FALSE
            /\ client[c].ids = {} /\ client[c].binds = {}
            /\ up[c] = << >> /\ down[c] = << >> /\ ~rst[c]
            /\ c \notin accepted

Served(c) == /\ Sends(c)
             /\ client[c].st = "open" => ~rst[c] /\ OneWay(c) /\ Hello(c) /\ Knows(c)
             /\ client[c].st = "new" => Fresh(c)

(* Where clients bind a channel once, the channel of a hash has that hash  *)
(* and no other.                                                           *)
Kept == \A h \in DOMAIN ctxHash : /\ \E fd \in Fds : <<fd, ctxHash[h]>> \in ctxSock
                                  /\ ctxHash[h] \in DOMAIN shmHash /\ h \in shmHash[ctxHash[h]]
BindsOnce(c) ==
    LET cmd == client[c].await
    IN  /\ up[c] # << >> /\ up[c][1].op = "bind" /\ Has(c, up[c][1].id) => up[c][1].id \notin DOMAIN shmHash
        /\ client[c].st = "open" =>
              /\ \A id \in client[c].ids : id \in DOMAIN shmHash =>
                    \/ \E b \in client[c].binds : b[1] = id
                    \/ cmd.op = "bind" /\ cmd.id = id /\ Acked(c)
              /\ cmd.op \in {"newR", "newW"} /\ Acked(c) => down[c][1].id \notin DOMAIN shmHash

BInv == /\ Channels /\ Answers
        /\ \A c \in Honest : Served(c)
        /\ OneBind => Kept /\ \A c \in Honest : BindsOnce(c)
        /\ Strangers = {} => CleanServer

------------------------------------------------------------------------------
LEMMA OneElement ==
    ASSUME NEW a
    PROVE  /\ <<a>> # << >> /\ <<a>>[1] = a
           /\ Head(<<a>>) = a /\ Tail(<<a>>) = << >>
           /\ << >> \o <<a>> = <<a>> /\ Append(<< >>, a) = <<a>>
<1>1. <<a>> \in Seq({a}) /\ << >> \in Seq({a})
  OBVIOUS
<1>2. Tail(<<a>>) \in Seq({a}) /\ Len(Tail(<<a>>)) = 0
  BY <1>1, HeadTailProperties
<1>3. Tail(<<a>>) = << >>
  BY <1>2, EmptySeq
<1>4. << >> \o <<a>> = <<a>>
  BY <1>1, ConcatEmptySeq
<1>5. Append(<< >>, a) = <<a>>
  BY <1>1
<1>6. QED
  BY <1>3, <1>4, <1>5

(* What others do leaves what a client relies on as it is.                 *)
Undisturbed(c) ==
    /\ client'[c] = client[c] /\ up'[c] = up[c] /\ down'[c] = down[c] /\ rst'[c] = rst[c]
    /\ c \in accepted' <=> c \in accepted
    /\ \A fd \in Fds : On(fd, c)' <=> On(fd, c)
    /\ \A fd \in Fds : On(fd, c) => /\ ctxState'[fd] = ctxState[fd]
                                    /\ \A id : <<fd, id>> \in ctxSock' <=> <<fd, id>> \in ctxSock
    /\ \A id, h : Has(c, id) /\ Bound(id, h) => Bound(id, h)'
    /\ OneBind => \A id : Has(c, id) => (id \in DOMAIN shmHash' <=> id \in DOMAIN shmHash)

LEMMA HasKept == ASSUME NEW c, NEW id, Undisturbed(c) PROVE Has(c, id)' <=> Has(c, id)
  BY DEF Undisturbed, Has

LEMMA UndisturbedKeeps ==
    ASSUME NEW c, Undisturbed(c), Served(c)
    PROVE  Served(c)' /\ (OneBind /\ BindsOnce(c) => BindsOnce(c)')
<1>1. Sends(c)'
  BY DEF Undisturbed, Served, Sends
<1>2. ASSUME client[c].st = "open" PROVE ~rst'[c] /\ OneWay(c)'
  BY <1>2 DEF Undisturbed, Served, OneWay
<1>3. ASSUME client[c].st = "open" PROVE Hello(c)'
  BY <1>3 DEF Undisturbed, Served, Hello
<1>4. ASSUME client[c].st = "open" PROVE Knows(c)'
  <2>1. Knows(c)
    BY <1>4 DEF Served
  <2>2. Acked(c)' <=> Acked(c)
    BY DEF Undisturbed, Acked
  <2>3. client'[c] = client[c] /\ down'[c] = down[c]
    BY DEF Undisturbed
  <2>4. \A id : Has(c, id)' <=> Has(c, id)
    BY HasKept
  <2>5. \A id, h : Has(c, id) /\ Bound(id, h) => Bound(id, h)'
    BY DEF Undisturbed
  <2>6. QED
    BY <2>1, <2>2, <2>3, <2>4, <2>5 DEF Knows
<1>5. client[c].st = "new" => Fresh(c)'
  BY DEF Undisturbed, Served, Fresh
<1>6. ASSUME OneBind, BindsOnce(c) PROVE BindsOnce(c)'
  <2>1. Acked(c)' <=> Acked(c)
    BY DEF Undisturbed, Acked
  <2>2. client'[c] = client[c] /\ down'[c] = down[c] /\ up'[c] = up[c]
    BY DEF Undisturbed
  <2>3. \A id : Has(c, id)' <=> Has(c, id)
    BY HasKept
  <2>4. \A id : Has(c, id) => (id \in DOMAIN shmHash' <=> id \in DOMAIN shmHash)
    BY <1>6 DEF Undisturbed
  <2>5. client[c].st = "open" => Knows(c)
    BY DEF Served
  <2>6. ASSUME up[c] # << >>, up[c][1].op = "bind", NEW id, id = up[c][1].id, Has(c, id)
        PROVE  id \notin DOMAIN shmHash'
    <3>1. id \notin DOMAIN shmHash
      BY <1>6, <2>6 DEF BindsOnce
    <3>2. QED
      BY <2>4, <2>6, <3>1
  <2>60. (up[c] # << >> /\ up[c][1].op = "bind" /\ Has(c, up[c][1].id) => up[c][1].id \notin DOMAIN shmHash)'
    <3> SUFFICES ASSUME up'[c] # << >>, up'[c][1].op = "bind", Has(c, up[c][1].id)'
                 PROVE  up'[c][1].id \notin DOMAIN shmHash'
      OBVIOUS
    <3>1. PICK id : id = up'[c][1].id
      OBVIOUS
    <3>2. Has(c, id)'
      BY <3>1 DEF Has
    <3>3. QED
      BY <2>2, <2>3, <2>6, <3>1, <3>2
  <2>7. ASSUME client[c].st = "open", NEW id \in client[c].ids, id \in DOMAIN shmHash'
        PROVE  \/ \E b \in client[c].binds : b[1] = id
               \/ client[c].await.op = "bind" /\ client[c].await.id = id /\ Acked(c)
    BY <1>6, <2>4, <2>5, <2>7 DEF BindsOnce, Knows
  <2>8. ASSUME client[c].st = "open", client[c].await.op \in {"newR", "newW"}, Acked(c)
        PROVE  down[c][1].id \notin DOMAIN shmHash'
    BY <1>6, <2>4, <2>5, <2>8 DEF BindsOnce, Knows
  <2>9. client'[c].st = "open" =>
           /\ \A id \in client'[c].ids : id \in DOMAIN shmHash' =>
                 \/ \E b \in client'[c].binds : b[1] = id
                 \/ client'[c].await.op = "bind" /\ client'[c].await.id = id /\ Acked(c)'
           /\ client'[c].await.op \in {"newR", "newW"} /\ Acked(c)' => down'[c][1].id \notin DOMAIN shmHash'
    BY <2>1, <2>2, <2>7, <2>8
  <2>10. QED
    BY <2>60, <2>9 DEF BindsOnce
<1>7. client'[c] = client[c]
  BY DEF Undisturbed
<1>8. QED
  BY <1>1, <1>2, <1>3, <1>4, <1>5, <1>6, <1>7 DEF Served

LEMMA Assemble ==
    ASSUME BInv, Channels', Answers', OneBind => Kept', Strangers = {} => CleanServer',
           NEW c, \A d \in Honest \ {c} : Undisturbed(d),
           c \in Honest => Served(c)' /\ (OneBind => BindsOnce(c)')
    PROVE  BInv'
<1>1. ASSUME NEW d \in Honest PROVE Served(d)' /\ (OneBind => BindsOnce(d)')
  <2>1. CASE d = c
    BY <2>1
  <2>2. CASE d # c
    BY <2>2, UndisturbedKeeps DEF BInv
  <2>3. QED
    BY <2>1, <2>2
<1>2. QED
  BY <1>1 DEF BInv

LEMMA ChansKept ==
    ASSUME BInv, UNCHANGED chans
    PROVE  Channels' /\ (OneBind => Kept')
<1>1. Channels'
  BY DEF BInv, Channels, chans
<1>2. ASSUME OneBind PROVE Kept'
  BY <1>2 DEF BInv, Kept, chans
<1>3. QED
  BY <1>1, <1>2

(* What a client does by itself.                                           *)
LEMMA ClientAlone ==
    ASSUME BInv, NEW c \in Clients, UNCHANGED <<conns, chans, gExit, touched>>, Answers',
           \A d \in Clients \ {c} : client'[d] = client[d] /\ up'[d] = up[d] /\ down'[d] = down[d] /\ rst'[d] = rst[d],
           c \in Honest => Served(c)' /\ (OneBind => BindsOnce(c)')
    PROVE  BInv'
<1>1. ASSUME NEW d \in Honest \ {c} PROVE Undisturbed(d)
  BY DEF Undisturbed, Honest, conns, chans, On, Has, Bound
<1>2. Strangers = {} => CleanServer'
  BY DEF BInv, CleanServer
<1>3. QED
  BY <1>1, <1>2, ChansKept, Assemble

(* The connection of a client is one.                                      *)
LEMMA OneConnection ==
    ASSUME IInv, NEW c, NEW f \in Fds, NEW g \in Fds, On(f, c), On(g, c)
    PROVE  f = g /\ c \in accepted
  BY DEF IInv, Conns, On

LEMMA ConnectStep == ASSUME IInv, BInv, NEW c \in Clients, Connect(c) PROVE BInv'
<1>1. /\ UNCHANGED <<conns, chans, gExit, touched, up, down, rst>>
      /\ \A d \in Clients \ {c} : client'[d] = client[d]
      /\ client[c].st = "new" /\ client'[c].st = "open"
      /\ client'[c].inited = client[c].inited /\ client'[c].await = client[c].await
      /\ client'[c].ids = client[c].ids /\ client'[c].binds = client[c].binds
  BY DEF Connect, net, IInv, Shape
<1>2. ASSUME c \in Honest PROVE Served(c)' /\ BindsOnce(c)'
  <2>1. Fresh(c)
    BY <1>1, <1>2 DEF BInv, Served
  <2>2. Sends(c)' /\ OneWay(c)' /\ ~rst'[c]
    BY <1>1, <2>1 DEF Fresh, Sends, OneWay
  <2>3. Hello(c)'
    BY <1>1, <2>1 DEF Fresh, Hello
  <2>4. Knows(c)'
    BY <1>1, <2>1 DEF Fresh, Knows, None, Cmd
  <2>5. BindsOnce(c)'
    BY <1>1, <2>1 DEF Fresh, BindsOnce, None, Cmd
  <2>6. QED
    BY <1>1, <2>2, <2>3, <2>4, <2>5 DEF Served
<1>3. Answers'
  BY <1>1 DEF BInv, Answers
<1>4. QED
  BY <1>1, <1>2, <1>3, ClientAlone

LEMMA CallStep == ASSUME IInv, BInv, NEW c \in Clients, NEW cmd \in Commands, Call(c, cmd) PROVE BInv'
<1>1. /\ UNCHANGED <<conns, chans, gExit, touched, down, rst>>
      /\ \A d \in Clients \ {c} : client'[d] = client[d] /\ up'[d] = up[d]
      /\ up'[c] = Append(up[c], cmd)
      /\ client[c].st = "open" /\ client'[c].st = "open" /\ client[c].await = None /\ Allowed(c, cmd)
  BY DEF Call, IInv, Shape, Streams
<1>2. ASSUME c \in Honest PROVE Served(c)' /\ (OneBind => BindsOnce(c)')
  <2>1. /\ client'[c].await = cmd /\ client'[c].inited = (client[c].inited \/ FALSE)
        /\ client'[c].ids = (IF cmd.op = "close" THEN client[c].ids \ {cmd.id} ELSE client[c].ids)
        /\ client'[c].binds = (IF cmd.op = "close" THEN {b \in client[c].binds : b[1] # cmd.id} ELSE client[c].binds)
    BY <1>2 DEF Call, IInv, Shape, Honest
  <2>2. Sends(c) /\ ~rst[c] /\ OneWay(c) /\ Hello(c) /\ Knows(c)
    BY <1>1, <1>2 DEF BInv, Served
  <2>3. up[c] = << >> /\ down[c] = << >> /\ up'[c] = <<cmd>> /\ up'[c][1] = cmd
    <3>1. up[c] = << >> /\ down[c] = << >>
      BY <1>1, <2>2 DEF OneWay
    <3>2. up'[c] = Append(<< >>, cmd)
      BY <1>1, <3>1
    <3>3. up'[c] = <<cmd>>
      BY <3>2, OneElement
    <3>4. QED
      BY <3>1, <3>3
  <2>4. client'[c].inited = client[c].inited
    BY <2>1, <2>2 DEF Hello
  <2>5. /\ cmd.op \in {"init", "newR", "newW", "bind", "close"}
        /\ ~client[c].inited => cmd = Cmd("init", 0, "none")
        /\ client[c].inited => cmd.op # "init"
        /\ cmd.op \in {"bind", "close"} => cmd.id \in client[c].ids
        /\ OneBind /\ cmd.op = "bind" => \A b \in client[c].binds : b[1] # cmd.id
    BY <1>1, <1>2, <2>2 DEF Allowed, Honest, Cmd, Hello
  <2>6. cmd # None
    BY <2>5 DEF None, Cmd
  <2>7. Sends(c)'
    <3>1. c \notin accepted => cmd.op = "init"
      <4>1. client[c].inited => c \in accepted
        BY <2>2, OneConnection DEF Hello
      <4>2. QED
        BY <2>5, <4>1 DEF Cmd
    <3>2. ASSUME NEW fd \in Fds, On(fd, c), cmd.op \in {"bind", "close"} PROVE <<fd, cmd.id>> \in ctxSock
      <4>1. PICK f \in Fds : On(f, c) /\ <<f, cmd.id>> \in ctxSock
        BY <2>2, <2>5, <3>2 DEF Knows, Has
      <4>2. QED
        BY <3>2, <4>1, OneConnection
    <3>3. UNCHANGED <<rst, accepted, peer, ctxSock>>
      BY <1>1 DEF conns, chans
    <3>4. QED
      BY <2>2, <2>3, <2>5, <3>1, <3>2, <3>3 DEF Sends, On
  <2>8. OneWay(c)'
    BY <1>1, <2>1, <2>3, <2>6 DEF OneWay
  <2>9. Hello(c)'
    <3>1. UNCHANGED <<down, peer, ctxState>>
      BY <1>1 DEF conns
    <3>2. QED
      BY <2>1, <2>2, <2>3, <2>4, <2>5, <3>1 DEF Hello, On
  <2>10. Knows(c)'
    <3>1. UNCHANGED <<down, peer, ctxSock, ctxHash>>
      BY <1>1 DEF conns, chans
    <3>2. \A id : Has(c, id)' <=> Has(c, id)
      BY <3>1 DEF Has, On
    <3>3. \A id, h : Bound(id, h)' <=> Bound(id, h)
      BY <3>1 DEF Bound
    <3>4. ~Acked(c)'
      BY <2>3, <3>1 DEF Acked
    <3>5. QED
      BY <2>1, <2>2, <2>5, <3>2, <3>3, <3>4 DEF Knows
  <2>11. ASSUME OneBind PROVE BindsOnce(c)'
    <3>1. UNCHANGED <<down, shmHash>>
      BY <1>1 DEF chans
    <3>2. ~Acked(c)'
      BY <2>3, <3>1 DEF Acked
    <3>3. \A id \in client[c].ids : id \in DOMAIN shmHash => \E b \in client[c].binds : b[1] = id
      BY <1>1, <1>2, <2>11 DEF BInv, BindsOnce, None, Cmd
    <3>4. cmd.op = "bind" => cmd.id \notin DOMAIN shmHash
      BY <2>5, <2>11, <3>3
    <3>5. \A id \in client'[c].ids : id \in DOMAIN shmHash => \E b \in client'[c].binds : b[1] = id
      BY <2>1, <3>3
    <3>6. QED
      BY <2>1, <2>3, <3>1, <3>2, <3>4, <3>5 DEF BindsOnce
  <2>12. QED
    BY <1>1, <2>2, <2>7, <2>8, <2>9, <2>10, <2>11 DEF Served
<1>3. Answers'
  BY <1>1 DEF BInv, Answers
<1>4. QED
  BY <1>1, <1>2, <1>3, ClientAlone

LEMMA GotAnswerStep == ASSUME IInv, BInv, ChecksReplies, NEW c \in Clients, GotAnswer(c) PROVE BInv'
<1>1. /\ UNCHANGED <<conns, chans, gExit, touched, up, rst>>
      /\ \A d \in Clients \ {c} : client'[d] = client[d] /\ down'[d] = down[d]
      /\ client[c].st = "open" /\ client'[c].st = "open" /\ client[c].await # None /\ down[c] # << >>
  BY DEF GotAnswer, IInv, Shape, BInv, Answers
<1>2. ASSUME c \in Honest PROVE Served(c)' /\ (OneBind => BindsOnce(c)')
  <2> DEFINE a == down[c][1]
             cmd == client[c].await
  <2>1. Sends(c) /\ ~rst[c] /\ OneWay(c) /\ Hello(c) /\ Knows(c)
    BY <1>1, <1>2 DEF BInv, Served
  <2>2. up[c] = << >> /\ down[c] = <<a>>
    BY <1>1, <2>1 DEF OneWay
  <2>3. Head(down[c]) = a /\ Tail(down[c]) = << >>
    BY <2>2, OneElement
  <2>4. /\ down'[c] = << >> /\ client'[c].await = None
        /\ client'[c].inited = (client[c].inited \/ cmd.op = "init")
        /\ client'[c].ids = (IF cmd.op \in {"newR", "newW"} /\ (a.ok \/ ~ChecksReplies)
                             THEN client[c].ids \cup {a.id} ELSE client[c].ids)
        /\ client'[c].binds = (IF cmd.op = "bind" /\ a.ok
                               THEN client[c].binds \cup {<<cmd.id, cmd.hash>>} ELSE client[c].binds)
    BY <2>3 DEF GotAnswer, IInv, Shape, BInv, Answers
  <2>5. Acked(c) <=> a.ok
    BY <1>1 DEF Acked
  <2>6. ~Acked(c)'
    BY <2>4 DEF Acked
  <2>7. Sends(c)' /\ OneWay(c)' /\ ~rst'[c]
    BY <1>1, <2>1, <2>2, <2>4 DEF Sends, OneWay
  <2>8. Hello(c)'
    <3>1. client'[c].inited = TRUE
      <4>1. CASE client[c].inited
        BY <2>4, <4>1
      <4>2. CASE ~client[c].inited
        <5>1. cmd = Cmd("init", 0, "none")
          BY <1>1, <2>1, <4>2 DEF Hello
        <5>2. cmd.op = "init"
          BY <5>1 DEF Cmd
        <5>3. QED
          BY <2>4, <5>2
      <4>3. QED
        BY <4>1, <4>2
    <3>2. UNCHANGED <<peer, ctxState>>
      BY <1>1 DEF conns
    <3>3. \E fd \in Fds : On(fd, c)' /\ ctxState'[fd] = "inited"
      BY <1>1, <2>1, <3>2 DEF Hello, On
    <3>4. QED
      BY <2>4, <3>1, <3>3 DEF Hello, None, Cmd
  <2>9. Knows(c)'
    <3>1. UNCHANGED <<peer, ctxSock, ctxHash>>
      BY <1>1 DEF conns, chans
    <3>2. \A id : Has(c, id)' <=> Has(c, id)
      BY <3>1 DEF Has, On
    <3>3. \A id, h : Bound(id, h)' <=> Bound(id, h)
      BY <3>1 DEF Bound
    <3>4. \A id \in client'[c].ids : Has(c, id)
      BY <2>1, <2>4, <2>5 DEF Knows
    <3>5. \A b \in client'[c].binds : b[1] \in client'[c].ids /\ Bound(b[1], b[2])
      BY <2>1, <2>4, <2>5 DEF Knows
    <3>6. QED
      BY <2>4, <2>6, <3>2, <3>3, <3>4, <3>5 DEF Knows, None, Cmd
  <2>10. ASSUME OneBind PROVE BindsOnce(c)'
    <3>1. BindsOnce(c) /\ UNCHANGED <<shmHash, up>>
      BY <1>1, <1>2, <2>10 DEF BInv, chans
    <3>2. \A id \in client'[c].ids : id \in DOMAIN shmHash => \E b \in client'[c].binds : b[1] = id
      <4> SUFFICES ASSUME NEW id \in client'[c].ids, id \in DOMAIN shmHash
                   PROVE  \E b \in client'[c].binds : b[1] = id
        OBVIOUS
      <4>1. id \in client[c].ids
        BY <1>1, <2>4, <2>5, <3>1 DEF BindsOnce
      <4>2. CASE \E b \in client[c].binds : b[1] = id
        BY <2>4, <4>2
      <4>3. CASE cmd.op = "bind" /\ cmd.id = id /\ Acked(c)
        <5>1. <<cmd.id, cmd.hash>> \in client'[c].binds /\ <<cmd.id, cmd.hash>>[1] = id
          BY <2>4, <2>5, <4>3
        <5>2. QED
          BY <5>1
      <4>4. QED
        BY <1>1, <3>1, <4>1, <4>2, <4>3 DEF BindsOnce
    <3>3. QED
      BY <2>2, <2>4, <2>6, <3>1, <3>2 DEF BindsOnce
  <2>11. QED
    BY <1>1, <2>7, <2>8, <2>9, <2>10 DEF Served
<1>3. Answers'
  BY <1>1 DEF GotAnswer, BInv, Answers
<1>4. QED
  BY <1>1, <1>2, <1>3, ClientAlone

LEMMA LeaveStep == ASSUME IInv, BInv, NEW c \in Clients, Leave(c) PROVE BInv'
<1>1. /\ UNCHANGED <<conns, chans, gExit, touched, up>>
      /\ \A d \in Clients \ {c} : client'[d] = client[d] /\ down'[d] = down[d] /\ rst'[d] = rst[d]
      /\ client[c].st = "open" /\ client'[c].st = "closed" /\ rst'[c] = (down[c] # << >>)
  BY DEF Leave, IInv, Shape, BInv, Answers
<1>2. ASSUME c \in Honest PROVE Served(c)' /\ (OneBind => BindsOnce(c)')
  <2>1. Sends(c) /\ OneWay(c)
    BY <1>1, <1>2 DEF BInv, Served
  <2>2. up[c] # << >> => ~rst'[c]
    BY <1>1, <2>1 DEF OneWay
  <2>3. UNCHANGED <<peer, accepted, ctxSock, shmHash>>
    BY <1>1 DEF conns, chans
  <2>4. Sends(c)'
    BY <1>1, <2>1, <2>2, <2>3 DEF Sends, On
  <2>5. ASSUME OneBind PROVE BindsOnce(c)'
    <3>1. BindsOnce(c)
      BY <1>2, <2>5 DEF BInv
    <3>2. \A id : Has(c, id)' <=> Has(c, id)
      BY <2>3 DEF Has, On
    <3>3. (up[c] # << >> /\ up[c][1].op = "bind" /\ Has(c, up[c][1].id) => up[c][1].id \notin DOMAIN shmHash)'
      BY <1>1, <2>3, <3>1 DEF BindsOnce, Has, On
    <3>4. QED
      BY <1>1, <3>3 DEF BindsOnce
  <2>6. QED
    BY <1>1, <2>4, <2>5 DEF Served
<1>3. Answers'
  BY <1>1 DEF Leave, BInv, Answers
<1>4. QED
  BY <1>1, <1>2, <1>3, ClientAlone

------------------------------------------------------------------------------
(* What the server's loop leaves of the other connections.                 *)
SameConnection(d) == /\ d \in accepted' <=> d \in accepted
                     /\ \A f \in Fds : On(f, d)' <=> On(f, d)
                     /\ \A f \in Fds : On(f, d) => ctxState'[f] = ctxState[f]

LEMMA OtherConnections ==
    ASSUME IInv, NEW fd \in Fds, fd \in DOMAIN peer, NEW cmd, Keeps(fd, cmd) \/ CloseConnection(fd),
           NEW d, d # peer[fd]
    PROVE  SameConnection(d)
<1>1. CASE Keeps(fd, cmd)
  <2>1. peer' = peer /\ accepted' = accepted /\ \A f \in DOMAIN peer : f # fd => ctxState'[f] = ctxState[f]
    BY <1>1 DEF Keeps, IInv, States
  <2>2. QED
    BY <2>1 DEF SameConnection, On
<1>2. CASE CloseConnection(fd)
  <2>1. /\ DOMAIN peer' = DOMAIN peer \ {fd} /\ accepted' = accepted
        /\ \A f \in DOMAIN peer' : peer'[f] = peer[f]
    BY <1>2, CloseWatches DEF CloseConnection
  <2>2. \A f \in DOMAIN peer' : ctxState'[f] = ctxState[f]
    <3>1. ctxState' = Restrict(ctxState, DOMAIN ctxState \ {fd}) /\ DOMAIN ctxState = DOMAIN peer
      BY <1>2 DEF CloseConnection, EraseState, IInv, States
    <3>2. \A f \in DOMAIN ctxState \ {fd} : ctxState'[f] = ctxState[f]
      BY <3>1 DEF Restrict
    <3>3. QED
      BY <2>1, <3>1, <3>2
  <2>3. QED
    BY <2>1, <2>2 DEF SameConnection, On
<1>3. QED
  BY <1>1, <1>2

LEMMA SameChannels ==
    ASSUME NEW d, SameConnection(d), UNCHANGED chans,
           client'[d] = client[d], up'[d] = up[d], down'[d] = down[d], rst'[d] = rst[d]
    PROVE  Undisturbed(d)
  BY DEF Undisturbed, SameConnection, chans, Bound

LEMMA AcceptStep == ASSUME IInv, BInv, NEW c \in Clients, NEW fd \in Fds, Accept(c, fd) PROVE BInv'
<1>1. /\ UNCHANGED <<client, up, down, rst, chans, gExit, touched>>
      /\ client[c].st # "new" /\ c \notin accepted /\ fd \notin DOMAIN peer
      /\ accepted' = accepted \cup {c}
      /\ peer' = Assigned(peer, fd, c) /\ ctxState' = Assigned(ctxState, fd, "connected")
  BY DEF Accept, net, Emplaced
<1>2. /\ DOMAIN peer' = DOMAIN peer \cup {fd} /\ peer'[fd] = c
      /\ \A f \in DOMAIN peer : peer'[f] = peer[f] /\ ctxState'[f] = ctxState[f]
  <2>1. DOMAIN ctxState = DOMAIN peer
    BY DEF IInv, States
  <2>2. QED
    BY <1>1, <2>1 DEF Assigned
<1>3. ASSUME NEW d \in Honest \ {c} PROVE Undisturbed(d)
  <2>1. SameConnection(d)
    BY <1>1, <1>2 DEF SameConnection, On
  <2>2. QED
    BY <1>1, <2>1, SameChannels
<1>4. ASSUME c \in Honest PROVE Served(c)' /\ BindsOnce(c)'
  <2>1. Served(c) /\ ~Fresh(c)'
    BY <1>1, <1>4 DEF BInv, Fresh
  <2>2. up[c] # << >> => up[c][1].op = "init"
    BY <1>1, <2>1 DEF Served, Sends
  <2>3. Sends(c)'
    BY <1>1, <2>1, <2>2 DEF Served, Sends
  <2>4. ASSUME client[c].st = "open"
        PROVE  /\ ~rst[c] /\ OneWay(c) /\ down[c] = << >> /\ client[c].inited = FALSE
               /\ client[c].await \in {None, Cmd("init", 0, "none")}
               /\ client[c].ids = {} /\ client[c].binds = {}
    <3>1. \A f \in Fds : ~On(f, c)
      BY <1>1 DEF On, IInv, Conns
    <3>2. QED
      BY <2>1, <2>4, <3>1 DEF Served, Hello, Knows
  <2>5. ASSUME client[c].st = "open"
        PROVE  ~rst'[c] /\ OneWay(c)' /\ Hello(c)' /\ Knows(c)'
    <3>1. ~rst'[c] /\ OneWay(c)'
      BY <1>1, <2>4, <2>5 DEF OneWay
    <3>2. Hello(c)'
      BY <1>1, <2>4, <2>5 DEF Hello
    <3>3. client'[c].await.op \in {"none", "init"}
      BY <1>1, <2>4, <2>5 DEF None, Cmd
    <3>4. Knows(c)'
      BY <1>1, <2>4, <2>5, <3>3 DEF Knows
    <3>5. QED
      BY <3>1, <3>2, <3>4
  <2>6. BindsOnce(c)'
    <3>1. client'[c].st = "open" => client'[c].await.op \in {"none", "init"}
      BY <1>1, <2>4 DEF None, Cmd
    <3>2. QED
      BY <1>1, <2>2, <2>4, <3>1 DEF BindsOnce
  <2>7. QED
    BY <1>1, <2>3, <2>5, <2>6 DEF Served
<1>5. Answers' /\ (Strangers = {} => CleanServer')
  BY <1>1 DEF BInv, Answers, CleanServer
<1>6. QED
  BY <1>1, <1>3, <1>4, <1>5, ChansKept, Assemble

LEMMA ReadPartStep == ASSUME IInv, BInv, NEW fd \in Fds, ReadPart(fd) PROVE BInv'
<1>1. UNCHANGED <<client, up, down, rst, accepted, peer, ctxState, chans, gExit, touched>>
  BY DEF ReadPart, net
<1>2. \A d \in Honest : Undisturbed(d)
  BY <1>1, SameChannels DEF SameConnection, On
<1>3. Answers' /\ (Strangers = {} => CleanServer')
  BY <1>1 DEF BInv, Answers, CleanServer
<1>4. \A d \in Honest : Served(d)' /\ (OneBind => BindsOnce(d)')
  BY <1>2, UndisturbedKeeps DEF BInv
<1>5. QED
  BY <1>1, <1>3, <1>4, ChansKept DEF BInv

LEMMA ReadEndStep == ASSUME IInv, BInv, NEW fd \in Fds, ReadEnd(fd) PROVE BInv'
<1>1. PICK c \in Clients : c = peer[fd]
  BY DEF ReadEnd, IInv, Conns
<1>2. /\ fd \in DOMAIN peer /\ CloseConnection(fd) /\ client[c].st = "closed"
      /\ UNCHANGED <<client, down, rst, chans, gExit, touched>>
      /\ up'[c] = << >> /\ \A d \in Clients \ {c} : up'[d] = up[d]
  BY <1>1 DEF ReadEnd, IInv, Streams
<1>3. ASSUME NEW d \in Honest \ {c} PROVE Undisturbed(d)
  <2>1. SameConnection(d)
    BY <1>1, <1>2, OtherConnections
  <2>2. QED
    BY <1>2, <2>1, SameChannels DEF Honest
<1>4. Served(c)' /\ BindsOnce(c)'
  BY <1>2 DEF Served, Sends, BindsOnce
<1>5. Answers' /\ (Strangers = {} => CleanServer')
  BY <1>2 DEF BInv, Answers, CleanServer
<1>6. QED
  BY <1>2, <1>3, <1>4, <1>5, ChansKept, Assemble

------------------------------------------------------------------------------
(* A command, read whole.  It changes nothing of the other streams.        *)
LEMMA ProcessedNet ==
    ASSUME BInv, NEW fd, NEW cmd, ProcessCommands(fd, cmd)
    PROVE  Answers' /\ \A d \in Clients : d # peer[fd] => down'[d] = down[d] /\ rst'[d] = rst[d]
<1> DEFINE Others == Answers' /\ \A d \in Clients : d # peer[fd] => down'[d] = down[d] /\ rst'[d] = rst[d]
<1>1. ASSUME NEW s, NEW answers, WriteData(fd, s, answers) PROVE Others
  BY <1>1 DEF WriteData, BInv, Answers
<1>2. ASSUME UNCHANGED <<down, rst>> PROVE Others
  BY <1>2 DEF BInv, Answers
<1>3. CASE InitCommand(fd, cmd)
  BY <1>1, <1>2, <1>3 DEF InitCommand, Reject
<1>4. CASE NewChan(fd, cmd)
  BY <1>1, <1>4 DEF NewChan, Reply
<1>5. CASE BindChan(fd, cmd)
  BY <1>1, <1>5 DEF BindChan, Reply
<1>6. CASE CloseChan(fd, cmd)
  BY <1>1, <1>6 DEF CloseChan, Reply
<1>7. QED
  BY <1>2, <1>3, <1>4, <1>5, <1>6 DEF ProcessCommands, Reject

(* One answer to a client whose connection has not been reset is written.  *)
Written(fd, c, a) ==
    /\ ctxState' = [ctxState EXCEPT ![fd] = "inited"]
    /\ UNCHANGED <<accepted, peer, gExit, touched>>
    /\ client[c].st = "open" => down'[c] = down[c] \o <<a>> /\ ~rst'[c]

LEMMA Single ==
    ASSUME BInv, NEW fd, NEW c \in Clients, c = peer[fd], ~rst[c], NEW a, WriteData(fd, "inited", <<a>>)
    PROVE  Written(fd, c, a)
<1>1. Len(<<a>>) = 1 /\ DOMAIN down = Clients /\ DOMAIN rst = Clients
  BY DEF BInv, Answers
<1>2. ~(rst[c] \/ (client[c].st = "closed" /\ Len(<<a>>) > 1))
  BY <1>1
<1>3. ctxState' = [ctxState EXCEPT ![fd] = "inited"] /\ UNCHANGED <<accepted, peer, gExit, touched>>
  BY <1>2 DEF WriteData
<1>4. ASSUME client[c].st = "open" PROVE down'[c] = down[c] \o <<a>>
  BY <1>1, <1>4 DEF WriteData
<1>5. ASSUME client[c].st = "open" PROVE ~rst'[c]
  <2>1. rst' = [rst EXCEPT ![c] = @ \/ client[c].st = "closed"]
    BY DEF WriteData
  <2>2. rst'[c] = (rst[c] \/ client[c].st = "closed")
    BY <1>1, <2>1
  <2>3. QED
    BY <1>5, <2>2
<1>6. QED
  BY <1>3, <1>4, <1>5 DEF Written

(* What the command cmd of fd, answered with a, makes of the channels.     *)
Effect(fd, cmd, a) ==
    /\ Channels'
    /\ \A f, id : f # fd => (<<f, id>> \in ctxSock' <=> <<f, id>> \in ctxSock)
    /\ \A id : ~(cmd.op = "close" /\ id = cmd.id) =>
          /\ <<fd, id>> \in ctxSock => <<fd, id>> \in ctxSock'
          /\ \A h : Bound(id, h) => Bound(id, h)'
    /\ \A id : ~(cmd.op \in {"bind", "close"} /\ id = cmd.id) =>
          (id \in DOMAIN shmHash' <=> id \in DOMAIN shmHash)
    /\ cmd.op \in {"newR", "newW"} /\ a.ok => <<fd, a.id>> \in ctxSock' /\ a.id \notin DOMAIN shmHash'
    /\ cmd.op = "bind" /\ a.ok => Bound(cmd.id, cmd.hash)'
    /\ cmd.op = "bind" /\ ~a.ok => shmHash' = shmHash

LEMMA NoEffect ==
    ASSUME BInv, NEW fd, NEW cmd, NEW a, UNCHANGED chans,
           cmd.op \in {"newR", "newW", "bind"} => ~a.ok
    PROVE  Effect(fd, cmd, a) /\ (OneBind => Kept')
<1>1. UNCHANGED <<ctxSock, ctxHash, shmHash>>
  BY DEF chans
<1>2. Channels' /\ (OneBind => Kept')
  BY ChansKept
<1>3. \A id, h : Bound(id, h) => Bound(id, h)'
  BY <1>1 DEF Bound
<1>4. QED
  BY <1>1, <1>2, <1>3 DEF Effect

LEMMA NewEffect ==
    ASSUME BInv, NEW fd \in Fds, NEW cmd, NEW a, cmd.op \in {"newR", "newW"},
           shmIndex' = shmIndex + 1, UNCHANGED <<ctxHash, shmHash>>,
           \/ ctxSock' = ctxSock \cup {<<fd, shmIndex>>} /\ a.id = shmIndex
           \/ ctxSock' = ctxSock /\ ~a.ok
    PROVE  Effect(fd, cmd, a) /\ (OneBind => Kept')
<1>1. Channels /\ shmIndex \in Nat
  BY DEF BInv, Channels
<1>2. \A id \in 0 .. shmIndex' - 1 : id \in 0 .. shmIndex - 1 \/ id = shmIndex
  BY <1>1
<1>3. 0 .. shmIndex - 1 \subseteq 0 .. shmIndex' - 1 /\ shmIndex \in 0 .. shmIndex' - 1
      /\ shmIndex \notin 0 .. shmIndex - 1
  BY <1>1
<1>4. \A f, id : <<f, id>> \in ctxSock => f \in Fds /\ id \in 0 .. shmIndex - 1
  BY <1>1 DEF Channels
<1>5. \A f, id : <<f, id>> \in ctxSock' => <<f, id>> \in ctxSock \/ (f = fd /\ id = shmIndex)
  OBVIOUS
<1>6. Channels'
  <2>1. shmIndex' \in Nat /\ ctxSock' \subseteq Fds \X (0 .. shmIndex' - 1)
    BY <1>1, <1>3 DEF Channels
  <2>2. ASSUME NEW f \in Fds, NEW g \in Fds, NEW id \in 0 .. shmIndex' - 1,
               <<f, id>> \in ctxSock', <<g, id>> \in ctxSock'
        PROVE  f = g
    <3>1. CASE id = shmIndex
      BY <1>3, <1>4, <1>5, <2>2, <3>1
    <3>2. CASE id \in 0 .. shmIndex - 1
      BY <1>1, <1>3, <1>5, <2>2, <3>2 DEF Channels
    <3>3. QED
      BY <1>2, <3>1, <3>2
  <2>3. DOMAIN shmHash' \subseteq 0 .. shmIndex' - 1
    BY <1>1, <1>3 DEF Channels
  <2>4. QED
    BY <1>1, <2>1, <2>2, <2>3 DEF Channels
<1>7. \A id, h : Bound(id, h) => Bound(id, h)'
  BY DEF Bound
<1>8. a.ok => <<fd, a.id>> \in ctxSock' /\ a.id \notin DOMAIN shmHash'
  BY <1>1, <1>3 DEF Channels
<1>9. \A f, id : f # fd => (<<f, id>> \in ctxSock' <=> <<f, id>> \in ctxSock)
  BY <1>5
<1>10. OneBind => Kept'
  BY DEF BInv, Kept
<1>11. QED
  BY <1>6, <1>7, <1>8, <1>9, <1>10 DEF Effect

LEMMA BindEffect ==
    ASSUME BInv, NEW fd \in Fds, NEW cmd, NEW a, cmd.op = "bind", a.ok,
           <<fd, cmd.id>> \in ctxSock, cmd.hash \notin DOMAIN ctxHash,
           OneBind => cmd.id \notin DOMAIN shmHash,
           ctxHash' = Emplaced(ctxHash, cmd.hash, cmd.id),
           shmHash' = Emplaced(shmHash, cmd.id, {cmd.hash}),
           UNCHANGED <<ctxSock, shmIndex>>
    PROVE  Effect(fd, cmd, a) /\ (OneBind => Kept')
<1>1. /\ DOMAIN ctxHash' = DOMAIN ctxHash \cup {cmd.hash} /\ ctxHash'[cmd.hash] = cmd.id
      /\ \A h \in DOMAIN ctxHash : ctxHash'[h] = ctxHash[h] /\ h # cmd.hash
  BY DEF Emplaced, Assigned
<1>2. /\ DOMAIN shmHash' = DOMAIN shmHash \cup {cmd.id}
      /\ \A id \in DOMAIN shmHash : shmHash'[id] = shmHash[id]
      /\ cmd.id \notin DOMAIN shmHash => shmHash'[cmd.id] = {cmd.hash}
  <2>1. CASE cmd.id \in DOMAIN shmHash
    BY <2>1 DEF Emplaced
  <2>2. CASE cmd.id \notin DOMAIN shmHash
    BY <2>2 DEF Emplaced, Assigned
  <2>3. QED
    BY <2>1, <2>2
<1>3. Channels
  BY DEF BInv
<1>4. Channels'
  <2>1. DOMAIN shmHash' \subseteq 0 .. shmIndex - 1
    BY <1>2, <1>3 DEF Channels
  <2>2. ASSUME NEW id \in DOMAIN shmHash', NEW h \in shmHash'[id]
        PROVE  h \in DOMAIN ctxHash' /\ ctxHash'[h] = id
    <3>1. CASE id \in DOMAIN shmHash
      <4>1. h \in shmHash[id]
        BY <1>2, <2>2, <3>1
      <4>2. h \in DOMAIN ctxHash /\ ctxHash[h] = id
        BY <1>3, <3>1, <4>1 DEF Channels
      <4>3. QED
        BY <1>1, <4>2
    <3>2. CASE id \notin DOMAIN shmHash
      BY <1>1, <1>2, <2>2, <3>2
    <3>3. QED
      BY <3>1, <3>2
  <2>3. QED
    BY <1>3, <2>1, <2>2 DEF Channels
<1>5. \A id, h : Bound(id, h) => Bound(id, h)'
  BY <1>1 DEF Bound
<1>6. Bound(cmd.id, cmd.hash)'
  BY <1>1 DEF Bound
<1>7. ASSUME OneBind PROVE Kept'
  <2>1. Kept /\ cmd.id \notin DOMAIN shmHash
    BY <1>7 DEF BInv
  <2>2. ASSUME NEW h \in DOMAIN ctxHash'
        PROVE  /\ \E f \in Fds : <<f, ctxHash'[h]>> \in ctxSock
               /\ ctxHash'[h] \in DOMAIN shmHash' /\ h \in shmHash'[ctxHash'[h]]
    <3>1. CASE h = cmd.hash
      BY <1>1, <1>2, <2>1, <3>1
    <3>2. CASE h \in DOMAIN ctxHash
      <4>1. PICK id : id = ctxHash[h]
        OBVIOUS
      <4>2. (\E f \in Fds : <<f, id>> \in ctxSock) /\ id \in DOMAIN shmHash /\ h \in shmHash[id]
        BY <2>1, <3>2, <4>1 DEF Kept
      <4>3. ctxHash'[h] = id /\ id \in DOMAIN shmHash' /\ shmHash'[id] = shmHash[id]
        BY <1>1, <1>2, <3>2, <4>1, <4>2
      <4>4. QED
        BY <4>2, <4>3
    <3>3. QED
      BY <1>1, <2>2, <3>1, <3>2
  <2>3. QED
    BY <2>2 DEF Kept
<1>8. QED
  BY <1>2, <1>4, <1>5, <1>6, <1>7 DEF Effect

LEMMA CloseEffect ==
    ASSUME BInv, NEW fd \in Fds, NEW cmd, NEW a, cmd.op = "close", <<fd, cmd.id>> \in ctxSock,
           NEW hashes, hashes = (IF cmd.id \in DOMAIN shmHash THEN shmHash[cmd.id] ELSE {}),
           ctxSock' = ctxSock \ {<<fd, cmd.id>>},
           ctxHash' = Restrict(ctxHash, DOMAIN ctxHash \ hashes),
           shmHash' = Restrict(shmHash, DOMAIN shmHash \ {cmd.id}),
           UNCHANGED shmIndex
    PROVE  Effect(fd, cmd, a) /\ (OneBind => Kept')
<1>1. /\ DOMAIN ctxHash' = DOMAIN ctxHash \ hashes
      /\ \A h \in DOMAIN ctxHash' : ctxHash'[h] = ctxHash[h]
  BY DEF Restrict
<1>2. /\ DOMAIN shmHash' = DOMAIN shmHash \ {cmd.id}
      /\ \A id \in DOMAIN shmHash' : shmHash'[id] = shmHash[id]
  BY DEF Restrict
<1>3. Channels
  BY DEF BInv
<1>4. \A h \in hashes : h \in DOMAIN ctxHash /\ ctxHash[h] = cmd.id
  BY <1>3 DEF Channels
<1>5. Channels'
  <2>1. ctxSock' \subseteq Fds \X (0 .. shmIndex - 1) /\ DOMAIN shmHash' \subseteq 0 .. shmIndex - 1
    BY <1>2, <1>3 DEF Channels
  <2>2. ASSUME NEW id \in DOMAIN shmHash', NEW h \in shmHash'[id]
        PROVE  h \in DOMAIN ctxHash' /\ ctxHash'[h] = id
    <3>1. id \in DOMAIN shmHash /\ id # cmd.id /\ h \in shmHash[id]
      BY <1>2, <2>2
    <3>2. h \in DOMAIN ctxHash /\ ctxHash[h] = id
      BY <1>3, <3>1 DEF Channels
    <3>3. h \notin hashes
      BY <1>4, <3>1, <3>2
    <3>4. QED
      BY <1>1, <3>2, <3>3
  <2>3. QED
    BY <1>3, <2>1, <2>2 DEF Channels
<1>6. \A id, h : id # cmd.id /\ Bound(id, h) => Bound(id, h)'
  BY <1>1, <1>4 DEF Bound
<1>7. ASSUME OneBind PROVE Kept'
  <2>1. Kept
    BY <1>7 DEF BInv
  <2>2. ASSUME NEW h \in DOMAIN ctxHash'
        PROVE  /\ \E f \in Fds : <<f, ctxHash'[h]>> \in ctxSock'
               /\ ctxHash'[h] \in DOMAIN shmHash' /\ h \in shmHash'[ctxHash'[h]]
    <3>1. h \in DOMAIN ctxHash /\ h \notin hashes /\ ctxHash'[h] = ctxHash[h]
      BY <1>1, <2>2
    <3>2. ctxHash[h] # cmd.id
      BY <2>1, <3>1 DEF Kept
    <3>3. QED
      BY <1>2, <2>1, <3>1, <3>2 DEF Kept
  <2>3. QED
    BY <2>2 DEF Kept
<1>8. \A f, id : f # fd \/ id # cmd.id => (<<f, id>> \in ctxSock' <=> <<f, id>> \in ctxSock)
  OBVIOUS
<1>9. QED
  BY <1>2, <1>5, <1>6, <1>7, <1>8 DEF Effect

(* A command of a client that keeps to the protocol: dropped, which cannot *)
(* happen to one that waits, or answered once.                             *)
LEMMA HonestCommand ==
    ASSUME IInv, BInv, NEW fd \in Fds, NEW c \in Honest, On(fd, c), NEW cmd,
           up[c] # << >>, up[c][1] = cmd, ProcessCommands(fd, cmd)
    PROVE  \/ /\ cmd.op # "init" /\ ctxState[fd] # "inited"
              /\ UNCHANGED <<down, rst, accepted, peer, ctxState, chans, gExit, touched>>
           \/ \E a : Written(fd, c, a) /\ Effect(fd, cmd, a) /\ (OneBind => Kept')
<1> DEFINE Done == \E a : Written(fd, c, a) /\ Effect(fd, cmd, a) /\ (OneBind => Kept')
<1>1. /\ ~rst[c] /\ c = peer[fd] /\ fd \in DOMAIN peer /\ c \in Clients
      /\ cmd.op \in {"init", "newR", "newW", "bind", "close"}
      /\ cmd.op \in {"bind", "close"} => <<fd, cmd.id>> \in ctxSock
  BY DEF BInv, Served, Sends, Honest, On
<1>2. ASSUME NEW a, WriteData(fd, "inited", <<a>>) PROVE Written(fd, c, a)
  BY <1>1, <1>2, Single
<1>3. CASE InitCommand(fd, cmd)
  <2>1. cmd.op = "init" /\ WriteData(fd, "inited", <<Answer(TRUE, 0)>>) /\ UNCHANGED chans
    BY <1>1, <1>3 DEF InitCommand
  <2>2. Effect(fd, cmd, Answer(TRUE, 0)) /\ (OneBind => Kept')
    BY <2>1, NoEffect
  <2>3. QED
    BY <1>2, <2>1, <2>2
<1>4. ASSUME ctxState[fd] = "inited", NewChan(fd, cmd) PROVE Done
  <2>1. CASE /\ ctxSock' = ctxSock \cup {<<fd, shmIndex>>}
             /\ Reply(fd, <<Answer(TRUE, shmIndex)>>)
    <3>1. PICK a : a = Answer(TRUE, shmIndex)
      OBVIOUS
    <3>2. Written(fd, c, a)
      BY <1>2, <1>4, <2>1, <3>1 DEF Reply
    <3>3. a.id = shmIndex
      BY <3>1 DEF Answer
    <3>4. Effect(fd, cmd, a) /\ (OneBind => Kept')
      BY <1>4, <2>1, <3>3, NewEffect DEF NewChan
    <3>5. QED
      BY <3>2, <3>4
  <2>2. CASE Reply(fd, <<Answer(FALSE, 0)>>) /\ UNCHANGED ctxSock
    <3>1. PICK a : a = Answer(FALSE, 0)
      OBVIOUS
    <3>2. Written(fd, c, a)
      BY <1>2, <1>4, <2>2, <3>1 DEF Reply
    <3>3. ~a.ok
      BY <3>1 DEF Answer
    <3>4. Effect(fd, cmd, a) /\ (OneBind => Kept')
      BY <1>4, <2>2, <3>3, NewEffect DEF NewChan
    <3>5. QED
      BY <3>2, <3>4
  <2>3. QED
    BY <1>4, <2>1, <2>2 DEF NewChan
<1>5. ASSUME ctxState[fd] = "inited", BindChan(fd, cmd) PROVE Done
  <2>1. <<fd, cmd.id>> \in {x \in ctxSock : x[1] = fd} /\ cmd.op = "bind"
    BY <1>1, <1>5 DEF BindChan
  <2>2. CASE /\ Reply(fd, <<Answer(FALSE, cmd.id)>>)
             /\ UNCHANGED <<ctxHash, shmHash>>
    <3>1. PICK a : a = Answer(FALSE, cmd.id)
      OBVIOUS
    <3>2. Written(fd, c, a) /\ ~a.ok
      BY <1>2, <1>5, <2>2, <3>1 DEF Reply, Answer
    <3>3. UNCHANGED chans
      BY <1>5, <2>2 DEF BindChan, chans
    <3>4. Effect(fd, cmd, a) /\ (OneBind => Kept')
      BY <3>2, <3>3, NoEffect
    <3>5. QED
      BY <3>2, <3>4
  <2>3. CASE /\ cmd.hash \notin DOMAIN ctxHash
             /\ ctxHash' = Emplaced(ctxHash, cmd.hash, cmd.id)
             /\ shmHash' = Emplaced(shmHash, cmd.id, {cmd.hash})
             /\ Reply(fd, <<Answer(TRUE, cmd.id)>>)
    <3>1. PICK a : a = Answer(TRUE, cmd.id)
      OBVIOUS
    <3>2. Written(fd, c, a) /\ a.ok
      BY <1>2, <1>5, <2>3, <3>1 DEF Reply, Answer
    <3>3. OneBind => cmd.id \notin DOMAIN shmHash
      <4>1. Has(c, cmd.id)
        BY <1>1, <2>1 DEF Has
      <4>2. QED
        BY <2>1, <4>1 DEF BInv, BindsOnce
    <3>4. Effect(fd, cmd, a) /\ (OneBind => Kept')
      <4>1. UNCHANGED <<ctxSock, shmIndex>>
        BY <1>5 DEF BindChan
      <4>2. QED
        BY <1>1, <2>1, <2>3, <3>2, <3>3, <4>1, BindEffect
    <3>5. QED
      BY <3>2, <3>4
  <2>4. QED
    BY <1>5, <2>1, <2>2, <2>3 DEF BindChan
<1>6. ASSUME ctxState[fd] = "inited", CloseChan(fd, cmd) PROVE Done
  <2>1. PICK hashes : hashes = (IF cmd.id \in DOMAIN shmHash THEN shmHash[cmd.id] ELSE {})
    OBVIOUS
  <2>2. /\ cmd.op = "close" /\ <<fd, cmd.id>> \in ctxSock
        /\ ctxSock' = ctxSock \ {<<fd, cmd.id>>}
        /\ ctxHash' = Restrict(ctxHash, DOMAIN ctxHash \ hashes)
        /\ shmHash' = Restrict(shmHash, DOMAIN shmHash \ {cmd.id})
        /\ Reply(fd, <<Answer(TRUE, cmd.id)>>)
        /\ UNCHANGED shmIndex
    BY <1>1, <1>6, <2>1 DEF CloseChan
  <2>3. PICK a : a = Answer(TRUE, cmd.id)
    OBVIOUS
  <2>4. Written(fd, c, a)
    BY <1>2, <1>6, <2>2, <2>3 DEF Reply
  <2>5. Effect(fd, cmd, a) /\ (OneBind => Kept')
    BY <2>1, <2>2, CloseEffect
  <2>6. QED
    BY <2>4, <2>5
<1>7. QED
  BY <1>1, <1>3, <1>4, <1>5, <1>6 DEF ProcessCommands

(* The client whose command it is has its answer, and what the answer says *)
(* holds.                                                                  *)
LEMMA OwnerServed ==
    ASSUME IInv, BInv, NEW fd \in Fds, NEW c \in Honest, On(fd, c), NEW cmd, NEW a,
           up[c] # << >>, up[c][1] = cmd, up'[c] = << >>, UNCHANGED client,
           Written(fd, c, a), Effect(fd, cmd, a)
    PROVE  Served(c)' /\ (OneBind => BindsOnce(c)')
<1>1. Served(c) /\ client[c].st # "new" /\ UNCHANGED <<client, peer, accepted>>
  BY DEF BInv, Served, Fresh, Written
<1>2. Sends(c)'
  BY DEF Sends
<1>3. ASSUME client[c].st = "open"
      PROVE  /\ client[c].await = cmd /\ cmd # None /\ down[c] = << >>
             /\ down'[c] = <<a>> /\ ~rst'[c]
             /\ Hello(c) /\ Knows(c)
  <2>1. OneWay(c) /\ Hello(c) /\ Knows(c)
    BY <1>1, <1>3 DEF Served
  <2>2. client[c].await # None /\ up[c] = <<client[c].await>> /\ down[c] = << >>
    BY <2>1 DEF OneWay
  <2>3. client[c].await = cmd
    BY <2>2
  <2>4. down'[c] = << >> \o <<a>> /\ ~rst'[c]
    BY <1>3, <2>2 DEF Written
  <2>5. QED
    BY <2>1, <2>2, <2>3, <2>4, OneElement
<1>4. ASSUME client[c].st = "open" PROVE OneWay(c)'
  BY <1>1, <1>3, <1>4 DEF OneWay
<1>5. ASSUME client[c].st = "open" PROVE Hello(c)'
  <2>1. ctxState'[fd] = "inited" /\ On(fd, c)'
    BY <1>1 DEF Written, On, IInv, States
  <2>2. QED
    BY <1>1, <1>3, <1>5, <2>1 DEF Hello
<1>6. ASSUME client[c].st = "open" PROVE Acked(c)' <=> a.ok
  BY <1>3, <1>6, OneElement DEF Acked
<1>7. \A id : Has(c, id) /\ ~(cmd.op = "close" /\ id = cmd.id) => Has(c, id)'
  BY <1>1 DEF Has, On, Effect
<1>8. ASSUME client[c].st = "open" PROVE Knows(c)'
  <2>1. down'[c][1] = a /\ client'[c].await = cmd
    BY <1>1, <1>3, <1>8
  <2>2. \A id \in client[c].ids : Has(c, id)' /\ ~(cmd.op = "close" /\ id = cmd.id)
    BY <1>3, <1>7, <1>8 DEF Knows
  <2>3. \A b \in client[c].binds : b[1] \in client[c].ids /\ Bound(b[1], b[2])'
    BY <1>3, <1>8, <2>2 DEF Knows, Effect
  <2>4. ASSUME cmd.op \in {"newR", "newW"}, a.ok PROVE Has(c, a.id)'
    BY <1>1, <2>4 DEF Effect, Has, On
  <2>5. ASSUME cmd.op = "bind", a.ok PROVE Bound(cmd.id, cmd.hash)'
    BY <2>5 DEF Effect
  <2>6. /\ cmd.op = "bind" => cmd.id \in client[c].ids
        /\ cmd.op = "close" => cmd.id \notin client[c].ids
    BY <1>3, <1>8 DEF Knows
  <2>7. /\ client'[c].await.op \in {"newR", "newW"} /\ Acked(c)' => Has(c, down[c][1].id)'
    <3>1. PICK i : i = a.id
      OBVIOUS
    <3>2. down'[c][1].id = i
      BY <2>1, <3>1
    <3>3. cmd.op \in {"newR", "newW"} /\ a.ok => Has(c, i)'
      BY <1>1, <3>1 DEF Effect, Has, On
    <3>4. QED
      BY <1>6, <1>8, <2>1, <3>2, <3>3 DEF Has
  <2>8. client'[c].await.op = "bind" /\ Acked(c)' => Bound(client[c].await.id, client[c].await.hash)'
    BY <1>1, <1>3, <1>6, <1>8, <2>1, <2>5 DEF Bound
  <2>9. client'[c].ids = client[c].ids /\ client'[c].binds = client[c].binds
    BY <1>1
  <2>10. /\ \A id \in client'[c].ids : Has(c, id)'
         /\ \A b \in client'[c].binds : b[1] \in client'[c].ids /\ Bound(b[1], b[2])'
    BY <2>2, <2>3, <2>9
  <2>11. /\ client'[c].await.op = "bind" => client'[c].await.id \in client'[c].ids
         /\ client'[c].await.op = "close" => client'[c].await.id \notin client'[c].ids
    BY <2>1, <2>6, <2>9
  <2>12. QED
    BY <2>7, <2>8, <2>10, <2>11 DEF Knows
<1>9. ASSUME OneBind PROVE BindsOnce(c)'
  <2>1. ASSUME client[c].st = "open", NEW id \in client[c].ids, id \in DOMAIN shmHash'
        PROVE  \/ \E b \in client[c].binds : b[1] = id
               \/ cmd.op = "bind" /\ cmd.id = id /\ a.ok
    <3>1. ~Acked(c) /\ BindsOnce(c) /\ ~(cmd.op = "close" /\ id = cmd.id)
      BY <1>3, <1>9, <2>1 DEF BInv, Acked, Knows
    <3>2. id \in DOMAIN shmHash => \E b \in client[c].binds : b[1] = id
      BY <2>1, <3>1 DEF BindsOnce
    <3>3. CASE ~(cmd.op = "bind" /\ id = cmd.id)
      BY <2>1, <3>1, <3>2, <3>3 DEF Effect
    <3>4. CASE cmd.op = "bind" /\ id = cmd.id
      BY <2>1, <3>2, <3>4 DEF Effect
    <3>5. QED
      BY <3>3, <3>4
  <2>2. ASSUME client[c].st = "open", cmd.op \in {"newR", "newW"}, a.ok
        PROVE  a.id \notin DOMAIN shmHash'
    BY <2>2 DEF Effect
  <2>3. ASSUME client[c].st = "open" PROVE down'[c][1] = a /\ client[c].await = cmd
    BY <1>3, <2>3
  <2>4. client'[c].st = "open" =>
           /\ \A id \in client'[c].ids : id \in DOMAIN shmHash' =>
                 \/ \E b \in client'[c].binds : b[1] = id
                 \/ client'[c].await.op = "bind" /\ client'[c].await.id = id /\ Acked(c)'
           /\ client'[c].await.op \in {"newR", "newW"} /\ Acked(c)' => down'[c][1].id \notin DOMAIN shmHash'
    BY <1>1, <1>6, <2>1, <2>2, <2>3
  <2>5. QED
    BY <2>4 DEF BindsOnce
<1>10. QED
  BY <1>1, <1>2, <1>3, <1>4, <1>5, <1>8, <1>9 DEF Served

(* The channels of the others are out of its reach.                        *)
LEMMA OutOfReach ==
    ASSUME IInv, BInv, NEW fd \in Fds, NEW d, SameConnection(d), ~On(fd, d), NEW cmd, NEW a, Effect(fd, cmd, a),
           cmd.op \in {"bind", "close"} => <<fd, cmd.id>> \in ctxSock,
           client'[d] = client[d], up'[d] = up[d], down'[d] = down[d], rst'[d] = rst[d]
    PROVE  Undisturbed(d)
<1>1. ASSUME NEW id, Has(d, id) PROVE ~(cmd.op \in {"bind", "close"} /\ id = cmd.id)
  <2>1. PICK f \in Fds : On(f, d) /\ <<f, id>> \in ctxSock
    BY <1>1 DEF Has
  <2>2. id \in 0 .. shmIndex - 1
    BY <2>1 DEF BInv, Channels
  <2>3. \A g \in Fds : <<g, id>> \in ctxSock => g = f
    BY <2>1, <2>2 DEF BInv, Channels
  <2>4. QED
    BY <2>1, <2>3
<1>2. \A f \in Fds : On(f, d) => f # fd
  OBVIOUS
<1>3. \A f \in Fds : On(f, d) => \A id : <<f, id>> \in ctxSock' <=> <<f, id>> \in ctxSock
  BY <1>2 DEF Effect
<1>4. \A id, h : Has(d, id) /\ Bound(id, h) => Bound(id, h)'
  BY <1>1 DEF Effect
<1>5. \A id : Has(d, id) => (id \in DOMAIN shmHash' <=> id \in DOMAIN shmHash)
  BY <1>1 DEF Effect
<1>6. QED
  BY <1>3, <1>4, <1>5 DEF Undisturbed, SameConnection

LEMMA ReadCommandStep == ASSUME IInv, BInv, NEW fd \in Fds, ReadCommand(fd) PROVE BInv'
<1>1. PICK c \in Clients : c = peer[fd]
  BY CommandRead
<1>2. PICK cmd : cmd = Head(up[c])
  OBVIOUS
<1>3. /\ fd \in DOMAIN peer /\ On(fd, c) /\ up[c] # << >> /\ ProcessCommands(fd, cmd)
      /\ up'[c] = Tail(up[c]) /\ \A d \in Clients \ {c} : up'[d] = up[d]
      /\ UNCHANGED client
  BY <1>1, <1>2 DEF ReadCommand, On, IInv, Streams
<1>4. /\ Answers'
      /\ \A d \in Clients \ {c} : down'[d] = down[d] /\ rst'[d] = rst[d]
  BY <1>1, <1>3, ProcessedNet
<1>5. ASSUME NEW d \in Honest \ {c}
      PROVE  /\ SameConnection(d) /\ ~On(fd, d)
             /\ client'[d] = client[d] /\ up'[d] = up[d] /\ down'[d] = down[d] /\ rst'[d] = rst[d]
  <2>1. SameConnection(d)
    BY <1>1, <1>3, CommandRead, OtherConnections
  <2>2. QED
    BY <1>1, <1>3, <1>4, <2>1 DEF On, Honest
<1>6. CASE c \in Strangers
  <2>1. UNCHANGED chans
    BY <1>1, <1>6, StrangerCommand
  <2>2. \A d \in Honest \ {c} : Undisturbed(d)
    BY <1>5, <2>1, SameChannels
  <2>3. QED
    BY <1>4, <1>6, <2>1, <2>2, ChansKept, Assemble DEF Honest
<1>7. CASE c \in Honest
  <2>1. /\ up[c][1] = cmd /\ up'[c] = << >>
        /\ cmd.op \in {"bind", "close"} => <<fd, cmd.id>> \in ctxSock
    <3>1. /\ up[c] = <<up[c][1]>>
          /\ up[c][1].op \in {"bind", "close"} => <<fd, up[c][1].id>> \in ctxSock
      BY <1>3, <1>7 DEF BInv, Served, Sends
    <3>2. PICK e : e = up[c][1]
      OBVIOUS
    <3>3. up[c] = <<e>> /\ Head(<<e>>) = e /\ Tail(<<e>>) = << >>
      BY <3>1, <3>2, OneElement
    <3>4. QED
      BY <1>2, <1>3, <3>1, <3>2, <3>3
  <2>2. CASE /\ cmd.op # "init" /\ ctxState[fd] # "inited"
             /\ UNCHANGED <<down, rst, accepted, peer, ctxState, chans, gExit, touched>>
    <3>1. client[c].st \notin {"open", "new"}
      <4>1. client[c].st # "new"
        BY <1>3, <1>7 DEF BInv, Served, Fresh
      <4>2. ASSUME client[c].st = "open" PROVE FALSE
        <5>1. OneWay(c) /\ Hello(c)
          BY <1>7, <4>2 DEF BInv, Served
        <5>2. client[c].await = cmd /\ cmd # None
          BY <1>3, <2>1, <5>1 DEF OneWay
        <5>3. client[c].inited
          BY <2>2, <5>1, <5>2 DEF Hello, Cmd
        <5>4. PICK f \in Fds : On(f, c) /\ ctxState[f] = "inited"
          BY <5>1, <5>3 DEF Hello
        <5>5. QED
          BY <1>3, <2>2, <5>4, OneConnection
      <4>3. QED
        BY <4>1, <4>2
    <3>2. Served(c)' /\ BindsOnce(c)'
      BY <1>3, <2>1, <3>1 DEF Served, Sends, BindsOnce
    <3>3. \A d \in Honest \ {c} : Undisturbed(d)
      BY <1>5, <2>2, SameChannels
    <3>4. Strangers = {} => CleanServer'
      BY <2>2 DEF BInv, CleanServer
    <3>5. QED
      BY <1>4, <2>2, <3>2, <3>3, <3>4, ChansKept, Assemble
  <2>3. ASSUME NEW a, Written(fd, c, a), Effect(fd, cmd, a), OneBind => Kept' PROVE BInv'
    <3>1. Served(c)' /\ (OneBind => BindsOnce(c)')
      BY <1>3, <1>7, <2>1, <2>3, OwnerServed
    <3>2. \A d \in Honest \ {c} : Undisturbed(d)
      BY <1>5, <2>1, <2>3, OutOfReach
    <3>3. Strangers = {} => CleanServer'
      BY <2>3 DEF Written, BInv, CleanServer
    <3>4. Channels'
      BY <2>3 DEF Effect
    <3>5. QED
      BY <1>4, <2>3, <3>1, <3>2, <3>3, <3>4, Assemble
  <2>4. QED
    BY <1>3, <1>7, <2>1, <2>2, <2>3, HonestCommand
<1>8. QED
  BY <1>6, <1>7 DEF Honest

------------------------------------------------------------------------------
LEMMA BindingsStart == Init => BInv
<1> SUFFICES ASSUME Init PROVE BInv
  OBVIOUS
<1>1. \A c \in Clients : /\ client[c].st = "new" /\ client[c].await = None
                         /\ client[c].inited = FALSE /\ client[c].ids = {} /\ client[c].binds = {}
                         /\ up[c] = << >> /\ down[c] = << >> /\ ~rst[c]
  BY DEF Init
<1>2. accepted = {} /\ ctxSock = {} /\ DOMAIN ctxHash = {} /\ DOMAIN shmHash = {} /\ shmIndex = 0
  BY DEF Init
<1>3. Channels /\ Kept
  BY <1>2 DEF Channels, Kept
<1>4. Answers /\ CleanServer
  BY DEF Init, Answers, CleanServer
<1>5. ASSUME NEW c \in Honest PROVE Served(c) /\ BindsOnce(c)
  BY <1>1, <1>2, <1>5 DEF Honest, Served, Sends, Fresh, BindsOnce
<1>6. QED
  BY <1>3, <1>4, <1>5 DEF BInv

LEMMA BindingsStutter == ASSUME BInv, UNCHANGED vars PROVE BInv'
<1>1. UNCHANGED <<client, up, down, rst, accepted, peer, ctxState, chans, gExit, touched>>
  BY DEF vars, net, conns
<1>2. \A d \in Honest : Undisturbed(d)
  BY <1>1, SameChannels DEF SameConnection, On
<1>3. Answers' /\ (Strangers = {} => CleanServer')
  BY <1>1 DEF BInv, Answers, CleanServer
<1>4. \A d \in Honest : Served(d)' /\ (OneBind => BindsOnce(d)')
  BY <1>2, UndisturbedKeeps DEF BInv
<1>5. QED
  BY <1>1, <1>3, <1>4, ChansKept DEF BInv

(* One command or answer of a client on the way, and bindings as they were *)
(* acknowledged, in every behaviour in which clients tell SS_ACK from      *)
(* SS_NACK.                                                                *)
THEOREM BindingsInvariance == ChecksReplies => (Spec => []BInv)
<1> SUFFICES ASSUME ChecksReplies PROVE Spec => []BInv
  OBVIOUS
<1>1. IInv /\ BInv /\ [Next]_vars => BInv'
  <2> SUFFICES ASSUME IInv, BInv, [Next]_vars PROVE BInv'
    OBVIOUS
  <2>1. ASSUME NEW c \in Clients, Connect(c) PROVE BInv'
    BY <2>1, ConnectStep
  <2>2. ASSUME NEW c \in Clients, NEW cmd \in Commands, Call(c, cmd) PROVE BInv'
    BY <2>2, CallStep
  <2>3. ASSUME NEW c \in Clients, GotAnswer(c) PROVE BInv'
    BY <2>3, GotAnswerStep
  <2>4. ASSUME NEW c \in Clients, Leave(c) PROVE BInv'
    BY <2>4, LeaveStep
  <2>5. ASSUME NEW c \in Clients, NEW fd \in Fds, Accept(c, fd) PROVE BInv'
    BY <2>5, AcceptStep
  <2>6. ASSUME NEW fd \in Fds, Serve(fd) PROVE BInv'
    BY <2>6, ReadPartStep, ReadCommandStep, ReadEndStep DEF Serve
  <2>7. CASE UNCHANGED vars
    BY <2>7, BindingsStutter
  <2>8. QED
    BY <2>1, <2>2, <2>3, <2>4, <2>5, <2>6, <2>7 DEF Next
<1>2. Init => BInv
  BY BindingsStart
<1>3. Spec => []IInv
  BY Invariance
<1>4. QED
  BY <1>1, <1>2, <1>3, PTL DEF Spec

(* Strangers have no binding that was acknowledged.                        *)
NoBinds == \A c \in Strangers : client[c].binds = {}

LEMMA StrangersBindNothing == Spec => []NoBinds
<1>1. Init => NoBinds
  BY ClientsAssumption DEF Init, NoBinds
<1>2. IInv /\ NoBinds /\ [Next]_vars => NoBinds'
  <2> SUFFICES ASSUME IInv, NoBinds, [Next]_vars PROVE NoBinds'
    OBVIOUS
  <2>1. Strangers \subseteq Clients /\ DOMAIN client = Clients
        /\ \A c \in Clients : DOMAIN client[c] = {"st", "inited", "await", "ids", "binds"}
    BY ClientsAssumption DEF IInv, Shape
  <2>2. ASSUME NEW c \in Clients, Connect(c) \/ Leave(c) PROVE NoBinds'
    BY <2>1, <2>2 DEF Connect, Leave, NoBinds
  <2>3. ASSUME NEW c \in Clients, NEW cmd \in Commands, Call(c, cmd) PROVE NoBinds'
    <3>1. \A d \in Clients : client'[d].binds \subseteq client[d].binds
      BY <2>1, <2>3 DEF Call
    <3>2. QED
      BY <2>1, <3>1 DEF NoBinds
  <2>4. ASSUME NEW c \in Clients, GotAnswer(c) PROVE NoBinds'
    <3>1. c \notin Strangers
      BY <2>4 DEF GotAnswer, IInv, Powerless, PowerlessOf
    <3>2. \A d \in Clients \ {c} : client'[d] = client[d]
      BY <2>1, <2>4 DEF GotAnswer
    <3>3. QED
      BY <2>1, <3>1, <3>2 DEF NoBinds
  <2>5. ASSUME UNCHANGED client PROVE NoBinds'
    BY <2>5 DEF NoBinds
  <2>6. ASSUME NEW c \in Clients, NEW fd \in Fds, Accept(c, fd) PROVE UNCHANGED client
    BY <2>6 DEF Accept
  <2>7. ASSUME NEW fd \in Fds, Serve(fd) PROVE UNCHANGED client
    BY <2>7 DEF Serve, ReadPart, ReadCommand, ReadEnd
  <2>8. CASE UNCHANGED vars
    BY <2>5, <2>8 DEF vars
  <2>9. QED
    BY <2>2, <2>3, <2>4, <2>5, <2>6, <2>7, <2>8 DEF Next
<1>3. Spec => []IInv
  BY Invariance
<1>4. QED
  BY <1>1, <1>2, <1>3, PTL DEF Spec

(* A client that has its SS_ACK for a bind, and has not closed the channel *)
(* since, gets the packets of that hash into that channel: no command of   *)
(* another client and no connection that ends takes the hash away          *)
(* (SharedServer.cpp, bindChan and closeChan).                             *)
THEOREM AcknowledgedStaysBound == ChecksReplies => (Spec => []AckedMeansBound)
<1> SUFFICES ASSUME ChecksReplies PROVE Spec => []AckedMeansBound
  OBVIOUS
<1>1. ASSUME BInv, NoBinds PROVE AckedMeansBound
  <2> SUFFICES ASSUME NEW c \in Clients, client[c].st = "open", NEW b \in client[c].binds
               PROVE  /\ b[2] \in DOMAIN ctxHash /\ ctxHash[b[2]] = b[1]
                      /\ SendsTo(b[2]) = IF dir[b[1]] = "write" THEN {b[1]} ELSE {}
    BY DEF AckedMeansBound
  <2>1. c \in Honest
    BY <1>1 DEF NoBinds, Honest
  <2>2. Bound(b[1], b[2])
    BY <1>1, <2>1 DEF BInv, Served, Knows
  <2>3. b[2] \in DOMAIN ctxHash /\ ctxHash[b[2]] = b[1]
    BY <2>2 DEF Bound
  <2>4. CASE dir[b[1]] = "write"
    BY <2>3, <2>4 DEF SendsTo
  <2>5. CASE dir[b[1]] # "write"
    BY <2>3, <2>5 DEF SendsTo
  <2>6. QED
    BY <2>3, <2>4, <2>5
<1>2. Spec => []BInv
  BY BindingsInvariance
<1>3. QED
  BY <1>1, <1>2, StrangersBindNothing, PTL

(* Of a client that waits one command or one answer is on the way, of one  *)
(* that does not wait none: no command is answered twice, or by the answer *)
(* to another (SharedClient.cpp, waitAck).                                 *)
THEOREM OneAnswerEach == ChecksReplies => (Spec => []OneReply)
<1> SUFFICES ASSUME ChecksReplies PROVE Spec => []OneReply
  OBVIOUS
<1>1. ASSUME BInv PROVE OneReply
  <2> SUFFICES ASSUME NEW c \in Honest, client[c].st = "open"
               PROVE  Len(up[c]) + Len(down[c]) = IF client[c].await = None THEN 0 ELSE 1
    BY DEF OneReply, Honest
  <2>1. OneWay(c)
    BY <1>1 DEF BInv, Served
  <2>2. Len(<< >>) = 0
    OBVIOUS
  <2>3. ASSUME NEW e PROVE Len(<<e>>) = 1
    OBVIOUS
  <2>4. CASE client[c].await = None /\ up[c] = << >> /\ down[c] = << >>
    BY <2>2, <2>4
  <2>5. CASE client[c].await # None /\ up[c] = <<client[c].await>> /\ down[c] = << >>
    <3>1. Len(up[c]) = 1 /\ Len(down[c]) = 0
      BY <2>2, <2>3, <2>5
    <3>2. QED
      BY <2>5, <3>1
  <2>6. CASE client[c].await # None /\ up[c] = << >> /\ down[c] = <<down[c][1]>>
    <3>1. PICK e : e = down[c][1]
      OBVIOUS
    <3>2. Len(up[c]) = 0 /\ Len(down[c]) = 1
      BY <2>2, <2>3, <2>6, <3>1
    <3>3. QED
      BY <2>6, <3>2
  <2>7. QED
    BY <2>1, <2>4, <2>5, <2>6 DEF OneWay
<1>2. Spec => []BInv
  BY BindingsInvariance
<1>3. QED
  BY <1>1, <1>2, PTL

(* Where clients bind a channel to one hash, no hash leads to a channel    *)
(* that has been closed (SharedServer.cpp, closeChan).                     *)
THEOREM ClosedTakesHashes == ChecksReplies /\ OneBind => (Spec => []ClosedIsUnbound)
<1> SUFFICES ASSUME ChecksReplies, OneBind PROVE Spec => []ClosedIsUnbound
  OBVIOUS
<1>1. BInv => ClosedIsUnbound
  BY DEF BInv, Kept, ClosedIsUnbound
<1>2. Spec => []BInv
  BY BindingsInvariance
<1>3. QED
  BY <1>1, <1>2, PTL

(* Where every client keeps to the protocol, none that goes away makes a   *)
(* write of the server fail: no SIGPIPE ends the program, and start() does *)
(* not use the entry that closeConnection() has erased.                    *)
THEOREM LeavingHarmsNobody == ChecksReplies /\ Strangers = {} => (Spec => []CleanServer)
<1> SUFFICES ASSUME ChecksReplies, Strangers = {} PROVE Spec => []CleanServer
  OBVIOUS
<1>1. BInv => CleanServer
  BY DEF BInv
<1>2. Spec => []BInv
  BY BindingsInvariance
<1>3. QED
  BY <1>1, <1>2, PTL
==============================================================================
