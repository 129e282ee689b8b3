------------------------------- MODULE Router -------------------------------
(***************************************************************************)
(* The connections between two nodes that are neighbors of each other.     *)
(* Each runs the router's event loop: a timer dials a neighbor that is     *)
(* disconnected, both sides send a handshake as soon as the connection is  *)
(* made, and the side that reads one remembers the connection as the       *)
(* stream its packets to the neighbor go out on.  An action is one         *)
(* callback of the loop.                                                   *)
(*                                                                         *)
(* A connection has an end on each node, with what the other side wrote    *)
(* and this side has not read.                                             *)
(*                                                                         *)
(* Below it is how router_read puts the packets of a neighbor together     *)
(* from the pieces in which TCP delivers them.  A packet is a header,      *)
(* which holds the length of the content, and the content; a piece may end *)
(* anywhere.  router_read calls itself with what is left of a piece: a     *)
(* step is one call.                                                       *)
(***************************************************************************)
EXTENDS Naturals, FiniteSets, Sequences, SequencesExt

CONSTANTS
    Nodes,        \* the two nodes
    MaxConns, MaxInbox, MaxLinkFails, MaxRestarts, MaxResets,
    Header,       \* HEADER_BYTES_LENGTH
    Lengths,      \* of contents
    MaxPackets,
    MaxPiece      \* what libuv offers for one read

ASSUME RouterAssumption ==
    /\ Cardinality(Nodes) = 2
    /\ MaxConns \in Nat \ {0} /\ {MaxInbox, MaxLinkFails, MaxRestarts, MaxResets} \subseteq Nat

ASSUME PacketReaderAssumption ==
    /\ Header \in Nat \ {0} /\ Lengths \subseteq Nat \ {0} /\ Lengths # {}
    /\ MaxPackets \in Nat /\ MaxPiece \in Nat \ {0}

VARIABLES
    dialers,  \* the nodes whose attempts to connect can get through
    calm,     \* no read returns a handshake with what follows it, and the timer
              \* does not fire with an attempt still pending
    state,    \* neighbor.state of the neighbor, on each node
    stream,   \* neighbor.endpoint.stream, 0 for NULL
    end,      \* the handle of a connection on a node
    data,     \* whether the handle's data is the neighbor
    inbox,    \* what the handle has to read
    linkFails, restarts, resets

network == <<dialers, calm>>
links == <<state, stream>>
handles == <<end, data, inbox>>
linkBounds == <<linkFails, restarts, resets>>
routerVars == <<network, links, handles, linkBounds>>

Conns == 1..MaxConns
ConnEnds == Conns \X Nodes

Peer(n) == CHOOSE m \in Nodes : m # n

RouterInit ==
    /\ dialers \in SUBSET Nodes \ {{}}
    /\ calm \in BOOLEAN
    /\ state = [n \in Nodes |-> "disconnected"]
    /\ stream = [n \in Nodes |-> 0]
    /\ end = [e \in ConnEnds |-> "none"]
    /\ data = [e \in ConnEnds |-> FALSE]
    /\ inbox = [e \in ConnEnds |-> <<>>]
    /\ linkFails = 0 /\ restarts = 0 /\ resets = 0
-----------------------------------------------------------------------------
(* What the operating system does with a connection.                       *)

\* A number that no handle and no stream refers to.
Free(c) == \A n \in Nodes : end[c, n] = "none" /\ stream[n] # c

\* Nothing can be read after an end or an error.
Over(q) == q # <<>> /\ Last(q) \in {"eof", "reset"}

Write(c, n, msg) ==
    inbox' = IF end[c, Peer(n)] \in {"none", "closed"} \/ Over(inbox[c, Peer(n)])
             THEN inbox
             ELSE [inbox EXCEPT ![c, Peer(n)] = Append(@, msg)]

\* uv_close: the other side reads on to the end, if it is still there.
Close(c, n) ==
    /\ IF end[c, Peer(n)] = "closed"
       THEN /\ end' = [end EXCEPT ![c, n] = "none", ![c, Peer(n)] = "none"]
            /\ inbox' = [inbox EXCEPT ![c, n] = <<>>]
       ELSE /\ end' = [end EXCEPT ![c, n] = "closed"]
            /\ inbox' = [inbox EXCEPT ![c, n] = <<>>,
                            ![c, Peer(n)] = IF Over(@) THEN @ ELSE Append(@, "eof")]
    /\ data' = [data EXCEPT ![c, n] = FALSE]

\* The network gives up on a connection: both sides get a read error.
Reset(c) ==
    /\ resets < MaxResets
    /\ resets' = resets + 1
    /\ \A n \in Nodes : end[c, n] = "open"
    /\ inbox' = [e \in ConnEnds |-> IF e[1] = c THEN <<"reset">> ELSE inbox[e]]
    /\ UNCHANGED <<network, links, end, data, linkFails, restarts>>

\* A node is stopped and started again.  Its own attempts are gone, and so
\* are its handles; an attempt of the peer that has not been answered goes on.
Restart(n) ==
    /\ restarts < MaxRestarts
    /\ restarts' = restarts + 1
    /\ \A c \in Conns : end[c, n] = "backlog" => end[c, Peer(n)] = "pending"
    /\ state' = [state EXCEPT ![n] = "disconnected"]
    /\ stream' = [stream EXCEPT ![n] = 0]
    /\ LET Gone(c) == end[c, n] = "pending" /\ end[c, Peer(n)] = "backlog"
           Shut(c) == end[c, n] \in {"pending", "open"} /\ ~Gone(c)
           Both(c) == Shut(c) /\ end[c, Peer(n)] = "closed"
       IN  /\ end' = [e \in ConnEnds |->
                        CASE Gone(e[1]) \/ Both(e[1]) -> "none"
                          [] Shut(e[1]) /\ ~Both(e[1]) /\ e[2] = n -> "closed"
                          [] OTHER -> end[e]]
           /\ inbox' = [e \in ConnEnds |->
                        CASE e[2] = n \/ Gone(e[1]) \/ Both(e[1]) -> <<>>
                          [] Shut(e[1]) /\ ~Both(e[1]) /\ e[2] # n /\ ~Over(inbox[e]) ->
                                Append(inbox[e], "eof")
                          [] OTHER -> inbox[e]]
    /\ data' = [e \in ConnEnds |-> IF e[2] = n THEN FALSE ELSE data[e]]
    /\ UNCHANGED <<network, linkFails, resets>>
-----------------------------------------------------------------------------
(* router_reconnect_attempt and router_connect                             *)

Pending(n) == {c \in Conns : end[c, n] = "pending"}

Connect(n, c) ==
    /\ end' = [end EXCEPT ![c, n] = "pending", ![c, Peer(n)] = "backlog"]
    /\ data' = [data EXCEPT ![c, n] = TRUE]

Reconnect(n) ==
    /\ state[n] = "disconnected" /\ stream[n] = 0
    /\ ~calm \/ Pending(n) = {}
    /\ LET free == {c \in Conns : Free(c)}
       IN  free # {} /\ Connect(n, Min(free))
    /\ UNCHANGED <<network, links, inbox, linkBounds>>

\* router_on_connect with an error
ConnectFails(n, c) ==
    /\ end[c, n] = "pending" /\ end[c, Peer(n)] = "backlog"
    /\ n \in dialers => linkFails < MaxLinkFails
    /\ linkFails' = IF n \in dialers THEN linkFails + 1 ELSE linkFails
    /\ end' = [end EXCEPT ![c, n] = "none", ![c, Peer(n)] = "none"]
    /\ data' = [data EXCEPT ![c, n] = FALSE]
    /\ UNCHANGED <<network, links, inbox, restarts, resets>>

\* router_on_connect
OnConnect(n, c) ==
    /\ end[c, n] = "pending"
    /\ n \in dialers
    /\ state' = [state EXCEPT ![n] = "handshaking"]
    /\ Write(c, n, "handshake")
    /\ end' = [end EXCEPT ![c, n] = "open"]
    /\ UNCHANGED <<network, stream, data, linkBounds>>

\* router_on_new_connection
OnNewConnection(n, c) ==
    /\ end[c, n] = "backlog"
    /\ Peer(n) \in dialers
    /\ Write(c, n, "handshake")
    /\ end' = [end EXCEPT ![c, n] = "open"]
    /\ data' = [data EXCEPT ![c, n] = FALSE]
    /\ UNCHANGED <<network, links, linkBounds>>
-----------------------------------------------------------------------------
(* router_on_read                                                          *)

Readable(n, c) == end[c, n] = "open" /\ inbox[c, n] # <<>>

\* A faulty variant of OnReadEnd: keeps the stream.
OnReadEndKeep(n, c) ==
    /\ Readable(n, c)
    /\ Head(inbox[c, n]) = "eof"
    /\ state' = IF data[c, n] THEN [state EXCEPT ![n] = "disconnected"] ELSE state
    /\ Close(c, n)
    /\ UNCHANGED <<network, stream, linkBounds>>

\* The end of the stream: the neighbor counts as disconnected, whichever of
\* its connections this one is.
OnReadEnd(n, c) ==
    /\ Readable(n, c)
    /\ Head(inbox[c, n]) = "eof"
    /\ state' = IF data[c, n] THEN [state EXCEPT ![n] = "disconnected"] ELSE state
    /\ stream' = IF data[c, n] THEN [stream EXCEPT ![n] = 0] ELSE stream
    /\ Close(c, n)
    /\ UNCHANGED <<network, linkBounds>>

\* Any other error.
OnReadError(n, c) ==
    /\ Readable(n, c)
    /\ Head(inbox[c, n]) = "reset"
    /\ Close(c, n)
    /\ UNCHANGED <<network, links, linkBounds>>

IsMessage(m) == m \in {"handshake", "gossip"}

\* The first k messages are read in one piece.
Chunk(n, c, k) ==
    /\ Readable(n, c)
    /\ k <= Len(inbox[c, n])
    /\ \A i \in 1..k : IsMessage(inbox[c, n][i])
    /\ k > 1 => ~calm \/ inbox[c, n][1] # "handshake"

Consume(n, c, k) ==
    inbox' = [inbox EXCEPT ![c, n] = SubSeq(@, k + 1, Len(@))]

Handshaking(n, c) == ~data[c, n] \/ state[n] = "handshaking"

\* router_read_handshake of a neighbor with the same settings
HandshakeOk(n, c, k) == k = 1 /\ inbox[c, n][1] = "handshake" /\ stream[n] = 0

OnReadHandshake(n, c) ==
    \E k \in 1..MaxInbox :
        /\ Chunk(n, c, k)
        /\ Handshaking(n, c)
        /\ IF HandshakeOk(n, c, k)
           THEN /\ data' = [data EXCEPT ![c, n] = TRUE]
                /\ stream' = [stream EXCEPT ![n] = c]
                /\ state' = [state EXCEPT ![n] = "ready"]
                /\ Consume(n, c, k)
                /\ UNCHANGED end
           ELSE Close(c, n) /\ UNCHANGED links
        /\ UNCHANGED <<network, linkBounds>>

\* router_read, which has nothing to do for a handshake
OnReadPackets(n, c) ==
    \E k \in 1..MaxInbox :
        /\ Chunk(n, c, k)
        /\ ~Handshaking(n, c)
        /\ Consume(n, c, k)
        /\ UNCHANGED <<network, links, end, data, linkBounds>>

Read(n, c) ==
    /\ Readable(n, c)
    /\ OnReadEnd(n, c) \/ OnReadError(n, c) \/ OnReadHandshake(n, c) \/ OnReadPackets(n, c)

\* neighbor_send_packet and router_on_async_write; nothing comes of a write
\* to a handle that is closed.
SendPacket(n) ==
    /\ stream[n] # 0
    /\ end[stream[n], n] = "open"
    /\ Len(inbox[stream[n], Peer(n)]) < MaxInbox
    /\ Write(stream[n], n, "gossip")
    /\ UNCHANGED <<network, links, end, data, linkBounds>>
-----------------------------------------------------------------------------
RouterNext ==
    \E n \in Nodes :
        \/ Reconnect(n) \/ SendPacket(n) \/ Restart(n)
        \/ \E c \in Conns :
             \/ ConnectFails(n, c) \/ OnConnect(n, c) \/ OnNewConnection(n, c)
             \/ Read(n, c) \/ Reset(c)

\* The timer and the event loop of a node keep running, and an attempt to
\* connect has an outcome.
RouterFairness ==
    \A n \in Nodes :
        /\ WF_routerVars(Reconnect(n))
        /\ \A c \in Conns :
             /\ WF_routerVars(OnConnect(n, c) \/ ConnectFails(n, c))
             /\ WF_routerVars(OnNewConnection(n, c))
             /\ WF_routerVars(Read(n, c))

-----------------------------------------------------------------------------
(* The packets of a neighbor.                                             *)

Longest == CHOOSE l \in Lengths : \A k \in Lengths : k <= l

\* PACKET_MAX_BYTES_LENGTH
Capacity == Header + Longest

VARIABLES
    packets,    \* the lengths of the packets the neighbor sends
    wire,       \* their bytes that have not been read
    piece,      \* what is left of the piece that router_read works on
    buffer,     \* neighbor.buffer
    handed      \* the packets given to the processor

readerVars == <<packets, wire, piece, buffer, handed>>

\* The bytes of the p-th packet: a byte knows where it belongs.
Bytes(p) == [i \in 1..(Header + packets[p]) |-> <<p, i>>]

AllBytes(ps) == FoldLeft(LAMBDA acc, p : acc \o Bytes(p), <<>>, ps)

ReaderInit ==
    /\ packets \in UNION {[1..n -> Lengths] : n \in 1..MaxPackets}
    /\ wire = AllBytes([p \in DOMAIN packets |-> p])
    /\ piece = <<>> /\ buffer = <<>> /\ handed = <<>>

\* router_on_read: TCP delivers any number of bytes.
OnRead ==
    /\ piece = <<>>
    /\ \E k \in 1..MaxPiece :
         /\ k <= Len(wire)
         /\ piece' = SubSeq(wire, 1, k)
         /\ wire' = SubSeq(wire, k + 1, Len(wire))
    /\ UNCHANGED <<packets, buffer, handed>>

SmallerOf(a, b) == IF a < b THEN a ELSE b

\* What still fits into the buffer.
Room(buf) == Capacity - Len(buf)

\* The packet at the front of a buffer, as its header describes it.
PacketAt(buf) == buf[1][1]
IsWhole(buf) == Len(buf) > Header /\ Len(buf) - Header >= packets[PacketAt(buf)]

\* A faulty variant of HandOver: what follows the packet is dropped.
HandOverOnly(buf, rest) ==
    /\ handed' = Append(handed, PacketAt(buf))
    /\ buffer' = <<>>
    /\ piece' = rest

HandOver(buf, rest) ==
    /\ handed' = Append(handed, PacketAt(buf))
    /\ buffer' = SubSeq(buf, Header + packets[PacketAt(buf)] + 1, Len(buf))
    /\ piece' = rest

\* One call of router_read.  A call without a whole packet in the buffer
\* returns, and so does the call that has taken the last of the piece.
RouterRead ==
    /\ piece # <<>>
    /\ LET n    == SmallerOf(Room(buffer), Len(piece))
           buf  == buffer \o SubSeq(piece, 1, n)
           rest == SubSeq(piece, n + 1, Len(piece))
       IN  IF IsWhole(buf)
           THEN HandOver(buf, rest)
           ELSE buffer' = buf /\ piece' = <<>> /\ UNCHANGED handed
    /\ UNCHANGED <<packets, wire>>

ReaderNext == OnRead \/ RouterRead

-----------------------------------------------------------------------------
\* A neighbor that is ready for messages has a stream to send them on.
ReadyHasStream == \A n \in Nodes : state[n] = "ready" => stream[n] # 0

IsUp(c) == \A n \in Nodes : end[c, n] = "open"

\* One of the nodes dials, and nothing else gets in the way.
OneDials == Cardinality(dialers) = 1 /\ calm

\* A node that has closed a handle no longer sends packets on it, as long as
\* one of the two dials and no connection is reset.
StreamIsOpen ==
    OneDials /\ resets = 0 =>
        \A n \in Nodes : stream[n] # 0 => end[stream[n], n] = "open"

Linked ==
    \E c \in Conns :
        IsUp(c) /\ \A n \in Nodes : stream[n] = c /\ state[n] = "ready"

\* router.h, router_reconnect_attempt: "Attempts to reconnect all disconnected
\* neighbors".  Once restarts and failures are over, two neighbors of which
\* one dials stay connected from some time on, if no connection is reset.
LinkComesUp == OneDials /\ [](resets = 0) => <>[]Linked

\* However the bytes are cut into pieces, the packets handed over and the
\* bytes still on their way are what was sent, in order: none is lost in the
\* part of a piece that did not fit into the buffer.
NothingIsLost ==
    AllBytes(handed) \o buffer \o piece \o wire = AllBytes([p \in DOMAIN packets |-> p])
=============================================================================
