-------------------------------- MODULE Mesh --------------------------------
(***************************************************************************)
(* The mesh nodes of several servers (mesh.cc) and the multicast group     *)
(* between them.                                                           *)
(*                                                                         *)
(* A server makes its node's id, joins the group and announces itself with *)
(* one frame; every node logs the ids in the frames it receives.  The      *)
(* network loses, duplicates and reorders datagrams, and carries those of  *)
(* foreign programs on the same port.                                      *)
(*                                                                         *)
(* A datagram is its size, the version in its first four bits, and the     *)
(* four words at offsets 4, 8, 12 and 16.  Words are numbers here: htonl   *)
(* and ntohl undo each other on every machine.                             *)
(***************************************************************************)
EXTENDS Uuid

CONSTANTS Nodes,    \* the servers
          Texts,    \* texts of ids, as Uuid::parse takes them
          Randoms,  \* what the random generator may yield, 16 bytes at a time
          Foreign   \* datagrams of other programs

FrameSize == 28
Datagrams == [size : Nat, version : Digit, words : Ids]

ASSUME MeshAssumption ==
    /\ \A text \in Texts : Parses(text)
    /\ \A r \in Randoms : \A k \in 1..16 : r[k] \in Byte
    /\ Foreign \subseteq Datagrams

None == << >>  \* no id

VARIABLES
    order,    \* per node, the byte order of its machine; never changes
    source,   \* per node, what its id is made of, a text or random bytes; never changes
    id,       \* per node, Node::_id; never changes
    state,    \* per node, how far Node::open is
    request,  \* per node, the uv_udp_send_t of the announcement
    air,      \* the datagrams that were sent
    heard,    \* per node, the id Frame::parse logged last, or None
    garbled   \* per node, whether that was for a receive error

vars == <<order, source, id, state, request, air, heard, garbled>>
machines == <<order, source, id>>

TypeOK ==
    /\ order \in [Nodes -> Orders]
    /\ source \in [Nodes -> Texts \cup Randoms]
    /\ id \in [Nodes -> Ids]
    /\ state \in [Nodes -> {"new", "joined", "open", "failed"}]
    /\ request \in [Nodes -> {"none", "queued", "sent", "freed", "leaked"}]
    /\ air \subseteq Datagrams
    /\ heard \in [Nodes -> Ids \cup {None}]
    /\ garbled \in [Nodes -> BOOLEAN]

\* Server::run makes the id of its node before it opens it.
MakeId(ord, src) == IF src \in Randoms THEN Make(ord, src) ELSE Parse(ord, src)

Init ==
    /\ order \in [Nodes -> Orders]
    /\ source \in [Nodes -> Texts \cup Randoms]
    /\ id = [n \in Nodes |-> MakeId(order[n], source[n])]
    /\ state = [n \in Nodes |-> "new"]
    /\ request = [n \in Nodes |-> "none"]
    /\ air = {}
    /\ heard = [n \in Nodes |-> None]
    /\ garbled = [n \in Nodes |-> FALSE]

-----------------------------------------------------------------------------
(***************************************************************************)
(* Frames.                                                                 *)
(***************************************************************************)

\* "are we little-endian?": the order of the four words is turned around, on
\* sending as on receiving.
Swapped(ord, u) == IF ord = "little" THEN <<u[4], u[3], u[2], u[1]>> ELSE u

\* The frame Node::send builds.
Announcement(n) == [size |-> FrameSize, version |-> 1, words |-> Swapped(order[n], id[n])]

\* When Frame::parse returns a frame.
Accepts(data) == data.size >= FrameSize /\ data.version = 1

\* A defect for the mutation check: the receiver does not turn the words back.
NodeOfStraight(n, data) == data.words

\* The id that Frame::parse finds and logs.
NodeOf(n, data) == Swapped(order[n], data.words)

-----------------------------------------------------------------------------
\* Node::open binds, joins the group and starts to receive.  If any of that
\* fails it returns false, and the server goes on without a node.
Open(n) ==
    /\ state[n] = "new"
    /\ \E s \in {"joined", "failed"} : state' = [state EXCEPT ![n] = s]
    /\ UNCHANGED <<machines, request, air, heard, garbled>>

\* Node::send, the last thing Node::open does.  If uv_udp_send fails, nothing
\* will ever free the request and its data.
Announce(n) ==
    /\ state[n] = "joined"
    /\ state' = [state EXCEPT ![n] = "open"]
    /\ \E r \in {"queued", "leaked"} : request' = [request EXCEPT ![n] = r]
    /\ UNCHANGED <<machines, air, heard, garbled>>

\* The frame goes out.
Transmit(n) ==
    /\ request[n] = "queued"
    /\ request' = [request EXCEPT ![n] = "sent"]
    /\ air' = air \cup {Announcement(n)}
    /\ UNCHANGED <<machines, state, heard, garbled>>

\* A defect for the mutation check: only the buffer is freed.
SendCbKeepsRequest(n) ==
    /\ request[n] = "sent"
    /\ request' = [request EXCEPT ![n] = "leaked"]
    /\ UNCHANGED <<machines, state, air, heard, garbled>>

\* send_cb frees the request and its data, whatever the status.
SendCb(n) ==
    /\ request[n] = "sent"
    /\ request' = [request EXCEPT ![n] = "freed"]
    /\ UNCHANGED <<machines, state, air, heard, garbled>>

Listening(n) == state[n] \in {"joined", "open"}

\* Frame::parse of what is in the buffer.
ParseFrame(n, data, error) ==
    /\ heard' = [heard EXCEPT ![n] = IF Accepts(data) THEN NodeOf(n, data) ELSE @]
    /\ garbled' = [garbled EXCEPT ![n] = IF Accepts(data) THEN error ELSE @]

\* recv_packet with nread > 0.  Any frame that was sent, and any foreign one,
\* arrives never, once or many times, and in any order; a node hears itself, too.
Receive(n) ==
    /\ Listening(n)
    /\ \E data \in air \cup Foreign : ParseFrame(n, data, FALSE)
    /\ UNCHANGED <<machines, state, request, air>>

\* recv_packet with nread < 0: as an unsigned size it is large enough for any
\* frame, so whatever malloc left in the buffer is parsed.
ReceiveError(n) ==
    /\ Listening(n)
    /\ \E data \in Foreign : ParseFrame(n, [data EXCEPT !.size = FrameSize], TRUE)
    /\ UNCHANGED <<machines, state, request, air>>

\* What a server does by itself, one thing after the other.
Step(n) == Open(n) \/ Announce(n) \/ Transmit(n) \/ SendCb(n)

Next == \E n \in Nodes : Step(n) \/ Receive(n) \/ ReceiveError(n)

\* The server's thread runs, and its loop sends what is queued and calls back.
\* The network owes nothing.
Fairness == \A n \in Nodes : WF_vars(Step(n))

Spec == Init /\ [][Next]_vars
FairSpec == Spec /\ Fairness

-----------------------------------------------------------------------------
(***************************************************************************)
(* Properties.                                                             *)
(***************************************************************************)

\* The machines have one byte order, and the last id in the log of n does not stem
\* from a receive error.
Undisturbed(n) == ~garbled[n] /\ \A m \in Nodes : order[m] = order[n]

\* Between machines of one byte order, the id a node logs is the very id of a
\* node, whose announcement has left it, or was in a foreign frame: words are not
\* mixed up on the way from one log to the other, and nothing is made of datagrams
\* that are too short or of another version.  Nothing is said of an id that was
\* logged because of a receive error, and nothing of machines whose byte orders
\* differ: there the words arrive turned around.
HeardWasSent ==
    \A n \in Nodes : heard[n] # None /\ Undisturbed(n) =>
        \/ \E m \in Nodes : heard[n] = id[m] /\ request[m] \in {"sent", "freed"}
        \/ \E data \in Foreign : /\ data.size >= FrameSize /\ data.version = 1
                                  /\ heard[n] = Swapped(order[n], data.words)

\* On a little-endian machine an id prints as the bytes it was parsed from, and
\* as the very text if that had its dashes; what is printed is accepted and
\* parses to the same id.  So the blocks are read in the order they are written,
\* whatever dashes are missing and whatever follows the last byte.
PrintsBack ==
    \A n \in Nodes : order[n] = "little" =>
        /\ source[n] \notin Randoms =>
              /\ BytesOf(Output(id[n])) = BytesOf(source[n])
              /\ Dashed(source[n]) => \A p \in 1..36 : Output(id[n])[p] = source[n][p]
        /\ Parses(Output(id[n]))
        /\ Parse(order[n], Output(id[n])) = id[n]

\* An id made at random prints as a version 4 id of RFC 4122 on little-endian
\* machines: the third group begins with 4, the fourth with 8, 9, A or B.
MadeIdsAreVersion4 ==
    \A n \in Nodes : order[n] = "little" /\ source[n] \in Randoms =>
        Output(id[n])[15] = 4 /\ Output(id[n])[20] \in 8..11

\* The announcement's request and data are freed, unless libuv refused to send.
RequestReleased ==
    \A n \in Nodes : state[n] = "open" /\ request[n] # "leaked" ~> request[n] = "freed"
=============================================================================
