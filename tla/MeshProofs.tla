----------------------------- MODULE MeshProofs -----------------------------
(***************************************************************************)
(* Theorems about Mesh, for any set of nodes, texts, random bytes and      *)
(* foreign datagrams.                                                      *)
(***************************************************************************)
EXTENDS Mesh, UuidProofs

\* Every node has an id.
LEMMA MadeIsId ==
    ASSUME NEW ord \in Orders, NEW src \in Texts \cup Randoms
    PROVE  MakeId(ord, src) \in Ids
  BY MakeIsId, ParseIsId, MeshAssumption DEF MakeId

\* Turning the words around twice is turning them not at all.
LEMMA SwapTwice ==
    ASSUME NEW ord \in Orders, NEW u \in Ids
    PROVE  Swapped(ord, u) \in Ids /\ Swapped(ord, Swapped(ord, u)) = u
  <1>1. u = <<u[1], u[2], u[3], u[4]>>  BY DEF Ids
  <1>2. u[1] \in Word /\ u[2] \in Word /\ u[3] \in Word /\ u[4] \in Word  BY DEF Ids
  <1>3. Swapped(ord, u) \in Ids  BY <1>2 DEF Swapped, Ids
  <1>4. Swapped(ord, Swapped(ord, u)) = u
    <2>1. CASE ord = "little"
      <3> DEFINE v == <<u[4], u[3], u[2], u[1]>>
      <3>1. Swapped(ord, u) = v  BY <2>1 DEF Swapped
      <3>2. Swapped(ord, v) = <<v[4], v[3], v[2], v[1]>>  BY <2>1 DEF Swapped
      <3>3. v[4] = u[1] /\ v[3] = u[2] /\ v[2] = u[3] /\ v[1] = u[4]  OBVIOUS
      <3> QED  BY <3>1, <3>2, <3>3, <1>1
    <2>2. CASE ord # "little"  BY <2>2 DEF Swapped
    <2> QED  BY <2>1, <2>2
  <1> QED  BY <1>3, <1>4

-----------------------------------------------------------------------------
\* The frames of which nodes have been sent.
Sent == {m \in Nodes : request[m] \in {"sent", "freed"}}

\* Every frame in the air was made by Node::send, of a node that sent it.
AirIsAnnounced == \A d \in air : \E m \in Sent : d = Announcement(m)

\* There is no announcement before Node::send.
Silent == \A n \in Nodes : state[n] \in {"new", "joined"} => request[n] = "none"

IInv == TypeOK /\ Silent /\ AirIsAnnounced /\ HeardWasSent

\* What a node sends is a frame.
LEMMA AnnouncementType ==
    ASSUME TypeOK, NEW n \in Nodes
    PROVE  Announcement(n) \in Datagrams
  <1>1. Swapped(order[n], id[n]) \in Ids  BY SwapTwice DEF TypeOK
  <1> QED  BY <1>1 DEF Announcement, Datagrams, FrameSize, Digit

\* A node's frame is logged as its id by a machine of the same byte order.
LEMMA FrameFromNode ==
    ASSUME TypeOK, AirIsAnnounced, NEW n \in Nodes, NEW data \in air,
           \A m \in Nodes : order[m] = order[n]
    PROVE  \E m \in Sent : NodeOf(n, data) = id[m]
  <1>1. PICK m \in Sent : data = Announcement(m)  BY DEF AirIsAnnounced
  <1>2. m \in Nodes  BY DEF Sent
  <1>3. NodeOf(n, data) = Swapped(order[n], Swapped(order[n], id[m]))
    BY <1>1, <1>2 DEF NodeOf, Announcement
  <1>4. order[n] \in Orders /\ id[m] \in Ids  BY <1>2 DEF TypeOK
  <1> QED  BY <1>3, <1>4, SwapTwice

\* Parsing a frame gives an id.
LEMMA NodeOfType ==
    ASSUME TypeOK, NEW n \in Nodes, NEW data \in Datagrams
    PROVE  NodeOf(n, data) \in Ids
  BY SwapTwice DEF NodeOf, Datagrams, TypeOK

\* The invariant holds before any node is opened.
LEMMA InitInv == Init => IInv
  <1> SUFFICES ASSUME Init  PROVE IInv
    OBVIOUS
  <1>1. id \in [Nodes -> Ids]
    <2>1. \A n \in Nodes : MakeId(order[n], source[n]) \in Ids  BY MadeIsId DEF Init
    <2> QED  BY <2>1 DEF Init
  <1>2. TypeOK  BY <1>1 DEF Init, TypeOK
  <1>3. AirIsAnnounced  BY DEF Init, AirIsAnnounced
  <1>4. HeardWasSent  BY DEF Init, HeardWasSent
  <1>5. Silent  BY DEF Init, Silent
  <1> QED  BY <1>2, <1>3, <1>4, <1>5 DEF IInv

\* A server's own steps change neither its logs nor what ids are made of.
LEMMA StepInv ==
    ASSUME IInv, NEW n \in Nodes, Step(n)
    PROVE  IInv'
  <1>1. UNCHANGED <<machines, heard, garbled>>
    BY DEF Step, Open, Announce, Transmit, SendCb
  <1>2. air' = air \/ air' = air \cup {Announcement(n)}
    BY DEF Step, Open, Announce, Transmit, SendCb
  <1>3. \A m \in Nodes : Announcement(m)' = Announcement(m)
    BY <1>1 DEF machines, Announcement
  <1>4. air' \subseteq Datagrams  BY <1>2, AnnouncementType DEF IInv, TypeOK
  <1>5. TypeOK'
    <2>1. state' \in [Nodes -> {"new", "joined", "open", "failed"}]
      BY DEF IInv, TypeOK, Step, Open, Announce, Transmit, SendCb
    <2>2. request' \in [Nodes -> {"none", "queued", "sent", "freed", "leaked"}]
      BY DEF IInv, TypeOK, Step, Open, Announce, Transmit, SendCb
    <2> QED  BY <1>1, <1>4, <2>1, <2>2 DEF IInv, TypeOK, machines
  <1>6. Silent'
    BY DEF IInv, Silent, TypeOK, Step, Open, Announce, Transmit, SendCb
  <1>7. Sent \subseteq Sent'
    <2>1. n \in Sent => Transmit(n) \/ SendCb(n) \/ request' = request
      BY DEF IInv, Silent, Sent, Step, Open, Announce, Transmit, SendCb
    <2>2. \A m \in Nodes : m # n => request'[m] = request[m]
      BY DEF IInv, TypeOK, Step, Open, Announce, Transmit, SendCb
    <2>3. n \in Sent => request'[n] \in {"sent", "freed"}
      BY <2>1 DEF IInv, TypeOK, Sent, Transmit, SendCb
    <2> QED  BY <2>2, <2>3 DEF Sent
  <1>8. AirIsAnnounced'
    <2>1. air' # air => n \in Sent'
      BY DEF IInv, TypeOK, Sent, Step, Open, Announce, Transmit, SendCb
    <2>2. \A m \in Sent : m \in Nodes  BY DEF Sent
    <2>3. \A d \in air : \E m \in Sent' : d = Announcement(m)'
      BY <1>3, <1>7, <2>2 DEF IInv, AirIsAnnounced
    <2> QED  BY <1>2, <1>3, <2>1, <2>3 DEF AirIsAnnounced
  <1>9. HeardWasSent'
    <2> SUFFICES ASSUME NEW m \in Nodes, heard'[m] # None, Undisturbed(m)'
                 PROVE  \/ \E k \in Nodes : heard'[m] = id'[k] /\ request'[k] \in {"sent", "freed"}
                        \/ \E data \in Foreign : /\ data.size >= FrameSize /\ data.version = 1
                                                  /\ heard'[m] = Swapped(order'[m], data.words)
      BY DEF HeardWasSent
    <2>1. Undisturbed(m)  BY <1>1 DEF Undisturbed, machines
    <2> QED  BY <1>1, <1>7, <2>1 DEF IInv, HeardWasSent, Sent, machines
  <1> QED  BY <1>5, <1>6, <1>8, <1>9 DEF IInv

\* Reading a datagram logs nothing that nobody sent.
LEMMA ReadInv ==
    ASSUME IInv, NEW n \in Nodes, NEW data \in Datagrams, NEW error \in BOOLEAN,
           ParseFrame(n, data, error), UNCHANGED <<machines, state, request, air>>,
           error \/ data \in air \cup Foreign
    PROVE  IInv'
  <1> USE DEF IInv
  <1>1. TypeOK'
    <2>1. \A m \in Nodes : heard'[m] \in Ids \cup {None}
      BY NodeOfType DEF ParseFrame, TypeOK
    <2>2. heard' = [heard EXCEPT ![n] = IF Accepts(data) THEN NodeOf(n, data) ELSE @]
      BY DEF ParseFrame
    <2>3. garbled' \in [Nodes -> BOOLEAN]  BY DEF ParseFrame, TypeOK
    <2> QED  BY <2>1, <2>2, <2>3 DEF TypeOK, machines
  <1>2. AirIsAnnounced' /\ Silent'
    BY DEF AirIsAnnounced, Silent, Sent, Announcement, machines
  <1>3. HeardWasSent'
    <2>1. /\ heard' = [heard EXCEPT ![n] = IF Accepts(data) THEN NodeOf(n, data) ELSE @]
          /\ garbled' = [garbled EXCEPT ![n] = IF Accepts(data) THEN error ELSE @]
          /\ UNCHANGED <<order, id, request>>
      BY DEF ParseFrame, machines
    <2>2. \A m \in Nodes :
             \/ heard'[m] = heard[m] /\ garbled'[m] = garbled[m]
             \/ /\ m = n /\ Accepts(data)
                /\ heard'[m] = NodeOf(n, data) /\ garbled'[m] = error
      BY <2>1 DEF TypeOK
    <2> SUFFICES ASSUME NEW m \in Nodes, heard'[m] # None, Undisturbed(m)'
                 PROVE  \/ \E k \in Nodes : heard'[m] = id[k] /\ request[k] \in {"sent", "freed"}
                        \/ \E d \in Foreign : /\ d.size >= FrameSize /\ d.version = 1
                                               /\ heard'[m] = Swapped(order[m], d.words)
      BY <2>1 DEF HeardWasSent
    <2>3. ~garbled'[m] /\ \A k \in Nodes : order[k] = order[m]
      BY <2>1 DEF Undisturbed
    <2>4. CASE heard'[m] = heard[m] /\ garbled'[m] = garbled[m]
      BY <2>3, <2>4 DEF HeardWasSent, Undisturbed
    <2>5. CASE /\ m = n /\ Accepts(data)
               /\ heard'[m] = NodeOf(n, data) /\ garbled'[m] = error
      <3>1. CASE data \in air
        BY <2>3, <2>5, <3>1, FrameFromNode DEF Sent
      <3>2. CASE data \in Foreign
        BY <2>5, <3>2 DEF Accepts, NodeOf
      <3> QED  BY <2>3, <2>5, <3>1, <3>2
    <2> QED  BY <2>2, <2>4, <2>5
  <1> QED  BY <1>1, <1>2, <1>3

\* No step breaks the invariant.
LEMMA NextInv == IInv /\ [Next]_vars => IInv'
  <1> SUFFICES ASSUME IInv, [Next]_vars  PROVE IInv'
    OBVIOUS
  <1>1. CASE UNCHANGED vars
    BY <1>1 DEF IInv, TypeOK, AirIsAnnounced, Silent, Sent, HeardWasSent, Undisturbed,
       Announcement, machines, vars
  <1>2. ASSUME NEW n \in Nodes, Step(n)  PROVE IInv'
    BY <1>2, StepInv
  <1>3. ASSUME NEW n \in Nodes, Receive(n)  PROVE IInv'
    <2>1. PICK data \in air \cup Foreign : ParseFrame(n, data, FALSE)  BY <1>3 DEF Receive
    <2>2. data \in Datagrams  BY MeshAssumption DEF IInv, TypeOK
    <2>3. UNCHANGED <<machines, state, request, air>>  BY <1>3 DEF Receive
    <2> QED  BY <2>1, <2>2, <2>3, ReadInv
  <1>4. ASSUME NEW n \in Nodes, ReceiveError(n)  PROVE IInv'
    <2>1. PICK data \in Foreign : ParseFrame(n, [data EXCEPT !.size = FrameSize], TRUE)
      BY <1>4 DEF ReceiveError
    <2>2. [data EXCEPT !.size = FrameSize] \in Datagrams
      BY MeshAssumption DEF Datagrams, FrameSize
    <2>3. UNCHANGED <<machines, state, request, air>>  BY <1>4 DEF ReceiveError
    <2> QED  BY <2>1, <2>2, <2>3, ReadInv
  <1> QED  BY <1>1, <1>2, <1>3, <1>4 DEF Next

\* So the invariant holds in every behaviour.
LEMMA Invariance == Spec => []IInv
  <1> QED  BY InitInv, NextInv, PTL DEF Spec

\* The model is type correct: in particular Uuid::make and Uuid::parse only
\* return ids, and turning words around makes no other kind of value.
THEOREM TypeCorrect == Spec => []TypeOK
  <1>1. IInv => TypeOK  BY DEF IInv
  <1> QED  BY <1>1, Invariance, PTL

\* Whatever is lost, duplicated or reordered, a node logs the very ids of nodes
\* that have announced themselves (mesh.cc:208 undoes mesh.cc:122), apart from
\* foreign frames; what it logs for a receive error (mesh.cc:23), and machines whose
\* byte orders differ, are exempt.
THEOREM HeardSent == Spec => []HeardWasSent
  <1>1. IInv => HeardWasSent  BY DEF IInv
  <1> QED  BY <1>1, Invariance, PTL

-----------------------------------------------------------------------------
\* Every node keeps the id it made when its server started.
MadeOnce ==
    /\ order \in [Nodes -> Orders] /\ source \in [Nodes -> Texts \cup Randoms]
    /\ id = [n \in Nodes |-> MakeId(order[n], source[n])]

\* In every behaviour a node keeps the id it was opened with.
LEMMA IdsKept == Spec => []MadeOnce
  <1>1. Init => MadeOnce
    BY DEF Init, MadeOnce
  <1>2. MadeOnce /\ [Next]_vars => MadeOnce'
    <2> SUFFICES ASSUME MadeOnce, [Next]_vars  PROVE MadeOnce'
      OBVIOUS
    <2>1. UNCHANGED machines
      BY DEF Next, Step, Open, Announce, Transmit, SendCb, Receive, ReceiveError, vars, machines
    <2> QED
      BY <2>1 DEF MadeOnce, machines
  <1> QED
    BY <1>1, <1>2, PTL DEF Spec

\* On a little-endian machine the id a server makes of a text prints as the
\* bytes it was parsed from, and any id it makes prints as a text that
\* Uuid::parse (uuid.cc:126) turns back into that id.
THEOREM Prints == Spec => []PrintsBack
  <1>1. MadeOnce => PrintsBack
    <2> SUFFICES ASSUME MadeOnce, NEW n \in Nodes, order[n] = "little"
                 PROVE  /\ source[n] \notin Randoms =>
                              LET out == Output(id[n]) IN
                              /\ BytesOf(out) = BytesOf(source[n])
                              /\ Dashed(source[n]) => \A p \in 1..36 : out[p] = source[n][p]
                        /\ Parses(Output(id[n]))
                        /\ Parse("little", Output(id[n])) = id[n]
      BY DEF PrintsBack
    <2>1. source[n] \in Texts \cup Randoms /\ id[n] = MakeId("little", source[n])
      BY DEF MadeOnce
    <2>2. id[n] \in Ids
      BY <2>1, MadeIsId DEF Orders
    <2>3. ASSUME source[n] \notin Randoms
          PROVE  /\ BytesOf(Output(id[n])) = BytesOf(source[n])
                 /\ Dashed(source[n]) => \A p \in 1..36 : Output(id[n])[p] = source[n][p]
      <3>1. Parses(source[n]) /\ id[n] = Parse("little", source[n])
        BY <2>1, <2>3, MeshAssumption DEF MakeId
      <3> QED
        BY <3>1, ParsePrintsBack
    <2> QED
      BY <2>2, <2>3, RoundTrip
  <1> QED
    BY <1>1, IdsKept, PTL

\* On a little-endian machine the id a server makes at random prints with the
\* version and the variant that uuid.cc:64 means to set.
THEOREM Version4 == Spec => []MadeIdsAreVersion4
  <1>1. MadeOnce => MadeIdsAreVersion4
    <2> SUFFICES ASSUME MadeOnce, NEW n \in Nodes, order[n] = "little", source[n] \in Randoms
                 PROVE  Output(id[n])[15] = 4 /\ Output(id[n])[20] \in 8..11
      BY DEF MadeIdsAreVersion4
    <2>1. id[n] = Make("little", source[n])
      BY DEF MadeOnce, MakeId
    <2>2. \A k \in 1..16 : source[n][k] \in Byte
      BY MeshAssumption
    <2> QED
      BY <2>1, <2>2, MadeIsVersion4
  <1> QED
    BY <1>1, IdsKept, PTL
=============================================================================
