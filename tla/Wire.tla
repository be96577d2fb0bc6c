--------------------------------- MODULE Wire ---------------------------------
(***************************************************************************)
(* The encoding of the vectors in a packet: what traffic_out serializes    *)
(* and what traffic_in deserializes.                                       *)
(*                                                                         *)
(* The data is a sequence of cells of eight bytes: a number is one cell, a *)
(* pseudonym and a message several.  A peer is one cell too (20 bytes in   *)
(* the code).  Cells of pseudonyms and messages are opaque, but those of   *)
(* the dummy pseudonym are the number 0.                                   *)
(***************************************************************************)
EXTENDS Integers, Sequences, SequencesExt

CONSTANTS
  kPseudonymCells,   \* kPseudonymSize in cells
  kMessageCells,     \* kMessageSize in cells
  Garbage            \* a number read from the cells of something else

VARIABLES
  payload,           \* the vectors a peer sends
  data,              \* what traffic_out has made of them
  received           \* what traffic_in has made of the data

vars == <<payload, data, received>>
-----------------------------------------------------------------------------
(* Fields: how many cells serialize() writes for one, and by how many      *)
(* deserialize() moves the cursor "cur".                                   *)

Width == [number |-> 1, peer |-> 1, pseudonym |-> kPseudonymCells, message |-> kMessageCells]

\* Pseudonym::deserialize and Message::deserialize leave cur where it is.
Advance == [number |-> 1, peer |-> 1, pseudonym |-> 0, message |-> 0]

MessageTuple       == <<"pseudonym", "message", "pseudonym", "number">>
AgreementTuple     == MessageTuple \o <<"peer", "number">>
RoutingSchemeTuple == MessageTuple \o <<"number", "pseudonym", "number", "number">>

\* announce, agreement, inject, routing, predeliver and deliver
Layouts ==
  <<MessageTuple, AgreementTuple, MessageTuple, RoutingSchemeTuple, MessageTuple, MessageTuple>>

\* How far the fields of a layout move the cursor
Moved(layout) == FoldLeft(LAMBDA sum, kind : sum + Advance[kind], 0, layout)

-----------------------------------------------------------------------------
(* An element is the sequence of the cells of each of its fields.          *)

Number(n) == <<[kind |-> "number", of |-> n]>>
Peer(i) == <<[kind |-> "peer", of |-> i]>>
Opaque(width, name) == [k \in 1 .. width |-> [kind |-> "opaque", of |-> <<name, k>>]]
Blob(name) == Opaque(kPseudonymCells, name)
Text(name) == Opaque(kMessageCells, name)
DummyBlob == [k \in 1 .. kPseudonymCells |-> Number(0)[1]]

serialize_vec(vec) ==
  Number(Len(vec)) \o FlattenSeq([i \in DOMAIN vec |-> FlattenSeq(vec[i])])

\* Reading a vector out of its bounds is undefined.
Cell(cells, i) == IF i \in DOMAIN cells THEN cells[i] ELSE [kind |-> "beyond", of |-> i]

Thrown == [throws |-> TRUE, vec |-> <<>>]

\* The element that deserialize() finds at cur
deserialize(layout, cells, cur) ==
  [f \in DOMAIN layout |->
     LET at == cur + Moved(SubSeq(layout, 1, f - 1))
     IN  [k \in 1 .. Width[layout[f]] |-> Cell(cells, at + k - 1)]]

deserialize_number(cells, cur) ==
  IF Cell(cells, cur).kind = "number" THEN Cell(cells, cur).of ELSE Garbage

\* A garbage size asks reserve() for a random amount of memory, which throws.
deserialize_vec(layout, cells, cur) ==
  LET size == deserialize_number(cells, cur)
  IN  IF size = Garbage THEN Thrown
      ELSE [throws |-> FALSE,
            vec    |-> [i \in 1 .. size |->
                          deserialize(layout, cells, cur + 1 + (i - 1) * Moved(layout))]]

\* The vectors of a packet one after the other, up to the first that throws
Decoded(cells) ==
  LET cur[k \in DOMAIN Layouts] ==
        IF k = 1 THEN 1
        ELSE LET size == IF cur[k - 1] = Garbage THEN Garbage
                         ELSE deserialize_number(cells, cur[k - 1])
             IN  IF size = Garbage THEN Garbage
                 ELSE cur[k - 1] + 1 + size * Moved(Layouts[k - 1])
  IN  [k \in DOMAIN Layouts |->
         IF cur[k] = Garbage THEN Thrown ELSE deserialize_vec(Layouts[k], cells, cur[k])]

-----------------------------------------------------------------------------
(* Payloads: in each vector nothing, a dummy or a message from one         *)
(* pseudonym to another.                                                   *)

Real  == <<Blob("n_src"), Text("m"), Blob("n_dst"), Number(50)>>
Dummy == <<DummyBlob, Text("uninitialised"), DummyBlob, Number(0)>>

MessageVectors == {<<>>, <<Real>>, <<Dummy>>}
AgreementVectors == {<<>>, <<Real \o <<Peer("s"), Number(2)>> >>}
RoutingVectors ==
  {<<>>, <<Real \o <<Number(3), Blob("n_dst"), Number(9), Number(1)>> >>,
         <<Dummy \o <<Number(0), DummyBlob, Number(0), Number(0)>> >>}

Payloads ==
  {<<announce, agreement, inject, routing, predeliver, deliver>> :
     announce \in MessageVectors, agreement \in AgreementVectors, inject \in {<<>>, <<Real>>},
     routing \in RoutingVectors, predeliver \in MessageVectors, deliver \in MessageVectors}

Init == payload \in Payloads /\ data = <<>> /\ received = <<>>

\* The serialisation at the end of traffic_out
traffic_out ==
  /\ data = <<>>
  /\ data' = FlattenSeq([k \in DOMAIN payload |-> serialize_vec(payload[k])])
  /\ UNCHANGED <<payload, received>>

\* The deserialisation at the start of traffic_in
traffic_in ==
  /\ data # <<>>
  /\ received = <<>>
  /\ received' = Decoded(data)
  /\ UNCHANGED <<payload, data>>

Next == traffic_out \/ traffic_in

Spec == Init /\ [][Next]_vars
-----------------------------------------------------------------------------
\* The elements of a vector that are no dummies
Messages(vec) ==
  SelectSeq(vec, LAMBDA e : ~(e[4][1].kind = "number" /\ e[4][1].of = 0))

(* "update cur appropriately": the messages that traffic_in reads from a   *)
(* packet are the messages its sender has put into it (serialization.h:32, *)
(* structures.h:75-79, 187-191, client_enclave.cpp:507-514).               *)
DecodedAsSent ==
  received # <<>> =>
    \A k \in DOMAIN Layouts :
      ~received[k].throws /\ Messages(received[k].vec) = Messages(payload[k])
=============================================================================
