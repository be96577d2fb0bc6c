------------------------------- MODULE Envelope -------------------------------
(***************************************************************************)
(* The bytes in which messages leave an enclave and reach another: join    *)
(* and init messages as they lie in memory, packets with their encryption, *)
(* their associated data and the host's sockets, pseudonyms, and, one by   *)
(* one, the numbers they consist of (module Numbers).                      *)
(* The vectors inside the encrypted part are module Wire.                  *)
(*                                                                         *)
(* A buffer is a sequence of bytes, a byte is named after what it is a     *)
(* part of: <<kind, value, bytes of the value, position>>.  Reading yields *)
(* a number only where all the bytes of a number of that width are.        *)
(***************************************************************************)
EXTENDS Integers, FiniteSets, TLC, SequencesExt, Vectors, Numbers

CONSTANTS
  Peers,            \* the peers of the network
  Routes,           \* tables from quorums to vectors of peers
  KeyNames,         \* names of keys
  InitMessages,     \* what the login server answers
  Plaintexts,       \* encoded vectors of a packet (module Wire)
  Outputs,          \* what traffic_out returns
  MaxCalls,         \* calls of traffic_out of one peer
  onids,            \* quorums in pseudonyms
  kAMax,
  PseudonymSizes    \* candidates for kPseudonymSize (64 in the code)

\* Numbers that are read as they were written: ints, see module Numbers.  The
\* sizes of vectors are far below.
INT_MAX == 2147483647
KeptNumbers == 0 .. INT_MAX

PeerInformation == [id : KeptNumbers, uri : [ip : [1 .. 4 -> 0 .. 255], port : KeptNumbers]]

InitMessage ==
  [receiver_id : KeptNumbers, num_total_nodes : KeptNumbers, overlay_dimension : KeptNumbers,
   onid_assoc : KeptNumbers, onid_emul : KeptNumbers,
   gamma_send : Seq(PeerInformation), gamma_receive : Seq(PeerInformation),
   gamma_route : Routes, sk_pseud : KeyNames, sk_enc : KeyNames, sk_routing : KeyNames]

\* What a structure message of each type begins with
TypeNumber ==
  [tEmulateRequestMsg |-> 0, tEmulateRequestReceivedMsg |-> 1, tHandOverMsg |-> 2,
   tSelfIntroduceMsg |-> 3]

OverlayStructureSchemeMessage ==
  [t : DOMAIN TypeNumber, onid : KeptNumbers, peer : PeerInformation, gamma_route : Routes,
   gamma_receive : Seq(PeerInformation)]

\* What a peer has for another one
Output ==
  [receiver : Peers, round : KeptNumbers, p : Plaintexts,
   p_structure : Seq(OverlayStructureSchemeMessage)]

Pseudonym == [onid_repr : onids, peer_information : Peers, local_num : 0 .. kAMax - 1]

ASSUME EnvelopeAssumption ==
  /\ Peers \subseteq PeerInformation
  /\ \A table \in Routes :
       /\ DOMAIN table \subseteq KeptNumbers /\ IsFiniteSet(DOMAIN table)
       /\ table = [o \in DOMAIN table |-> table[o]]
       /\ \A o \in DOMAIN table : table[o] \in Seq(PeerInformation)
  /\ InitMessages \subseteq InitMessage
  /\ \A p \in Plaintexts : p \in Seq(ToSet(p))
  /\ Outputs \subseteq Seq(Output)
  /\ onids \subseteq KeptNumbers /\ PseudonymSizes \subseteq Nat
  /\ kAMax \in 0 .. 256 /\ MaxCalls \in Nat

\* The login server gives every peer an id and a socket of its own.
ASSUME SocketAssumption ==
  \A i, j \in Peers : i.id = j.id \/ i.uri = j.uri => i = j

VARIABLES
  subject,          \* what is sent
  bytes,            \* the buffer it is encoded in
  peers_,           \* network_manager: uri the socket of an id is connected to
  network,          \* the packets the host has sent: [uri, c]
  result            \* what the receiver has read

vars == <<subject, bytes, peers_, network, result>>
-----------------------------------------------------------------------------
(* Bytes                                                                   *)

Number(width, n) ==
  [k \in 1 .. width |-> IF n = 0 THEN <<"number", 0, 1, 1>> ELSE <<"number", n, width, k>>]

Opaque(width, name) == [k \in 1 .. width |-> <<"opaque", name, width, k>>]

\* Virtual table pointers and padding: nobody reads them, and copying a
\* PeerInformation into the memory of an init message does not write them.
Unread(width) == Opaque(width, "unread")

Garbage == -1     \* a number read from other bytes
Refused == <<>>   \* what an assertion or a type check lets nobody read

Read(buffer, cur, width) ==
  IF cur + width - 1 <= Len(buffer) /\ buffer[cur][1] = "number"
     /\ SubSeq(buffer, cur, cur + width - 1) = Number(width, buffer[cur][2])
  THEN buffer[cur][2] ELSE Garbage

\* A count that is read; nothing the program writes makes it garbage.
Count(buffer, cur) == IF Read(buffer, cur, 8) \in Nat THEN Read(buffer, cur, 8) ELSE 0

\* The places a loop reads from: "next" tells the place behind what is read.
Cursors(first, next) ==
  LET cur[k \in Nat] == IF k = 0 THEN first ELSE next[cur[k - 1]] IN cur

\* The keys of a map in their order, and a map that is read key by key
KeysOf(map) == [k \in 1 .. Cardinality(DOMAIN map) |-> Place(DOMAIN map, k)]

MapOf(keys, values) == [o \in ToSet(keys) |-> values[CHOOSE k \in DOMAIN keys : keys[k] = o]]

\* The sum of a vector of numbers
Total(numbers) ==
  LET upto[k \in 0 .. Len(numbers)] == IF k = 0 THEN 0 ELSE upto[k - 1] + numbers[k]
  IN  upto[Len(numbers)]

\* A pseudonym of the given size that is filled from a buffer
Resized(buffer, size) ==
  [k \in 1 .. size |-> IF k <= Len(buffer) THEN buffer[k] ELSE Number(1, 0)[1]]

-----------------------------------------------------------------------------
(* PeerInformation, field by field: serialize, deserialize                 *)

PeerBytes == 8 + 4 + 8

serialize_peer(i) ==
  Number(8, i.id) \o FlattenSeq([k \in 1 .. 4 |-> Number(1, i.uri.ip[k])]) \o Number(8, i.uri.port)

\* Mutant: the port is read from the place behind the padding in memory.
deserialize_peer_padded(buffer, cur) ==
  [id  |-> Read(buffer, cur, 8),
   uri |-> [ip   |-> [k \in 1 .. 4 |-> Read(buffer, cur + 7 + k, 1)],
            port |-> Read(buffer, cur + 16, 8)]]

deserialize_peer(buffer, cur) ==
  [id  |-> Read(buffer, cur, 8),
   uri |-> [ip   |-> [k \in 1 .. 4 |-> Read(buffer, cur + 7 + k, 1)],
            port |-> Read(buffer, cur + 12, 8)]]

serialize_peers(vec) ==
  Number(8, Len(vec)) \o FlattenSeq([k \in DOMAIN vec |-> serialize_peer(vec[k])])

deserialize_peers(buffer, cur) ==
  [k \in 1 .. Count(buffer, cur) |-> deserialize_peer(buffer, cur + 8 + (k - 1) * PeerBytes)]

AfterPeers(buffer, cur) == cur + 8 + Count(buffer, cur) * PeerBytes

-----------------------------------------------------------------------------
(* The associated data of a packet                                         *)

serialize_route(map) ==
  LET keys == KeysOf(map)
  IN  Number(8, Len(keys))
        \o FlattenSeq([k \in DOMAIN keys |-> Number(8, keys[k]) \o serialize_peers(map[keys[k]])])

serialize_structure(s) ==
  Number(1, TypeNumber[s.t]) \o Number(8, s.onid) \o serialize_peer(s.peer)
    \o serialize_route(s.gamma_route) \o serialize_peers(s.gamma_receive)

\* Where a map has its entries, and what lies behind it
EntriesAt(buffer, cur) == Cursors(cur + 8, [c \in Nat |-> AfterPeers(buffer, c + 8)])

AfterRoute(buffer, cur) == EntriesAt(buffer, cur)[Count(buffer, cur)]

deserialize_route(buffer, cur) ==
  LET at == EntriesAt(buffer, cur)
      entries == 1 .. Count(buffer, cur)
  IN  MapOf([k \in entries |-> Read(buffer, at[k - 1], 8)],
            [k \in entries |-> deserialize_peers(buffer, at[k - 1] + 8)])

\* Type, quorum and peer come before the map.
RouteAt(cur) == cur + 1 + 8 + PeerBytes

deserialize_structure(buffer, cur) ==
  [t             |-> CHOOSE t \in DOMAIN TypeNumber : Read(buffer, cur, 1) \in {TypeNumber[t], Garbage},
   onid          |-> Read(buffer, cur + 1, 8),
   peer          |-> deserialize_peer(buffer, cur + 9),
   gamma_route   |-> deserialize_route(buffer, RouteAt(cur)),
   gamma_receive |-> deserialize_peers(buffer, AfterRoute(buffer, RouteAt(cur)))]

AfterStructure(buffer, cur) == AfterPeers(buffer, AfterRoute(buffer, RouteAt(cur)))

serialize_aad(sender, out) ==
  serialize_peer(sender) \o serialize_peer(out.receiver) \o Number(8, out.round)
    \o Number(8, Len(out.p_structure))
    \o FlattenSeq([k \in DOMAIN out.p_structure |-> serialize_structure(out.p_structure[k])])

deserialize_aad(buffer) ==
  LET count == 1 + PeerBytes + PeerBytes + 8
      at    == Cursors(count + 8, [c \in Nat |-> AfterStructure(buffer, c)])
  IN  [sender      |-> deserialize_peer(buffer, 1),
       receiver    |-> deserialize_peer(buffer, 1 + PeerBytes),
       round       |-> Read(buffer, 1 + PeerBytes + PeerBytes, 8),
       p_structure |-> [k \in 1 .. Count(buffer, count) |-> deserialize_structure(buffer, at[k - 1])]]
-----------------------------------------------------------------------------
(* cryptlib: lct, laad, iv, aad, mac, ciphertext                           *)

Mac(key, head, p) == [k \in 1 .. 16 |-> <<"mac", <<key, head, p>>, 16, k>>]
Cipher(key, p) == [k \in DOMAIN p |-> <<"cipher", <<key, p[k]>>, 1, 1>>]

\* Mutant: the length of the associated data is left out.
encrypt_without_laad(key, p, aad) ==
  LET head == Number(4, Len(p)) \o Number(4, 0) \o Opaque(12, "iv") \o aad
  IN  head \o Mac(key, head, p) \o Cipher(key, p)

encrypt(key, p, aad) ==
  LET head == Number(4, Len(p)) \o Number(4, Len(aad)) \o Opaque(12, "iv") \o aad
  IN  head \o Mac(key, head, p) \o Cipher(key, p)

Failed == [fails |-> TRUE, p |-> <<>>, aad |-> <<>>]

\* Mutant: a buffer may be longer than what is in it.
decrypt_padded(key, c) ==
  LET lct  == Read(c, 1, 4)
      laad == Read(c, 5, 4)
      ct   == SubSeq(c, 37 + laad, 36 + laad + lct)
      p    == [k \in DOMAIN ct |-> ct[k][2][2]]
  IN  IF Garbage \in {lct, laad} \/ Len(c) < 4 + 4 + 12 + laad + 16 + lct THEN Failed
      ELSE [fails |-> FALSE, p |-> p, aad |-> SubSeq(c, 21, 20 + laad)]

\* The size and the authenticity are asserted.
decrypt(key, c) ==
  LET lct  == Read(c, 1, 4)
      laad == Read(c, 5, 4)
      ct   == SubSeq(c, 37 + laad, 36 + laad + lct)
      head == SubSeq(c, 1, 20 + laad)
      p    == [k \in DOMAIN ct |-> ct[k][2][2]]
  IN  IF Garbage \in {lct, laad} \/ Len(c) # 4 + 4 + 12 + laad + 16 + lct THEN Failed
      ELSE IF /\ \A k \in DOMAIN ct : ct[k][1] = "cipher"
              /\ SubSeq(c, 21 + laad, 36 + laad) = Mac(key, head, p)
           THEN [fails |-> FALSE, p |-> p, aad |-> SubSeq(c, 21, 20 + laad)]
           ELSE Failed
-----------------------------------------------------------------------------
(* Join and init messages: the memory of their fields                      *)

kTypeJoinMessage == 0
kTypeInitMessage == 1
get_message_type(buffer) == Read(buffer, 1, 8)

\* A PeerInformation in memory, and one read from there
SizeOfPeer == 40

memory_of(i) ==
  Unread(8) \o Number(8, i.id) \o Unread(8) \o FlattenSeq([k \in 1 .. 4 |-> Number(1, i.uri.ip[k])])
    \o Unread(4) \o Number(8, i.uri.port)

peer_at(buffer, cur) ==
  [id  |-> Read(buffer, cur + 8, 8),
   uri |-> [ip   |-> [k \in 1 .. 4 |-> Read(buffer, cur + 23 + k, 1)],
            port |-> Read(buffer, cur + 32, 8)]]

copy_vector(vec) == FlattenSeq([k \in DOMAIN vec |-> memory_of(vec[k])])
obtain_vector(buffer, cur, size) ==
  [k \in 1 .. size |-> peer_at(buffer, cur + (k - 1) * SizeOfPeer)]

JoinMessage(sender) == Number(8, kTypeJoinMessage) \o memory_of(sender)

Header(m) == <<m.receiver_id, m.num_total_nodes, m.overlay_dimension, m.onid_assoc, m.onid_emul>>
KeysIn(m) == <<m.sk_pseud, m.sk_enc, m.sk_routing>>

\* Mutant: the counts of gamma_send and gamma_receive are swapped.
EntryCountsSwapped(m) == <<Len(m.gamma_receive), Len(m.gamma_send), Len(KeysOf(m.gamma_route))>>
EntryCounts(m) == <<Len(m.gamma_send), Len(m.gamma_receive), Len(KeysOf(m.gamma_route))>>

\* The vectors of gamma_route, in the order of their keys
VectorsOf(map) == [k \in DOMAIN KeysOf(map) |-> map[KeysOf(map)[k]]]

FixedSize(m) ==
  9 * 8 + 16 * 2 + 16
    + SizeOfPeer * (Len(m.gamma_send) + Len(m.gamma_receive)) + 8 * Len(VectorsOf(m.gamma_route))

\* Mutant: the entry counts of gamma_route are not reserved.
init_size_without_counts(m) ==
  LET vectors == VectorsOf(m.gamma_route)
  IN  FixedSize(m) + Total([k \in DOMAIN vectors |-> SizeOfPeer * Len(vectors[k])])

\* The size that serialize() allocates and sends
init_size(m) ==
  LET vectors == VectorsOf(m.gamma_route)
  IN  FixedSize(m) + Total([k \in DOMAIN vectors |-> 8 + SizeOfPeer * Len(vectors[k])])

copy_entry(o, vec) == Number(8, o) \o Number(8, Len(vec)) \o copy_vector(vec)

\* What it writes there
init_fields(m) ==
  Number(8, kTypeInitMessage) \o FlattenSeq([k \in 1 .. 5 |-> Number(8, Header(m)[k])])
    \o FlattenSeq([k \in 1 .. 3 |-> Number(8, EntryCounts(m)[k])])
    \o FlattenSeq([k \in 1 .. 3 |-> Opaque(16, KeysIn(m)[k])])
    \o copy_vector(m.gamma_send) \o copy_vector(m.gamma_receive)
    \o LET keys == KeysOf(m.gamma_route)
       IN  FlattenSeq([k \in DOMAIN keys |-> copy_entry(keys[k], m.gamma_route[keys[k]])])

\* The constructor InitMessage(ptr)
read_init(buffer) ==
  LET header(k)   == Read(buffer, 1 + 8 * k, 8)
      count(k)    == Count(buffer, 49 + 8 * (k - 1))
      key(k)      == buffer[73 + 16 * (k - 1)][2]
      receive     == 121 + SizeOfPeer * count(1)
      at          == Cursors(receive + SizeOfPeer * count(2),
                             [c \in Nat |-> c + 16 + SizeOfPeer * Count(buffer, c + 8)])
      entries     == 1 .. count(3)
  IN  [receiver_id   |-> header(1), num_total_nodes |-> header(2), overlay_dimension |-> header(3),
       onid_assoc    |-> header(4), onid_emul |-> header(5),
       gamma_send    |-> obtain_vector(buffer, 121, count(1)),
       gamma_receive |-> obtain_vector(buffer, receive, count(2)),
       gamma_route   |-> MapOf([k \in entries |-> Read(buffer, at[k - 1], 8)],
                               [k \in entries |-> obtain_vector(buffer, at[k - 1] + 16,
                                                                Count(buffer, at[k - 1] + 8))]),
       sk_pseud      |-> key(1), sk_enc |-> key(2), sk_routing |-> key(3)]
-----------------------------------------------------------------------------
(* Pseudonyms: generate_pseudonym and Pseudonym::decrypt                   *)

serialize_pseudonym(n) ==
  Number(8, n.onid_repr) \o serialize_peer(n.peer_information) \o Number(1, n.local_num)

deserialize_pseudonym(buffer) ==
  [onid_repr |-> Read(buffer, 1, 8), peer_information |-> deserialize_peer(buffer, 9),
   local_num |-> Read(buffer, 9 + PeerBytes, 1)]

encrypted_pseudonym(n) == encrypt("sk_pseud", serialize_pseudonym(n), <<>>)

-----------------------------------------------------------------------------
(* The (i, c) pairs that traffic_out returns to the host                   *)

encrypted_packet(sender, out) == encrypt("sk_enc", out.p, serialize_aad(sender, out))

serialize_pair(i, c) == serialize_peer(i) \o Number(8, Len(c)) \o c

serialize_pairs(sender, outs) ==
  Number(8, Len(outs))
    \o FlattenSeq([k \in DOMAIN outs |->
         serialize_pair(outs[k].receiver, encrypted_packet(sender, outs[k]))])

SizeAt(buffer, cur) == Count(buffer, cur + PeerBytes)

deserialize_pairs(buffer) ==
  LET at       == Cursors(9, [c \in Nat |-> c + PeerBytes + 8 + SizeAt(buffer, c)])
      first(k) == at[k - 1] + PeerBytes + 8
  IN  [k \in 1 .. Count(buffer, 1) |->
         [i       |-> deserialize_peer(buffer, at[k - 1]),
          payload |-> SubSeq(buffer, first(k), first(k) + SizeAt(buffer, at[k - 1]) - 1)]]

\* send_msg_to_peer connects a socket on the first packet to an id.
Connected(known, pairs) ==
  LET ids   == {pairs[k].i.id : k \in DOMAIN pairs}
      first(id) == CHOOSE k \in DOMAIN pairs :
                     /\ pairs[k].i.id = id
                     /\ \A j \in 1 .. (k - 1) : pairs[j].i.id # id
  IN  [id \in DOMAIN known \cup ids |->
         IF id \in DOMAIN known THEN known[id] ELSE pairs[first(id)].i.uri]

\* traffic_in of peer "own", up to the check of the receiver; what follows
\* it there is module ClientEnclave.
traffic_in(own, c) ==
  LET d   == decrypt("sk_enc", c)
      aad == deserialize_aad(d.aad)
  IN  IF d.fails \/ aad.receiver # own THEN <<>>
      ELSE <<[sender |-> aad.sender, receiver |-> own, round |-> aad.round, p |-> d.p,
              p_structure |-> aad.p_structure]>>

\* A packet reaches the peer whose socket is bound to the uri.
AtReceiver(packet) == traffic_in(CHOOSE i \in Peers : i.uri = packet.uri, packet.c)

-----------------------------------------------------------------------------
Subjects ==
  [kind : {"join"}, sender : Peers]
  \union [kind : {"init"}, m : InitMessages]
  \union [kind : {"packets"}, sender : Peers, calls : {<<>>}]
  \union [kind : {"pseudonym"}, size : PseudonymSizes, n : Pseudonym]
  \union [kind : {"number"}, number : 0 .. NumberSize - 1]

Init ==
  /\ subject \in Subjects
  /\ bytes = <<>> /\ peers_ = << >> /\ network = <<>> /\ result = <<>>

Sent(kind, buffer) ==
  /\ subject.kind = kind /\ bytes = <<>>
  /\ bytes' = buffer
  /\ UNCHANGED <<subject, peers_, network, result>>

Got(kind, value) ==
  /\ subject.kind = kind /\ bytes # <<>> /\ result = <<>>
  /\ result' = <<value>>
  /\ UNCHANGED <<subject, bytes, peers_, network>>

\* A client registers; the login server asserts the size.
JoinSent == Sent("join", JoinMessage(subject.sender))
JoinRead ==
  Got("join", IF get_message_type(bytes) = kTypeJoinMessage /\ Len(bytes) = 8 + SizeOfPeer
              THEN peer_at(bytes, 9) ELSE Refused)

\* The login server answers; size bytes are sent, whatever has been written.
InitSent ==
  Sent("init", SubSeq(init_fields(subject.m) \o Unread(init_size(subject.m)), 1, init_size(subject.m)))
InitRead ==
  Got("init", IF get_message_type(bytes) = kTypeInitMessage THEN read_init(bytes) ELSE Refused)

PseudonymIssued ==
  Sent("pseudonym", Resized(encrypted_pseudonym(subject.n), subject.size))
PseudonymUsed ==
  LET d == decrypt("sk_pseud", bytes)
  IN  Got("pseudonym", IF d.fails THEN Refused ELSE deserialize_pseudonym(d.p))

\* What all numbers in packets go through, byte by byte; "wraps" is the build's
\* choice where shifting is undefined.
NumberWritten == Sent("number", serialize_number(subject.number))
NumberRead == \E wraps \in BOOLEAN : Got("number", deserialize_number(bytes, wraps))

\* The end of traffic_out: the pairs are handed to the host in one buffer.
traffic_out(outs) ==
  /\ subject.kind = "packets" /\ bytes = <<>> /\ result = <<>>
  /\ Len(subject.calls) < MaxCalls
  /\ bytes' = serialize_pairs(subject.sender, outs)
  /\ subject' = [subject EXCEPT !.calls = Append(@, outs)]
  /\ UNCHANGED <<peers_, network, result>>

\* The host reads them and sends each through the socket of its receiver's id.
traffic_out_return ==
  /\ subject.kind = "packets" /\ bytes # <<>>
  /\ LET pairs == deserialize_pairs(bytes)
         known == Connected(peers_, pairs)
     IN  /\ peers_' = known
         /\ network' = network \o [k \in DOMAIN pairs |->
                                   [uri |-> known[pairs[k].i.id], c |-> pairs[k].payload]]
  /\ bytes' = <<>>
  /\ UNCHANGED <<subject, result>>

PacketsRead ==
  /\ subject.kind = "packets" /\ bytes = <<>> /\ network # <<>> /\ result = <<>>
  /\ result' = <<FlattenSeq([k \in DOMAIN network |-> AtReceiver(network[k])])>>
  /\ UNCHANGED <<subject, bytes, peers_, network>>

Next ==
  \/ JoinSent \/ JoinRead \/ InitSent \/ InitRead
  \/ PseudonymIssued \/ PseudonymUsed \/ NumberWritten \/ NumberRead
  \/ (\E outs \in Outputs : traffic_out(outs)) \/ traffic_out_return \/ PacketsRead

Spec == Init /\ [][Next]_vars
-----------------------------------------------------------------------------
\* The states of the runs: a subject, and its bytes once they are written
TypeOK ==
  /\ subject.kind \in {"join", "init", "packets", "pseudonym", "number"}
  /\ subject.kind = "packets" => Len(subject.calls) \in 0 .. MaxCalls
  /\ DOMAIN peers_ \subseteq {i.id : i \in Peers}
  /\ \A k \in DOMAIN network : network[k].uri \in {i.uri : i \in Peers}

(* A join or init message is read as the peer or the tables that were      *)
(* sent, though the objects are copied as memory, over pointers that mean  *)
(* nothing there (shared_structs.h:165-206, 316-348, 369-408).             *)
ReadAsSent ==
  result # <<>> =>
    /\ subject.kind = "join" => result[1] = subject.sender
    /\ subject.kind = "init" => result[1] = subject.m

(* serialize() writes exactly the bytes it has allocated and sends.  The   *)
(* assertion meant to check this assigns (shared_structs.h:409).           *)
InitMessageFits ==
  subject.kind = "init" => Len(init_fields(subject.m)) = init_size(subject.m)

\* What the peers should get of the calls of traffic_out
Received(sender, out) ==
  [sender |-> sender, receiver |-> out.receiver, round |-> out.round, p |-> out.p,
   p_structure |-> out.p_structure]

Expected ==
  FlattenSeq([c \in DOMAIN subject.calls |->
    [k \in DOMAIN subject.calls[c] |-> Received(subject.sender, subject.calls[c][k])]])

(* Every pair of every call of traffic_out is read by its receiver, and    *)
(* with the sender, round, payload and structure messages it was made of:  *)
(* through two serialisations, the encryption and a socket that is chosen  *)
(* by the id alone (network_manager.cpp:132-146, client_enclave.cpp:430-   *)
(* 452, 494-519).                                                          *)
PacketsArrive ==
  subject.kind = "packets" /\ result # <<>> => result[1] = Expected

(* A pseudonym can be decrypted if and only if kPseudonymSize is the size  *)
(* of its encryption to the byte: generate_pseudonym cuts or pads it       *)
(* silently, and decrypt takes the size from the data                      *)
(* (client_enclave.cpp:107-109, cryptlib.cpp:69).                          *)
PseudonymsFit ==
  subject.kind = "pseudonym" /\ result # <<>> =>
    result[1] = IF subject.size = Len(encrypted_pseudonym(subject.n)) THEN subject.n ELSE Refused

(* Whatever the build makes of the undefined shifts, numbers up to the     *)
(* largest int are read as written, and the larger ones that are not the   *)
(* extension of a negative int never are: rounds, ids and times have to    *)
(* stay below 2^31 (serialization.h:43).                                   *)
NumbersKept ==
  subject.kind = "number" /\ result # <<>> =>
    /\ 2 * subject.number < IntSize => result[1] = subject.number
    /\ 2 * subject.number \in IntSize .. 2 * NumberSize - IntSize - 1 =>
         result[1] # subject.number
=============================================================================
