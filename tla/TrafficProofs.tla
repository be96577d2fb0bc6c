---------------------------- MODULE TrafficProofs ----------------------------
(***************************************************************************)
(* Theorems about the traffic between enclaves, for every value of the     *)
(* constants: packets are used in the round they were meant for, messages  *)
(* are delivered by a quorum, the runs of the agreement keep their rounds, *)
(* their participants and their pace, and no message is ever routed.       *)
(***************************************************************************)
EXTENDS ClientEnclaveProofs, RoutingProofs

-----------------------------------------------------------------------------
(* Rounds and packets *)

\* The rounds of a run and of a packet are far from the end of the words.
LEMMA WordsSuffice ==
  /\ Dimension \in Nat /\ Word \in Nat /\ MaxTime \in Nat
  /\ MaxTime + 3 * Dimension + 9 < Word
  /\ Stamps \subseteq 0 .. (MaxTime + 2)
  /\ calculate_agreement_time(Dimension) = Dimension + 2
<1> DEFINE n == calculate_agreement_time(Dimension) + calculate_routing_time(Dimension) + 4
<1>1. /\ Dimension \in Nat /\ Word \in Nat /\ MaxTime \in Nat
      /\ RoundLength \in Nat \ {0}
      /\ n = 3 * Dimension + 8
  BY TimingTypes, DimensionAssumption, ClockAssumption
     DEF calculate_agreement_time, calculate_routing_time
<1>2. Lead(Dimension) = n * RoundLength
  BY DEF Lead
<1> HIDE DEF n
<1>3. n \in Nat /\ n * RoundLength >= n
  BY <1>1
<1>4. MaxTime + n * RoundLength + RoundLength < Word
  BY <1>2, ClockAssumption
<1>5. MaxTime + n + 1 < Word
  <2> DEFINE prod == n * RoundLength
  <2>1. prod \in Nat
    BY <1>1, <1>3
  <2>2. prod >= n /\ MaxTime + prod + RoundLength < Word
    BY <1>3, <1>4
  <2> HIDE DEF prod
  <2> QED
    BY <1>1, <1>3, <2>1, <2>2
<1>6. MaxTime \div RoundLength \in Nat /\ MaxTime \div RoundLength <= MaxTime
  BY <1>1, DivBounds
<1> QED
  BY <1>1, <1>5, <1>6 DEF Stamps, calculate_agreement_time

\* A round the clock has reached follows the one before, and its word has no
\* wrap-around before it.
LEMMA RoundReached ==
  ASSUME NEW l \in 0 .. MaxTime
  PROVE  /\ l \in Words /\ WSub(l, 1) \in Words
         /\ WAdd(WSub(l, 1), 1) = l
         /\ WAdd(WSub(l, 1), 0) = WSub(l, 1)
         /\ WSub(l, 1) = (IF l = 0 THEN Word - 1 ELSE l - 1)
         /\ WAdd(l, 0) = l
<1>1. l \in Nat /\ Word \in Nat /\ l + 1 < Word
  BY WordsSuffice
<1>2. l \in Words /\ WSub(l, 1) \in Words
  BY <1>1 DEF WSub, Words
<1>3. WSub(l, 1) = IF l = 0 THEN Word - 1 ELSE l - 1
  BY <1>1 DEF WSub
<1>4. WAdd(WSub(l, 1), 1) = l
  BY <1>1, <1>3 DEF WAdd
<1>5. WAdd(WSub(l, 1), 0) = WSub(l, 1) /\ WAdd(l, 0) = l
  BY <1>1, <1>3 DEF WAdd
<1> QED
  BY <1>2, <1>3, <1>4, <1>5

\* The rounds the clock has reached are no more than its seconds.
LEMMA RoundInTime ==
  ASSUME NEW t \in 0 .. MaxTime, NEW l \in Words, l * RoundLength <= t
  PROVE  l \in 0 .. MaxTime
<1>1. l \in Nat /\ RoundLength \in Nat \ {0} /\ t \in Nat /\ t <= MaxTime
  BY TimingTypes, WordsSuffice DEF Words
<1>2. l <= l * RoundLength
  BY <1>1
<1> QED
  BY <1>1, <1>2, WordsSuffice

\* What a round that ends without a fault does
LEMMA RoundStep ==
  ASSUME TypeInv, traffic_out, crashed' = "no"
  PROVE  \E l \in 0 .. MaxTime, random \in Quorums :
           LET ov    == OverlayUpdate(overlay, l, in[0].structure, random, NoPeer)
               agree == PushAgree(ov)
           IN  /\ l * RoundLength <= now
               /\ cur_round = WSub(l, 1)
               /\ FirstFault(ov, agree, l) = "no"
               /\ cur_round' = l
               /\ gamma_agree' = agree
               /\ agreement_tuples' = RunsAfter(agree)
               /\ out' = [i \in Receivers(ov, agree) |-> PacketFor(i, ov, agree, l)]
               /\ ShiftBuffers
               /\ UNCHANGED q_in
<1> DEFINE l == calculate_subround_from_t(now) \div 4
<1>1. now \in 0 .. MaxTime
  BY DEF TypeInv, TypeOK
<1>2. l \in Words /\ l * RoundLength <= now
  BY <1>1, RoundOfNow
<1>3. l \in 0 .. MaxTime
  BY <1>1, <1>2, RoundInTime
<1>4. PICK random \in Quorums : RunRound(l, random) /\ cur_round = WSub(l, 1)
  BY DEF traffic_out, Crash
<1> HIDE DEF l
<1> DEFINE ov    == OverlayUpdate(overlay, l, in[0].structure, random, NoPeer)
           agree == PushAgree(ov)
<1>5. FirstFault(ov, agree, l) = "no"
  BY <1>4 DEF RunRound, Crash
<1>6. /\ cur_round' = l
      /\ gamma_agree' = agree
      /\ agreement_tuples' = RunsAfter(agree)
      /\ out' = [i \in Receivers(ov, agree) |-> PacketFor(i, ov, agree, l)]
      /\ ShiftBuffers
      /\ UNCHANGED q_in
  BY <1>4, <1>5 DEF RunRound
<1> QED
  BY <1>2, <1>3, <1>4, <1>5, <1>6

-----------------------------------------------------------------------------
(* What a packet brings into a buffer *)

\* The entries of vectors put together
LEMMA EntriesOfBoth ==
  ASSUME NEW S, NEW a \in Seq(S), NEW b \in Seq(S)
  PROVE  a \o b \in Seq(S) /\ ToSet(a \o b) = ToSet(a) \cup ToSet(b)
<1>1. a \o b \in Seq(S) /\ DOMAIN a = 1 .. Len(a) /\ DOMAIN b = 1 .. Len(b)
      /\ DOMAIN (a \o b) = 1 .. (Len(a) + Len(b)) /\ Len(a) \in Nat /\ Len(b) \in Nat
  OBVIOUS
<1>2. /\ \A i \in DOMAIN a : (a \o b)[i] = a[i]
      /\ \A i \in DOMAIN b : (a \o b)[Len(a) + i] = b[i]
  OBVIOUS
<1>3. \A i \in DOMAIN (a \o b) : i \in DOMAIN a \/ (i - Len(a) \in DOMAIN b /\ i = Len(a) + (i - Len(a)))
  BY <1>1
<1>4. ToSet(a \o b) \subseteq ToSet(a) \cup ToSet(b)
  BY <1>2, <1>3 DEF ToSet
<1>5. ToSet(a) \subseteq ToSet(a \o b)
  <2>1. \A i \in DOMAIN a : i \in DOMAIN (a \o b)
    BY <1>1
  <2> QED
    BY <1>2, <2>1 DEF ToSet
<1>6. ToSet(b) \subseteq ToSet(a \o b)
  <2>1. \A i \in DOMAIN b : Len(a) + i \in DOMAIN (a \o b)
    BY <1>1
  <2> QED
    BY <1>2, <2>1 DEF ToSet
<1> QED
  BY <1>1, <1>4, <1>5, <1>6

\* The vectors of a buffer
BufferTyped(buffer) ==
  /\ buffer.announce \in Seq(MessageType)
  /\ buffer.agreement \in Seq(AgreementType)
  /\ buffer.inject \in Seq(MessageType)
  /\ buffer.routing \in Seq(Seq(RoutingType))
  /\ buffer.predeliver \in Seq(MessageType)

\* A packet heard is one more a buffer's entries may come from.
LEMMA BufferedComesFrom ==
  ASSUME NEW k \in 0 .. 1, NEW sender \in Peers, NEW round \in Stamps,
         NEW p \in Payloads(sender, round), NEW P, NEW Q,
         BufferTyped(in[k]), ComesFrom(in[k], P), P \subseteq Q, p \in Q
  PROVE  /\ BufferTyped(Buffered(k, sender, p))
         /\ ComesFrom(Buffered(k, sender, p), Q)
<1> DEFINE buffer == Buffered(k, sender, p)
           old == in[k]
<1>1. /\ p.announce \in Seq(MessageType) /\ p.inject \in Seq(MessageType)
      /\ p.predeliver \in Seq(MessageType) /\ p.deliver \in Seq(MessageType)
      /\ p.agreement \in Seq(AgreementType) /\ p.routing \in Seq(RoutingType)
  BY PayloadAssumption
<1>2. /\ buffer.structure = old.structure \cup p.structure
      /\ buffer.announce = old.announce \o p.announce
      /\ buffer.agreement = old.agreement \o p.agreement
      /\ buffer.inject = old.inject \o p.inject
      /\ buffer.routing = IF p.routing = <<>> THEN old.routing ELSE Append(old.routing, p.routing)
      /\ buffer.predeliver = old.predeliver \o p.predeliver
      /\ buffer.deliver = InsertDeliveries(old.deliver, p.deliver)
  BY DEF Buffered
<1> HIDE DEF buffer, old
<1>3. /\ buffer.announce \in Seq(MessageType)
      /\ ToSet(buffer.announce) = ToSet(old.announce) \cup ToSet(p.announce)
  BY <1>1, <1>2, EntriesOfBoth DEF BufferTyped, old
<1>4. /\ buffer.agreement \in Seq(AgreementType)
      /\ ToSet(buffer.agreement) = ToSet(old.agreement) \cup ToSet(p.agreement)
  BY <1>1, <1>2, EntriesOfBoth DEF BufferTyped, old
<1>5. /\ buffer.inject \in Seq(MessageType)
      /\ ToSet(buffer.inject) = ToSet(old.inject) \cup ToSet(p.inject)
  BY <1>1, <1>2, EntriesOfBoth DEF BufferTyped, old
<1>6. /\ buffer.predeliver \in Seq(MessageType)
      /\ ToSet(buffer.predeliver) = ToSet(old.predeliver) \cup ToSet(p.predeliver)
  BY <1>1, <1>2, EntriesOfBoth DEF BufferTyped, old
<1>7. /\ buffer.routing \in Seq(Seq(RoutingType))
      /\ ToSet(buffer.routing) \subseteq ToSet(old.routing) \cup {p.routing}
  <2>1. old.routing \in Seq(Seq(RoutingType))
    BY DEF BufferTyped, old
  <2>2. CASE p.routing = <<>>
    BY <1>2, <2>1, <2>2
  <2>3. CASE p.routing # <<>>
    <3> DEFINE T == Seq(RoutingType)
               vec == old.routing
               new == p.routing
    <3>1. vec \in Seq(T) /\ new \in T /\ buffer.routing = Append(vec, new)
      BY <1>1, <1>2, <2>1, <2>3
    <3> HIDE DEF T, vec, new
    <3>2. /\ Append(vec, new) \in Seq(T)
          /\ \A i \in DOMAIN Append(vec, new) :
               (i \in DOMAIN vec /\ Append(vec, new)[i] = vec[i]) \/ Append(vec, new)[i] = new
      BY <3>1
    <3>3. ToSet(Append(vec, new)) \subseteq ToSet(vec) \cup {new}
      BY <3>2 DEF ToSet
    <3> QED
      BY <3>1, <3>2, <3>3 DEF T, vec, new
  <2> QED
    BY <2>2, <2>3
<1>8. \A x \in buffer.deliver : x \in old.deliver \/ x \in ToSet(p.deliver)
  BY <1>2 DEF InsertDeliveries, ToSet
<1>9. BufferTyped(buffer)
  BY <1>3, <1>4, <1>5, <1>6, <1>7 DEF BufferTyped
<1>10. ComesFrom(old, P)
  BY DEF old
<1>11. /\ \A x \in buffer.structure : \E q \in Q : x \in q.structure
       /\ \A x \in ToSet(buffer.announce) : \E q \in Q : x \in ToSet(q.announce)
       /\ \A x \in ToSet(buffer.agreement) : \E q \in Q : x \in ToSet(q.agreement)
  BY <1>2, <1>3, <1>4, <1>10, Zenon DEF ComesFrom
<1>12. /\ \A x \in ToSet(buffer.inject) : \E q \in Q : x \in ToSet(q.inject)
       /\ \A x \in ToSet(buffer.routing) : \E q \in Q : x = q.routing
       /\ \A x \in ToSet(buffer.predeliver) : \E q \in Q : x \in ToSet(q.predeliver)
       /\ \A x \in buffer.deliver : \E q \in Q : x \in ToSet(q.deliver)
  BY <1>5, <1>6, <1>7, <1>8, <1>10, Zenon DEF ComesFrom
<1>13. ComesFrom(buffer, Q)
  BY <1>11, <1>12 DEF ComesFrom
<1> QED
  BY <1>9, <1>13 DEF buffer

-----------------------------------------------------------------------------
(* Packets are used in their round, and a quorum delivers.                 *)

CopiesCounted == \A c \in DOMAIN copies : c \in Peers \X Stamps /\ copies[c] \in Nat \ {0}

InboxInv ==
  /\ in = [k \in 0 .. 1 |-> in[k]]
  /\ \A k \in 0 .. 1 :
       /\ BufferTyped(in[k])
       /\ ComesFrom(in[k], Carried(WAdd(cur_round, k)))
       /\ in[k].received_from \subseteq Heard(WAdd(cur_round, k))
  /\ CopiesCounted
  /\ DeliveredFromQuorum

\* A buffer without packets has its type and comes from any packets.
LEMMA NothingCarried ==
  ASSUME NEW P, NEW senders
  PROVE  /\ BufferTyped(NoPackets(senders))
         /\ ComesFrom(NoPackets(senders), P)
         /\ NoPackets(senders).received_from = senders
<1>1. ToSet(<<>>) = {}
  BY DEF ToSet
<1>2. /\ NoPackets(senders).structure = {} /\ NoPackets(senders).deliver = {}
      /\ NoPackets(senders).announce = <<>> /\ NoPackets(senders).agreement = <<>>
      /\ NoPackets(senders).inject = <<>> /\ NoPackets(senders).routing = <<>>
      /\ NoPackets(senders).predeliver = <<>>
      /\ NoPackets(senders).received_from = senders
  BY DEF NoPackets
<1>3. BufferTyped(NoPackets(senders))
  BY <1>2 DEF BufferTyped
<1>4. ComesFrom(NoPackets(senders), P)
  BY <1>1, <1>2 DEF ComesFrom
<1> QED
  BY <1>2, <1>3, <1>4

\* The empty buffers satisfy the invariant.
LEMMA InitInbox == Init => InboxInv
<1> SUFFICES ASSUME Init PROVE InboxInv
  OBVIOUS
<1>1. /\ in = [k \in 0 .. 1 |-> NoPackets({})]
      /\ DOMAIN copies = {}
      /\ DOMAIN q_in = {}
  BY DEF Init
<1>2. \A k \in 0 .. 1 : in[k] = NoPackets({})
  BY <1>1
<1>3. in = [k \in 0 .. 1 |-> in[k]]
  BY <1>1, <1>2
<1>4. \A k \in 0 .. 1 :
        /\ BufferTyped(in[k])
        /\ ComesFrom(in[k], Carried(WAdd(cur_round, k)))
        /\ in[k].received_from \subseteq Heard(WAdd(cur_round, k))
  BY <1>2, NothingCarried
<1> QED
  BY <1>1, <1>3, <1>4 DEF InboxInv, CopiesCounted, DeliveredFromQuorum

\* The packets heard are never forgotten.
LEMMA HeardGrows ==
  ASSUME \A packet : Copies(packet) > 0 => Copies(packet)' > 0
  PROVE  \A round : Heard(round) \subseteq Heard(round)' /\ Carried(round) \subseteq Carried(round)'
<1> TAKE round
<1>1. Heard(round) \subseteq Heard(round)'
  BY DEF Heard
<1> QED
  BY <1>1 DEF Carried

\* What lets a message be delivered
ByQuorum(m) ==
  \E round \in Stamps :
    /\ Cardinality(Heard(round)) > m_corrupt
    /\ \E p \in Carried(round) : m \in ToSet(p.deliver)

HeardKept ==
  \A round : Heard(round) \subseteq Heard(round)' /\ Carried(round) \subseteq Carried(round)'

\* Finitely many peers have been heard in a round.
LEMMA HeardFinite ==
  ASSUME NEW round
  PROVE  IsFiniteSet(Heard(round)) /\ Cardinality(Heard(round)) \in Nat
<1>1. Heard(round) \subseteq Peers
  BY DEF Heard
<1> QED
  BY <1>1, PayloadAssumption, FS_Subset, FS_CardinalityType

\* Hearing more takes no quorum away.
LEMMA QuorumStays ==
  ASSUME HeardKept, NEW m, ByQuorum(m)
  PROVE  ByQuorum(m)'
<1>1. PICK round \in Stamps : /\ Cardinality(Heard(round)) > m_corrupt
                              /\ \E p \in Carried(round) : m \in ToSet(p.deliver)
  BY DEF ByQuorum
<1>2. Heard(round) \subseteq Heard(round)' /\ Carried(round) \subseteq Carried(round)'
  BY DEF HeardKept
<1>3. IsFiniteSet(Heard(round)') /\ Cardinality(Heard(round)') \in Nat
      /\ Cardinality(Heard(round)) \in Nat
  <2>1. Heard(round)' \subseteq Peers
    BY DEF Heard
  <2> QED
    BY <2>1, HeardFinite, PayloadAssumption, FS_Subset, FS_CardinalityType
<1>4. Cardinality(Heard(round)) <= Cardinality(Heard(round)')
  BY <1>2, <1>3, FS_Subset
<1>5. Cardinality(Heard(round)') > m_corrupt
  BY <1>1, <1>3, <1>4, QuotaAssumption
<1>6. \E p \in Carried(round)' : m \in ToSet(p.deliver)
  BY <1>1, <1>2
<1> QED
  BY <1>5, <1>6 DEF ByQuorum

\* Deliveries stay backed by a quorum if new ones are and nobody heard is forgotten.
LEMMA DeliveredStays ==
  ASSUME HeardKept, DeliveredFromQuorum, DOMAIN q_in' = DOMAIN q_in,
         \A n \in DOMAIN q_in : \A m \in BagToSet(q_in'[n]) :
           m \in BagToSet(q_in[n]) \/ ByQuorum(m)'
  PROVE  DeliveredFromQuorum'
<1>1. \A n \in DOMAIN q_in : \A m \in BagToSet(q_in[n]) : ByQuorum(m)
  BY DEF DeliveredFromQuorum, ByQuorum
<1>2. \A n \in DOMAIN q_in' : \A m \in BagToSet(q_in'[n]) : ByQuorum(m)'
  BY <1>1, QuorumStays
<1> QED
  BY <1>2 DEF DeliveredFromQuorum, ByQuorum

\* A buffer that is not touched keeps its property.
LEMMA ComesFromMore ==
  ASSUME NEW buffer, NEW P, NEW Q, P \subseteq Q, ComesFrom(buffer, P)
  PROVE  ComesFrom(buffer, Q)
  BY Zenon DEF ComesFrom

\* A step that leaves buffers and rounds alone keeps the invariant.
LEMMA InboxUntouched ==
  ASSUME InboxInv, HeardKept, UNCHANGED <<in, cur_round>>,
         CopiesCounted',
         DeliveredFromQuorum'
  PROVE  InboxInv'
<1>1. \A k \in 0 .. 1 : ComesFrom(in[k], Carried(WAdd(cur_round, k))')
  <2> TAKE k \in 0 .. 1
  <2>1. ComesFrom(in[k], Carried(WAdd(cur_round, k)))
    BY DEF InboxInv
  <2> DEFINE round == WAdd(cur_round, k)
  <2>2. Carried(round) \subseteq Carried(round)'
    BY DEF HeardKept
  <2> QED
    BY <2>1, <2>2, ComesFromMore
<1>2. \A k \in 0 .. 1 : in[k].received_from \subseteq Heard(WAdd(cur_round, k))'
  BY DEF InboxInv, HeardKept
<1>3. \A k \in 0 .. 1 : BufferTyped(in[k])' /\ ComesFrom(in[k], Carried(WAdd(cur_round, k)))'
                          /\ (in[k].received_from \subseteq Heard(WAdd(cur_round, k)))'
  BY <1>1, <1>2 DEF InboxInv, BufferTyped
<1> QED
  BY <1>3 DEF InboxInv

\* A packet is heard when it is handed to the enclave.
LEMMA PacketHeard ==
  ASSUME InboxInv, NEW packet \in Packets,
         copies' = [c \in DOMAIN copies \cup {packet} |->
                      IF c = packet THEN Copies(c) + 1 ELSE copies[c]]
  PROVE  /\ HeardKept
         /\ packet[1] \in Peers /\ packet[2] \in Stamps
         /\ packet[1] \in Heard(packet[2])'
         /\ CopiesCounted'
<1>1. /\ packet[1] \in Peers /\ packet[2] \in Stamps
      /\ packet = <<packet[1], packet[2]>>
  BY DEF Packets
<1>2. \A c \in DOMAIN copies : c \in Peers \X Stamps /\ copies[c] \in Nat \ {0}
  BY DEF InboxInv, CopiesCounted
<1>3. \A c : Copies(c) \in Nat
  BY <1>2 DEF Copies
<1>4. /\ DOMAIN copies' = DOMAIN copies \cup {packet}
      /\ copies'[packet] = Copies(packet) + 1
      /\ \A c \in DOMAIN copies \ {packet} : copies'[c] = copies[c]
  OBVIOUS
<1>5. \A c \in DOMAIN copies' : c \in Peers \X Stamps /\ copies'[c] \in Nat \ {0}
  BY <1>1, <1>2, <1>3, <1>4
<1>9. \A c \in DOMAIN copies' : copies'[c] \in Nat \ {0}
  BY <1>5
<1>6. \A c : Copies(c) > 0 => Copies(c)' > 0
  <2> SUFFICES ASSUME NEW c, Copies(c) > 0 PROVE Copies(c)' > 0
    OBVIOUS
  <2>1. c \in DOMAIN copies'
    BY <1>4 DEF Copies
  <2> QED
    BY <1>9, <2>1 DEF Copies
<1>7. HeardKept
  BY <1>6, HeardGrows DEF HeardKept
<1>8. packet[1] \in Heard(packet[2])'
  <2>1. Copies(packet)' > 0
    BY <1>4, <1>9 DEF Copies
  <2> QED
    BY <1>1, <2>1 DEF Heard
<1> QED
  BY <1>1, <1>5, <1>7, <1>8 DEF CopiesCounted

\* traffic_in files a packet under its round and delivers what a quorum has
\* sent.
LEMMA TrafficInInbox ==
  ASSUME TypeInv, InboxInv, TrafficIn
  PROVE  InboxInv'
<1>1. PICK packet \in Packets :
        /\ \E p \in Payloads(packet[1], packet[2]) : traffic_in(packet[1], packet[2], p)
        /\ copies' = [c \in DOMAIN copies \cup {packet} |->
                        IF c = packet THEN Copies(c) + 1 ELSE copies[c]]
  BY Zenon DEF TrafficIn
<1> DEFINE sender == packet[1]
           round  == packet[2]
<1>2. /\ HeardKept
      /\ sender \in Peers /\ round \in Stamps
      /\ sender \in Heard(round)'
      /\ CopiesCounted'
  BY <1>1, PacketHeard
<1>3. PICK p \in Payloads(sender, round) : traffic_in(sender, round, p)
  BY <1>1
<1> HIDE DEF sender, round
<1>4. CASE UNCHANGED <<in, q_in, cur_round>>
  <2>1. DeliveredFromQuorum'
    BY <1>2, <1>4, DeliveredStays DEF InboxInv
  <2> QED
    BY <1>2, <1>4, <2>1, InboxUntouched
<1>5. CASE ~UNCHANGED <<in, q_in, cur_round>>
  <2> DEFINE k      == round - cur_round
             buffer == Buffered(k, sender, p)
             msgs   == Deliverable(buffer)
  <2>1. /\ round >= cur_round /\ k < 2
        /\ in' = [in EXCEPT ![k] = ClearDelivered(buffer)]
        /\ q_in' = [n \in DOMAIN q_in |->
                      q_in[n] (+) SetToBag({m \in msgs : m.n_dst.num + 1 = n})]
        /\ UNCHANGED cur_round
    BY <1>3, <1>5 DEF traffic_in, Crash, memory
  <2>2. /\ cur_round \in Nat /\ round \in Nat /\ round < Word /\ k \in 0 .. 1
        /\ WAdd(cur_round, k) = round
    <3>1. cur_round \in Nat /\ round \in Nat /\ round < Word
      BY <1>2, WordsSuffice DEF TypeInv, TypeOK, Words
    <3> QED
      BY <2>1, <3>1 DEF WAdd
  <2> HIDE DEF k
  <2>3. p \in Carried(round)'
    BY <1>2, <1>3 DEF Carried
  <2>4. Carried(round) \subseteq Carried(round)'
    BY <1>2 DEF HeardKept
  <2>5. BufferTyped(in[k]) /\ ComesFrom(in[k], Carried(round))
    BY <2>2 DEF InboxInv
  <2>6. BufferTyped(buffer) /\ ComesFrom(buffer, Carried(round)')
    BY <1>2, <1>3, <2>2, <2>3, <2>4, <2>5, BufferedComesFrom
  <2>7. buffer.received_from \subseteq Heard(round)'
    <3>1. in[k].received_from \subseteq Heard(round)
      BY <2>2 DEF InboxInv
    <3>2. Heard(round) \subseteq Heard(round)'
      BY <1>2 DEF HeardKept
    <3>3. buffer.received_from = in[k].received_from \cup {sender}
      BY DEF Buffered
    <3> QED
      BY <1>2, <3>1, <3>2, <3>3
  <2>8. /\ BufferTyped(ClearDelivered(buffer))
        /\ ComesFrom(ClearDelivered(buffer), Carried(round)')
        /\ ClearDelivered(buffer).received_from \subseteq Heard(round)'
    <3>1. CASE Cardinality(buffer.received_from) > m_corrupt
      <4>1. ClearDelivered(buffer) = [buffer EXCEPT !.deliver = {}, !.received_from = {}]
        BY <3>1 DEF ClearDelivered
      <4>2. LET cleared == ClearDelivered(buffer)
            IN  /\ cleared.structure = buffer.structure /\ cleared.announce = buffer.announce
                /\ cleared.agreement = buffer.agreement /\ cleared.inject = buffer.inject
                /\ cleared.routing = buffer.routing /\ cleared.predeliver = buffer.predeliver
                /\ cleared.deliver = {} /\ cleared.received_from = {}
        BY <4>1 DEF Buffered
      <4> HIDE DEF buffer
      <4> QED
        BY <2>6, <4>2 DEF BufferTyped, ComesFrom
    <3>2. CASE ~(Cardinality(buffer.received_from) > m_corrupt)
      BY <2>6, <2>7, <3>2 DEF ClearDelivered
    <3> QED
      BY <3>1, <3>2
  <2>9. \A m \in msgs : ByQuorum(m)'
    <3> TAKE m \in msgs
    <3>1. Cardinality(buffer.received_from) > m_corrupt /\ m \in buffer.deliver
      BY DEF Deliverable
    <3>2. \E q \in Carried(round)' : m \in ToSet(q.deliver)
      BY <2>6, <3>1 DEF ComesFrom
    <3>3. IsFiniteSet(Heard(round)')
      <4>1. Heard(round)' \subseteq Peers
        BY DEF Heard
      <4> QED
        BY <4>1, PayloadAssumption, FS_Subset
    <3> DEFINE from == buffer.received_from
               heard == Heard(round)'
    <3>4. from \subseteq heard /\ IsFiniteSet(heard) /\ Cardinality(from) > m_corrupt
      BY <2>7, <3>1, <3>3
    <3> HIDE DEF from, heard
    <3>5. Cardinality(heard) > m_corrupt
      <4>1. Cardinality(from) <= Cardinality(heard) /\ Cardinality(from) \in Nat
            /\ Cardinality(heard) \in Nat
        BY <3>4, FS_Subset, FS_CardinalityType
      <4> QED
        BY <3>4, <4>1, QuotaAssumption
    <3> QED
      BY <1>2, <3>2, <3>5 DEF ByQuorum, heard
  <2> HIDE DEF msgs, buffer
  <2>10. DeliveredFromQuorum'
    <3>1. DOMAIN q_in' = DOMAIN q_in
      BY <2>1
    <3>2. \A n \in DOMAIN q_in : \A m \in BagToSet(q_in'[n]) :
            m \in BagToSet(q_in[n]) \/ m \in msgs
      <4> TAKE n \in DOMAIN q_in
      <4>1. q_in'[n] = q_in[n] (+) SetToBag({m \in msgs : m.n_dst.num + 1 = n})
        BY <2>1
      <4> QED
        BY <4>1 DEF BagToSet, SetToBag, (+)
    <3> QED
      BY <1>2, <2>9, <3>1, <3>2, DeliveredStays DEF InboxInv
  <2>11. \A j \in 0 .. 1 : /\ BufferTyped(in'[j])
                           /\ ComesFrom(in'[j], Carried(WAdd(cur_round, j))')
                           /\ in'[j].received_from \subseteq Heard(WAdd(cur_round, j))'
    <3> TAKE j \in 0 .. 1
    <3>1. CASE j = k
      <4>1. in'[j] = ClearDelivered(buffer)
        BY <2>1, <2>2, <3>1 DEF InboxInv
      <4> QED
        BY <2>1, <2>2, <2>8, <3>1, <4>1
    <3>2. CASE j # k
      <4>1. in'[j] = in[j]
        BY <2>1, <3>2 DEF InboxInv
      <4>2. /\ BufferTyped(in[j]) /\ ComesFrom(in[j], Carried(WAdd(cur_round, j)))
            /\ in[j].received_from \subseteq Heard(WAdd(cur_round, j))
        BY DEF InboxInv
      <4>3. /\ Carried(WAdd(cur_round, j)) \subseteq Carried(WAdd(cur_round, j))'
            /\ Heard(WAdd(cur_round, j)) \subseteq Heard(WAdd(cur_round, j))'
        BY <1>2, <2>1 DEF HeardKept
      <4> QED
        BY <4>1, <4>2, <4>3, ComesFromMore
    <3> QED
      BY <3>1, <3>2
  <2>12. in' = [j \in 0 .. 1 |-> in'[j]]
    BY <2>1 DEF InboxInv
  <2> QED
    BY <1>2, <2>1, <2>10, <2>11, <2>12 DEF InboxInv, BufferTyped
<1> QED
  BY <1>4, <1>5

\* The actions that neither bring a packet nor enter a round
LEMMA OtherInbox ==
  ASSUME TypeInv, InboxInv,
         \/ Tick /\ UNCHANGED copies
         \/ ServerPacket
         \/ first_packet_from_peer /\ UNCHANGED copies
         \/ generate_pseudonym /\ UNCHANGED copies
         \/ SendMessage
         \/ ReceiveMessage
         \/ UNCHANGED vars
  PROVE  InboxInv'
<1>1. UNCHANGED <<in, cur_round, copies>>
  BY DEF Tick, ServerPacket, received_msg_from_server, first_packet_from_peer,
         generate_pseudonym, SendMessage, send_message, ReceiveMessage, receive_message,
         Crash, memory, vars
<1>2. HeardKept
  BY <1>1 DEF HeardKept, Heard, Carried, Copies
<1>3. \A n \in DOMAIN q_in' : \A m \in BagToSet(q_in'[n]) :
        n \in DOMAIN q_in /\ m \in BagToSet(q_in[n])
  <2>1. CASE UNCHANGED q_in
    BY <2>1
  <2>2. CASE generate_pseudonym
    <3>1. q_in = [n \in 1 .. Len(pseudonyms) |-> q_in[n]] /\ Len(pseudonyms) \in Nat
      BY DEF TypeInv, TypeOK
    <3> DEFINE vec == q_in
    <3>2. /\ DOMAIN vec = 1 .. Len(pseudonyms)
          /\ vec \in Seq({vec[n] : n \in 1 .. Len(pseudonyms)} \cup {EmptyBag})
      BY <3>1
    <3>3. q_in' = Append(vec, EmptyBag)
      BY <2>2 DEF generate_pseudonym
    <3>4. BagToSet(EmptyBag) = {}
      BY DEF BagToSet, EmptyBag, SetToBag
    <3> HIDE DEF vec
    <3>5. \A n \in DOMAIN q_in' : (n \in DOMAIN vec /\ q_in'[n] = vec[n]) \/ q_in'[n] = EmptyBag
      BY <3>2, <3>3
    <3> QED
      BY <3>4, <3>5 DEF vec
  <2>3. CASE ReceiveMessage /\ ~UNCHANGED q_in
    <3>1. PICK n_dst \in Blobs :
            \E top \in BagToSet(q_in[n_dst.num + 1]) :
              q_in' = [q_in EXCEPT ![n_dst.num + 1] = @ (-) SetToBag({top})]
      BY <2>3 DEF ReceiveMessage, receive_message, Crash, memory
    <3> DEFINE i == n_dst.num + 1
    <3>2. PICK top : q_in' = [q_in EXCEPT ![i] = q_in[i] (-) SetToBag({top})]
      BY <3>1
    <3> HIDE DEF i
    <3>3. DOMAIN (q_in[i] (-) SetToBag({top})) \subseteq DOMAIN q_in[i]
      BY DEF (-)
    <3> DEFINE bag == q_in[i] (-) SetToBag({top})
    <3>4. /\ DOMAIN bag \subseteq DOMAIN q_in[i]
          /\ q_in' = [q_in EXCEPT ![i] = bag]
      BY <3>2, <3>3
    <3> HIDE DEF bag
    <3>5. /\ DOMAIN q_in' = DOMAIN q_in
          /\ \A n \in DOMAIN q_in : q_in'[n] = q_in[n] \/ (n = i /\ q_in'[n] = bag)
      BY <3>4
    <3> QED
      BY <3>4, <3>5 DEF BagToSet
  <2> QED
    BY <2>1, <2>2, <2>3
       DEF Tick, ServerPacket, received_msg_from_server, first_packet_from_peer, SendMessage,
           send_message, Crash, memory, vars
<1>4. DeliveredFromQuorum'
  <2>1. \A n \in DOMAIN q_in : \A m \in BagToSet(q_in[n]) : ByQuorum(m)
    BY DEF InboxInv, DeliveredFromQuorum, ByQuorum
  <2>2. \A n \in DOMAIN q_in' : \A m \in BagToSet(q_in'[n]) : ByQuorum(m)'
    BY <1>2, <1>3, <2>1, QuorumStays
  <2> QED
    BY <2>2 DEF DeliveredFromQuorum, ByQuorum
<1>5. CopiesCounted'
  BY <1>1 DEF InboxInv, CopiesCounted
<1> QED
  BY <1>1, <1>2, <1>4, <1>5, InboxUntouched

\* In a new round the packets for it become those of the round entered.
LEMMA TrafficOutInbox ==
  ASSUME TypeInv, InboxInv, traffic_out, UNCHANGED copies
  PROVE  InboxInv'
<1>1. HeardKept
  BY DEF HeardKept, Heard, Carried, Copies
<1>2. UNCHANGED q_in
  BY DEF traffic_out, RunRound, Crash, memory
<1>3. DeliveredFromQuorum'
  BY <1>1, <1>2, DeliveredStays DEF InboxInv
<1>4. CASE crashed' # "no"
  <2>1. UNCHANGED <<in, cur_round>>
    BY <1>4 DEF traffic_out, RunRound, Crash, memory, Running
  <2> QED
    BY <1>1, <1>3, <2>1, InboxUntouched DEF InboxInv, CopiesCounted
<1>5. CASE crashed' = "no"
  <2>1. PICK l \in 0 .. MaxTime :
          /\ cur_round = WSub(l, 1) /\ cur_round' = l
          /\ in' = [k \in 0 .. 1 |-> IF k = 0 THEN in[1] ELSE NoPackets({})]
    BY <1>5, RoundStep, Zenon DEF ShiftBuffers
  <2>2. WAdd(cur_round, 1) = l /\ WAdd(cur_round', 0) = l
    BY <2>1, RoundReached
  <2>3. /\ in'[0] = in[1] /\ in'[1] = NoPackets({})
        /\ in' = [k \in 0 .. 1 |-> in'[k]]
    BY <2>1
  <2>4. /\ BufferTyped(in'[0])
        /\ ComesFrom(in'[0], Carried(WAdd(cur_round', 0)))
        /\ in'[0].received_from \subseteq Heard(WAdd(cur_round', 0))
    BY <2>2, <2>3 DEF InboxInv
  <2>5. /\ BufferTyped(in'[1])
        /\ ComesFrom(in'[1], Carried(WAdd(cur_round', 1)))
        /\ in'[1].received_from \subseteq Heard(WAdd(cur_round', 1))
    BY <2>3, NothingCarried
  <2>6. \A round : Heard(round)' = Heard(round) /\ Carried(round)' = Carried(round)
    BY DEF Heard, Carried, Copies
  <2>7. \A k \in 0 .. 1 :
          /\ BufferTyped(in[k])'
          /\ ComesFrom(in[k], Carried(WAdd(cur_round, k)))'
          /\ (in[k].received_from \subseteq Heard(WAdd(cur_round, k)))'
    <3>1. \A k \in 0 .. 1 : k = 0 \/ k = 1
      OBVIOUS
    <3>2. \A k \in 0 .. 1 :
            /\ BufferTyped(in'[k])
            /\ ComesFrom(in'[k], Carried(WAdd(cur_round', k)))
            /\ in'[k].received_from \subseteq Heard(WAdd(cur_round', k))
      BY <2>4, <2>5, <3>1, Zenon
    <3>3. \A k \in 0 .. 1 : BufferTyped(in[k])'
      BY <3>2 DEF BufferTyped
    <3>4. \A k \in 0 .. 1 :
            /\ Carried(WAdd(cur_round, k))' = Carried(WAdd(cur_round', k))
            /\ Heard(WAdd(cur_round, k))' = Heard(WAdd(cur_round', k))
      BY DEF Carried, Heard, Copies
    <3>5. \A k \in 0 .. 1 : (in[k].received_from \subseteq Heard(WAdd(cur_round, k)))'
      BY <3>2, <3>4
    <3>6. \A k \in 0 .. 1 : ComesFrom(in[k], Carried(WAdd(cur_round, k)))'
      BY <3>2, <3>4 DEF ComesFrom
    <3> QED
      BY <3>3, <3>5, <3>6
  <2> QED
    BY <1>3, <2>3, <2>7 DEF InboxInv, CopiesCounted
<1> QED
  BY <1>4, <1>5

\* Every step keeps the invariant of the buffers.
LEMMA NextInbox == TypeInv /\ InboxInv /\ [Next]_vars => InboxInv'
<1> SUFFICES ASSUME TypeInv, InboxInv, [Next]_vars PROVE InboxInv'
  OBVIOUS
<1>1. CASE TrafficIn
  BY <1>1, TrafficInInbox
<1>2. CASE traffic_out /\ UNCHANGED copies
  BY <1>2, TrafficOutInbox
<1> QED
  BY <1>1, <1>2, OtherInbox DEF Next

\* The buffers hold what was sent for their rounds.
LEMMA InboxCorrect == Spec => []InboxInv
<1>1. Spec => []TypeInv
  BY InitTypeInv, NextTypeInv, PTL DEF Spec
<1> QED
  BY <1>1, InitInbox, NextInbox, PTL DEF Spec

(* Whatever order packets and rounds come in, and however often a packet   *)
(* is delivered: in_* of the current round holds only what was sent for    *)
(* this round, in_*_next only what was sent for the next one               *)
(* (client_enclave.cpp:516-550, 454-470).                                  *)
THEOREM PacketsUsedInStep == Spec => []BuffersInStep
<1>1. InboxInv => BuffersInStep
  BY DEF InboxInv, BuffersInStep
<1> QED
  BY <1>1, InboxCorrect, PTL

(* No message reaches a user unless more than m_corrupt different peers    *)
(* have been heard in the round in which it was sent, for every number of  *)
(* corrupt peers and every network (client_enclave.cpp:529-571).           *)
THEOREM QuorumsDeliver == Spec => []DeliveredFromQuorum
<1>1. InboxInv => DeliveredFromQuorum
  BY DEF InboxInv
<1> QED
  BY <1>1, InboxCorrect, PTL

-----------------------------------------------------------------------------
(* Runs of the agreement.  A vector whose elements have no common type is  *)
(* a sequence over the set of its own elements.                            *)

\* A concatenation has the entries of its two parts.
LEMMA EntriesOfAny ==
  ASSUME NEW a, NEW b, a \in Seq(ToSet(a)), b \in Seq(ToSet(b))
  PROVE  a \o b \in Seq(ToSet(a \o b)) /\ ToSet(a \o b) = ToSet(a) \cup ToSet(b)
<1> DEFINE S == ToSet(a) \cup ToSet(b)
<1>1. a \in Seq(S) /\ b \in Seq(S)
  <2>1. \A T : T \subseteq S => Seq(T) \subseteq Seq(S)
    OBVIOUS
  <2> QED
    BY <2>1
<1> HIDE DEF S
<1>2. a \o b \in Seq(S) /\ ToSet(a \o b) = ToSet(a) \cup ToSet(b)
  BY <1>1, EntriesOfBoth
<1> QED
  BY <1>2 DEF S

\* gamma_agree_for_round_ after push_front and pop_back
LEMMA PushedAgree ==
  ASSUME gamma_agree \in Seq(ToSet(gamma_agree)), NEW ov
  PROVE  LET agree == PushAgree(ov)
             n     == Len(gamma_agree)
         IN  /\ agree \in Seq(ToSet(agree))
             /\ n \in Nat
             /\ Len(agree) = IF n + 1 > calculate_agreement_time(Dimension) THEN n ELSE n + 1
             /\ \A i \in 1 .. Len(agree) :
                  agree[i] = IF i = 1 THEN ov.st.gamma_agree ELSE gamma_agree[i - 1]
<1> DEFINE n == Len(gamma_agree)
           x == ov.st.gamma_agree
           S == ToSet(gamma_agree) \cup {x}
           all == <<x>> \o gamma_agree
           len == IF n + 1 > calculate_agreement_time(Dimension) THEN n ELSE n + 1
           agree == PushAgree(ov)
<1> HIDE DEF x, S
<1>1. gamma_agree \in Seq(S)
  <2>1. \A T : T \subseteq S => Seq(T) \subseteq Seq(S)
    OBVIOUS
  <2> QED
    BY <2>1 DEF S
<1>2. n \in Nat /\ len \in 0 .. (n + 1)
  BY <1>1, TimingTypes
<1>3. x \in S
  BY DEF S
<1>4. /\ all \in Seq(S) /\ Len(all) = n + 1
      /\ \A i \in 1 .. (n + 1) : all[i] = IF i = 1 THEN x ELSE gamma_agree[i - 1]
  BY <1>1, <1>3
<1>5. agree = SubSeq(all, 1, len)
  BY DEF PushAgree, x
<1> HIDE DEF all, len, agree, n
<1>6. /\ agree = [i \in 1 .. len |-> all[i]]
  BY <1>2, <1>4, <1>5
<1>7. agree \in Seq(ToSet(agree)) /\ Len(agree) = len
  BY <1>2, <1>6, ListIsSeq
<1>8. \A i \in 1 .. len : agree[i] = IF i = 1 THEN x ELSE gamma_agree[i - 1]
  BY <1>2, <1>4, <1>6
<1> QED
  BY <1>2, <1>7, <1>8 DEF agree, n, len, x

\* A run that has been updated: it has passed its report on and knows at
\* least itself.
RunShape(run) ==
  /\ run = [message |-> run.message, aware |-> run.aware, aware_nodes |-> run.aware_nodes,
            participating_nodes |-> run.participating_nodes, round |-> run.round]
  /\ run.message \in MessageType

UpdatedShape(run) ==
  /\ RunShape(run)
  /\ run.aware = FALSE /\ run.aware_nodes # {}
  /\ run.round \in 0 .. (calculate_agreement_time(Dimension) - 1)

RunsInv ==
  /\ gamma_agree \in Seq(ToSet(gamma_agree))
  /\ agreement_tuples \in Seq(Runs)
  /\ \A run \in Runs :
       /\ UpdatedShape(run)
       /\ run.round < Len(gamma_agree) =>
            run.participating_nodes = gamma_agree[run.round + 1]

\* The runs of a round: those of the round before, those announcements start
\* and those reports start.
LEMMA AllRunsEntries ==
  ASSUME RunsInv, BufferTyped(in[0]), NEW agree
  PROVE  LET begun == agreement_tuples \o Started(agree)
             all   == AllRuns(agree)
         IN  /\ begun \in Seq(ToSet(begun))
             /\ all \in Seq(ToSet(all))
             /\ ToSet(begun) = Runs \cup ToSet(Started(agree))
             /\ ToSet(all) = ToSet(begun) \cup ToSet(Joined(begun, agree))
             /\ \A run \in ToSet(Started(agree)) : \E m \in ToSet(in[0].announce) :
                  run = AgreementRun(m, TRUE, agree[2], 0)
             /\ \A run \in ToSet(Joined(begun, agree)) : \E j \in Unknown(begun) :
                  LET a == in[0].agreement[j]
                  IN  run = AgreementRun(a.m, FALSE, agree[a.l + 1], WSub(a.l, 1))
<1> DEFINE started == Started(agree)
           begun == agreement_tuples \o started
           joined == Joined(begun, agree)
           vec == in[0].announce
           reports == in[0].agreement
<1>1. vec \in Seq(MessageType) /\ reports \in Seq(AgreementType)
  BY DEF BufferTyped
<1>2. /\ started \in Seq(ToSet(started))
      /\ \A run \in ToSet(started) : \E m \in ToSet(vec) : run = AgreementRun(m, TRUE, agree[2], 0)
  <2>1. Len(vec) \in Nat /\ DOMAIN vec = 1 .. Len(vec)
    BY <1>1
  <2>2. started = [i \in 1 .. Len(vec) |-> AgreementRun(vec[i], TRUE, agree[2], 0)]
    BY <2>1 DEF Started
  <2> HIDE DEF started
  <2>3. started \in Seq(ToSet(started))
    <3>1. DOMAIN started = 1 .. Len(vec) /\ started = [i \in 1 .. Len(vec) |-> started[i]]
      BY <2>2
    <3> QED
      BY <2>1, <3>1, ListIsSeq
  <2> QED
    BY <2>1, <2>2, <2>3 DEF ToSet
<1> HIDE DEF started
<1>3. agreement_tuples \in Seq(ToSet(agreement_tuples))
  BY DEF RunsInv, Runs
<1>4. begun \in Seq(ToSet(begun)) /\ ToSet(begun) = Runs \cup ToSet(started)
  BY <1>2, <1>3, EntriesOfAny DEF Runs
<1> HIDE DEF begun
<1>5. /\ joined \in Seq(ToSet(joined))
      /\ \A run \in ToSet(joined) : \E j \in Unknown(begun) :
           LET a == reports[j] IN run = AgreementRun(a.m, FALSE, agree[a.l + 1], WSub(a.l, 1))
  <2> DEFINE wanted == Unknown(begun)
             news == Selected(reports, wanted)
             runOf(a) == AgreementRun(a.m, FALSE, agree[a.l + 1], WSub(a.l, 1))
  <2>1. wanted \in SUBSET (DOMAIN reports)
    BY DEF Unknown
  <2>2. IsFiniteSet(wanted) /\ wanted \in SUBSET Int
    BY <1>1, <2>1, SelectedIsSeq
  <2>3. joined = [k \in DOMAIN news |-> runOf(news[k])]
    BY DEF Joined
  <2> HIDE DEF wanted, reports, runOf, joined
  <2>4. /\ DOMAIN news = 1 .. Cardinality(wanted) /\ Cardinality(wanted) \in Nat
        /\ \A k \in DOMAIN news : \E j \in wanted : news[k] = reports[j]
    <3>1. /\ Cardinality(wanted) \in Nat
          /\ DOMAIN news = 1 .. Cardinality(wanted)
          /\ \A k \in DOMAIN news :
               Place(wanted, k) \in wanted /\ news[k] = reports[Place(wanted, k)]
      BY <2>2, SelectedEntries, Zenon
    <3> QED
      BY <3>1, Zenon
  <2> HIDE DEF news
  <2>5. /\ DOMAIN joined = 1 .. Cardinality(wanted)
        /\ joined = [k \in 1 .. Cardinality(wanted) |-> joined[k]]
        /\ \A k \in DOMAIN joined : \E j \in wanted : joined[k] = runOf(reports[j])
    BY <2>3, <2>4
  <2>6. joined \in Seq(ToSet(joined))
    BY <2>4, <2>5, ListIsSeq
  <2>7. \A run \in ToSet(joined) : \E j \in wanted : run = runOf(reports[j])
    BY <2>5 DEF ToSet
  <2> QED
    BY <2>6, <2>7 DEF runOf, wanted
<1> HIDE DEF joined
<1>6. begun \o joined \in Seq(ToSet(begun \o joined))
      /\ ToSet(begun \o joined) = ToSet(begun) \cup ToSet(joined)
  BY <1>4, <1>5, EntriesOfAny
<1>7. AllRuns(agree) = begun \o joined
  BY DEF AllRuns, begun, joined, started
<1> QED
  BY <1>2, <1>4, <1>5, <1>6, <1>7 DEF begun, joined, started

\* The update and the end of a run: its own report goes out now, and its
\* round is counted.
LEMMA UpdateOfRun ==
  ASSUME NEW run, RunShape(run)
  PROVE  LET new == FinalizedRun(UpdatedRun(run))
         IN  /\ RunShape(new)
             /\ new.aware = FALSE /\ new.aware_nodes # {}
             /\ new.message = run.message
             /\ new.participating_nodes = run.participating_nodes
             /\ new.round = WAdd(run.round, 1)
<1> DEFINE up  == UpdatedRun(run)
           new == FinalizedRun(up)
           nodes == Updated(run.aware_nodes, run.aware, own_id, Reporters(run))
<1>1. up = [message |-> run.message, aware |-> FALSE, aware_nodes |-> nodes,
            participating_nodes |-> run.participating_nodes, round |-> WAdd(run.round, 1)]
  <2>1. PICK m, a, s, peers, r :
          run = [message |-> m, aware |-> a, aware_nodes |-> s, participating_nodes |-> peers,
                 round |-> r]
    BY DEF RunShape
  <2>2. up = [run EXCEPT !.aware_nodes = nodes, !.round = WAdd(run.round, 1), !.aware = FALSE]
    BY DEF UpdatedRun
  <2> HIDE DEF nodes, up
  <2>3. /\ run.message = m /\ run.aware = a /\ run.aware_nodes = s
        /\ run.participating_nodes = peers /\ run.round = r
    BY <2>1
  <2> QED
    BY <2>1, <2>2, <2>3
<1>2. nodes # {}
  BY DEF Updated
<1> HIDE DEF nodes, up
<1>3. new = [message |-> run.message, aware |-> FALSE, aware_nodes |-> new.aware_nodes,
             participating_nodes |-> run.participating_nodes, round |-> WAdd(run.round, 1)]
      /\ new.aware_nodes # {}
  <2>1. CASE IsFinal(up)
    <3> DEFINE ends == Finalized(up.aware_nodes, own_id, Reporters(up))
    <3>1. new = [up EXCEPT !.aware_nodes = ends]
      BY <2>1 DEF FinalizedRun
    <3>2. ends # {}
      BY DEF Finalized
    <3> HIDE DEF ends, new
    <3> QED
      BY <1>1, <3>1, <3>2
  <2>2. CASE ~IsFinal(up)
    BY <1>1, <1>2, <2>2 DEF FinalizedRun
  <2> QED
    BY <2>1, <2>2
<1> HIDE DEF new
<1>4. RunShape(new)
  BY <1>3 DEF RunShape
<1> QED
  BY <1>3, <1>4 DEF new, up

\* What is left of the runs after their update
LEMMA RunsAfterEntries ==
  ASSUME NEW agree, AllRuns(agree) \in Seq(ToSet(AllRuns(agree)))
  PROVE  LET after == RunsAfter(agree)
             all   == AllRuns(agree)
         IN  /\ after \in Seq(ToSet(after))
             /\ \A new \in ToSet(after) :
                  /\ new.round # calculate_agreement_time(Dimension)
                  /\ \E run \in ToSet(all) : new = FinalizedRun(UpdatedRun(run))
<1> DEFINE all == AllRuns(agree)
           runs == [i \in DOMAIN all |-> FinalizedRun(UpdatedRun(all[i]))]
           wanted == {i \in DOMAIN runs : runs[i].round # calculate_agreement_time(Dimension)}
           after == RunsAfter(agree)
<1>1. after = Selected(runs, wanted)
  BY DEF RunsAfter, Advanced, Filtered
<1> HIDE DEF after, all
<1>2. Len(all) \in Nat /\ DOMAIN all = 1 .. Len(all)
  BY DEF all
<1>3. runs \in Seq(ToSet(runs))
  <2>1. DOMAIN runs = 1 .. Len(all) /\ runs = [i \in 1 .. Len(all) |-> runs[i]]
    BY <1>2
  <2> HIDE DEF runs
  <2> QED
    BY <1>2, <2>1, ListIsSeq
<1>4. wanted \in SUBSET (DOMAIN runs)
  OBVIOUS
<1>5. \A i \in wanted : /\ runs[i].round # calculate_agreement_time(Dimension)
                        /\ \E run \in ToSet(all) : runs[i] = FinalizedRun(UpdatedRun(run))
  BY DEF ToSet
<1> HIDE DEF wanted, runs
<1>6. /\ after \in Seq(ToSet(runs))
      /\ IsFiniteSet(wanted) /\ wanted \in SUBSET Int
  BY <1>1, <1>3, <1>4, SelectedIsSeq
<1>7. /\ Cardinality(wanted) \in Nat
      /\ DOMAIN after = 1 .. Cardinality(wanted)
      /\ \A k \in DOMAIN after : Place(wanted, k) \in wanted /\ after[k] = runs[Place(wanted, k)]
  <2>1. IsFiniteSet(wanted) /\ wanted \in SUBSET Int
    BY <1>6
  <2>2. LET s == Selected(runs, wanted)
        IN  /\ Cardinality(wanted) \in Nat
            /\ DOMAIN s = 1 .. Cardinality(wanted)
            /\ \A k \in DOMAIN s : Place(wanted, k) \in wanted /\ s[k] = runs[Place(wanted, k)]
    BY ONLY <2>1, SelectedEntries, Zenon
  <2> QED
    BY ONLY <1>1, <2>2
<1>8. after \in Seq(ToSet(after))
  <2>1. after = [k \in 1 .. Cardinality(wanted) |-> after[k]]
    BY <1>6, <1>7
  <2> QED
    BY <1>7, <2>1, ListIsSeq
<1>9. \A new \in ToSet(after) : \E i \in wanted : new = runs[i]
  BY <1>7, Zenon DEF ToSet
<1> QED
  BY <1>5, <1>8, <1>9, Zenon DEF all, after

\* The words of rounds and reports come back after a step down and one up.
LEMMA UpAgain ==
  ASSUME NEW w \in Words
  PROVE  WAdd(WSub(w, 1), 1) = w
<1>1. w \in Nat /\ w < Word /\ Word \in Nat
  BY WordsSuffice DEF Words
<1> QED
  BY <1>1 DEF WAdd, WSub

\* A run after its update, by the way it has come about
Continues(run, new) == new.round = run.round + 1 /\ new.participating_nodes = run.participating_nodes
                       /\ new.message = run.message
StartsFrom(m, new, agree) == new.round = 1 /\ new.participating_nodes = agree[2] /\ new.message = m
JoinsFrom(a, new, agree) == new.round = a.l /\ new.participating_nodes = agree[a.l + 1]
                            /\ new.message = a.m

\* A run after a round was there before, was announced, or was reported.
LEMMA RunsOfRound ==
  ASSUME RunsInv, BufferTyped(in[0]), NEW agree
  PROVE  LET after == RunsAfter(agree)
             begun == agreement_tuples \o Started(agree)
         IN  /\ after \in Seq(ToSet(after))
             /\ \A new \in ToSet(after) :
                  /\ UpdatedShape(new)
                  /\ \/ \E run \in Runs : Continues(run, new)
                     \/ \E m \in ToSet(in[0].announce) : StartsFrom(m, new, agree)
                     \/ \E j \in Unknown(begun) : JoinsFrom(in[0].agreement[j], new, agree)
<1> DEFINE after == RunsAfter(agree)
           all   == AllRuns(agree)
           begun == agreement_tuples \o Started(agree)
           T     == calculate_agreement_time(Dimension)
<1>1. /\ all \in Seq(ToSet(all))
      /\ ToSet(all) = Runs \cup ToSet(Started(agree)) \cup ToSet(Joined(begun, agree))
      /\ \A run \in ToSet(Started(agree)) : \E m \in ToSet(in[0].announce) :
           run = AgreementRun(m, TRUE, agree[2], 0)
      /\ \A run \in ToSet(Joined(begun, agree)) : \E j \in Unknown(begun) :
           LET a == in[0].agreement[j]
           IN  run = AgreementRun(a.m, FALSE, agree[a.l + 1], WSub(a.l, 1))
  BY AllRunsEntries
<1>2. /\ after \in Seq(ToSet(after))
      /\ \A new \in ToSet(after) :
           new.round # T /\ \E run \in ToSet(all) : new = FinalizedRun(UpdatedRun(run))
  BY <1>1, RunsAfterEntries
<1>3. T \in Nat /\ T >= 2 /\ T + 1 < Word /\ Word \in Nat
  BY WordsSuffice
<1>4. /\ \A m \in ToSet(in[0].announce) : m \in MessageType
      /\ \A j \in DOMAIN in[0].agreement : in[0].agreement[j] \in AgreementType
  BY DEF BufferTyped, ToSet
<1> HIDE DEF all, after, T
<1>5. ASSUME NEW new \in ToSet(after)
      PROVE  /\ UpdatedShape(new)
             /\ \/ \E run \in Runs : Continues(run, new)
                \/ \E m \in ToSet(in[0].announce) : StartsFrom(m, new, agree)
                \/ \E j \in Unknown(begun) : JoinsFrom(in[0].agreement[j], new, agree)
  <2>1. PICK run \in ToSet(all) : new = FinalizedRun(UpdatedRun(run))
    BY <1>2
  <2>2. new.round # T
    BY <1>2
  <2>3. CASE run \in Runs
    <3>1. UpdatedShape(run)
      BY <2>3 DEF RunsInv
    <3>2. /\ RunShape(new) /\ new.aware = FALSE /\ new.aware_nodes # {}
          /\ new.message = run.message
          /\ new.participating_nodes = run.participating_nodes
          /\ new.round = WAdd(run.round, 1)
      BY <2>1, <3>1, UpdateOfRun DEF UpdatedShape
    <3>3. run.round \in 0 .. (T - 1)
      BY <3>1 DEF UpdatedShape, T
    <3>4. new.round = run.round + 1
      BY <1>3, <3>2, <3>3 DEF WAdd
    <3>5. new.round \in 0 .. (T - 1)
      BY <1>3, <2>2, <3>3, <3>4
    <3>6. UpdatedShape(new)
      BY <3>2, <3>5 DEF UpdatedShape, T
    <3>7. Continues(run, new)
      BY <3>2, <3>4 DEF Continues
    <3> QED
      BY <2>3, <3>6, <3>7
  <2>4. CASE run \in ToSet(Started(agree))
    <3>1. PICK m \in ToSet(in[0].announce) : run = AgreementRun(m, TRUE, agree[2], 0)
      BY <1>1, <2>4
    <3>2. m \in MessageType
      BY <1>4
    <3>3. /\ RunShape(run) /\ run.message = m /\ run.participating_nodes = agree[2]
          /\ run.round = 0
      <4> DEFINE peers == agree[2]
      <4>1. run = [message |-> m, aware |-> TRUE, aware_nodes |-> {},
                   participating_nodes |-> peers, round |-> 0]
        BY <3>1 DEF AgreementRun
      <4> HIDE DEF peers
      <4>2. RunShape(run) /\ run.message = m /\ run.participating_nodes = peers
            /\ run.round = 0
        BY <3>2, <4>1 DEF RunShape
      <4> QED
        BY <4>2 DEF peers
    <3>4. /\ RunShape(new) /\ new.aware = FALSE /\ new.aware_nodes # {}
          /\ new.message = m /\ new.participating_nodes = agree[2]
          /\ new.round = WAdd(0, 1)
      BY <2>1, <3>3, UpdateOfRun
    <3>5. new.round = 1
      BY <1>3, <3>4 DEF WAdd
    <3>6. UpdatedShape(new)
      BY <1>3, <3>4, <3>5 DEF UpdatedShape, T
    <3>7. StartsFrom(m, new, agree)
      BY <3>4, <3>5 DEF StartsFrom
    <3> QED
      BY <3>6, <3>7
  <2>5. CASE run \in ToSet(Joined(begun, agree))
    <3>1. PICK j \in Unknown(begun) :
            run = AgreementRun(in[0].agreement[j].m, FALSE, agree[in[0].agreement[j].l + 1],
                               WSub(in[0].agreement[j].l, 1))
      BY <1>1, <2>5
    <3> DEFINE a == in[0].agreement[j]
    <3>2. j \in DOMAIN in[0].agreement /\ a.l < T - 1
      BY DEF Unknown, T
    <3>3. a \in AgreementType
      BY <1>4, <3>2
    <3> HIDE DEF a
    <3>4. a.m \in MessageType /\ a.l \in Words
      BY <3>3 DEF AgreementType
    <3>5. /\ RunShape(run) /\ run.message = a.m /\ run.participating_nodes = agree[a.l + 1]
          /\ run.round = WSub(a.l, 1)
      <4> DEFINE peers == agree[a.l + 1]
                 round == WSub(a.l, 1)
                 m     == a.m
      <4>1. run = [message |-> m, aware |-> FALSE, aware_nodes |-> {},
                   participating_nodes |-> peers, round |-> round]
        BY <3>1 DEF AgreementRun, a
      <4>2. m \in MessageType
        BY <3>4
      <4> HIDE DEF peers, round, m
      <4>3. RunShape(run) /\ run.message = m /\ run.participating_nodes = peers
            /\ run.round = round
        BY <4>1, <4>2 DEF RunShape
      <4> QED
        BY <4>3 DEF peers, round, m
    <3>6. /\ RunShape(new) /\ new.aware = FALSE /\ new.aware_nodes # {}
          /\ new.message = a.m /\ new.participating_nodes = agree[a.l + 1]
          /\ new.round = WAdd(WSub(a.l, 1), 1)
      BY <2>1, <3>5, UpdateOfRun
    <3>7. new.round = a.l
      BY <3>4, <3>6, UpAgain
    <3>8. UpdatedShape(new)
      <4>1. a.l \in 0 .. (T - 1)
        BY <1>3, <3>2, <3>4 DEF Words, a
      <4> QED
        BY <3>6, <3>7, <4>1 DEF UpdatedShape, T
    <3>9. JoinsFrom(a, new, agree)
      BY <3>6, <3>7 DEF JoinsFrom
    <3> QED
      BY <3>8, <3>9 DEF a
  <2> QED
    BY <1>1, <2>1, <2>3, <2>4, <2>5
<1> QED
  BY <1>2, <1>5 DEF after

\* Every round shifts the peers of all rounds by one, and the runs with them.
LEMMA TrafficOutRuns ==
  ASSUME TypeInv, RunsInv, BufferTyped(in[0]), traffic_out
  PROVE  RunsInv'
<1>1. CASE crashed' # "no"
  <2>1. UNCHANGED <<gamma_agree, agreement_tuples>>
    BY <1>1 DEF traffic_out, RunRound, Crash, memory, roundVars, Running
  <2> QED
    BY <2>1 DEF RunsInv, Runs
<1>2. CASE crashed' = "no"
  <2>1. PICK l \in 0 .. MaxTime, random \in Quorums :
          LET ov == OverlayUpdate(overlay, l, in[0].structure, random, NoPeer)
          IN  /\ gamma_agree' = PushAgree(ov)
              /\ agreement_tuples' = RunsAfter(PushAgree(ov))
    BY <1>2, RoundStep, Zenon
  <2> DEFINE ov == OverlayUpdate(overlay, l, in[0].structure, random, NoPeer)
             agree == PushAgree(ov)
             n == Len(gamma_agree)
  <2>2. gamma_agree' = agree /\ agreement_tuples' = RunsAfter(agree)
    BY <2>1
  <2> HIDE DEF ov
  <2>3. /\ agree \in Seq(ToSet(agree))
        /\ n \in Nat
        /\ Len(agree) \in Nat /\ Len(agree) <= n + 1
        /\ \A i \in 1 .. Len(agree) :
             agree[i] = IF i = 1 THEN ov.st.gamma_agree ELSE gamma_agree[i - 1]
    <3>1. gamma_agree \in Seq(ToSet(gamma_agree))
      BY DEF RunsInv
    <3>2. /\ agree \in Seq(ToSet(agree))
          /\ n \in Nat
          /\ Len(agree) = IF n + 1 > calculate_agreement_time(Dimension) THEN n ELSE n + 1
          /\ \A i \in 1 .. Len(agree) :
               agree[i] = IF i = 1 THEN ov.st.gamma_agree ELSE gamma_agree[i - 1]
      BY <3>1, PushedAgree, Zenon
    <3> HIDE DEF agree, n
    <3>3. Len(agree) \in Nat /\ Len(agree) <= n + 1
      BY <3>2, TimingTypes
    <3> QED
      BY <3>2, <3>3
  <2> HIDE DEF agree
  <2>4. /\ agreement_tuples' \in Seq(ToSet(agreement_tuples'))
        /\ \A new \in ToSet(agreement_tuples') :
             /\ UpdatedShape(new)
             /\ \/ \E run \in Runs : Continues(run, new)
                \/ \E m \in ToSet(in[0].announce) : StartsFrom(m, new, agree)
                \/ \E j \in Unknown(agreement_tuples \o Started(agree)) :
                     JoinsFrom(in[0].agreement[j], new, agree)
    BY <2>2, RunsOfRound, Zenon
  <2>5. ASSUME NEW new \in ToSet(agreement_tuples'), new.round < Len(agree)
        PROVE  new.participating_nodes = agree[new.round + 1]
    <3>1. CASE \E run \in Runs : Continues(run, new)
      <4>1. PICK run \in Runs : Continues(run, new)
        BY <3>1
      <4>2. /\ run.round \in Nat
            /\ run.round < n => run.participating_nodes = gamma_agree[run.round + 1]
        BY TimingTypes DEF RunsInv, UpdatedShape
      <4>3. new.round = run.round + 1 /\ new.participating_nodes = run.participating_nodes
        BY <4>1 DEF Continues
      <4>4. run.round < n /\ new.round + 1 \in 1 .. Len(agree) /\ new.round + 1 # 1
        BY <2>3, <2>5, <4>2, <4>3
      <4>5. agree[new.round + 1] = gamma_agree[new.round]
        BY <2>3, <4>2, <4>3, <4>4
      <4> QED
        BY <4>2, <4>3, <4>4, <4>5
    <3>2. CASE \E m \in ToSet(in[0].announce) : StartsFrom(m, new, agree)
      BY <3>2 DEF StartsFrom
    <3>3. CASE \E j \in Unknown(agreement_tuples \o Started(agree)) :
                 JoinsFrom(in[0].agreement[j], new, agree)
      BY <3>3 DEF JoinsFrom
    <3> QED
      BY <2>4, <3>1, <3>2, <3>3
  <2>6. Runs' = ToSet(agreement_tuples')
    BY DEF Runs
  <2> QED
    BY <2>2, <2>3, <2>4, <2>5, <2>6 DEF RunsInv, UpdatedShape, RunShape
<1> QED
  BY <1>1, <1>2
TrafficInv == TypeInv /\ InboxInv /\ RunsInv

\* Without runs the invariant of the runs holds.
LEMMA InitRuns == Init => RunsInv
<1> SUFFICES ASSUME Init PROVE RunsInv
  OBVIOUS
<1>1. gamma_agree = <<>> /\ agreement_tuples = <<>>
  BY DEF Init
<1>2. ToSet(<<>>) = {} /\ <<>> \in Seq({})
  BY DEF ToSet
<1> QED
  BY <1>1, <1>2 DEF RunsInv, Runs

\* Only traffic_out touches the runs.
LEMMA OtherRuns ==
  ASSUME [Next]_vars, ~(traffic_out /\ UNCHANGED copies)
  PROVE  UNCHANGED <<gamma_agree, agreement_tuples, out>>
<1>1. CASE TrafficIn
  BY <1>1 DEF TrafficIn, traffic_in, Crash, memory, roundVars
<1>2. CASE ~TrafficIn
  BY <1>2 DEF Next, Tick, ServerPacket, received_msg_from_server, first_packet_from_peer,
              generate_pseudonym, SendMessage, send_message, ReceiveMessage, receive_message,
              Crash, memory, vars, roundVars
<1> QED
  BY <1>1, <1>2

\* Every step keeps the invariants of types, buffers and runs.
LEMMA NextTraffic == TrafficInv /\ [Next]_vars => TrafficInv'
<1> SUFFICES ASSUME TrafficInv, [Next]_vars PROVE TrafficInv'
  OBVIOUS
<1>1. TypeInv' /\ InboxInv'
  BY NextTypeInv, NextInbox DEF TrafficInv
<1>2. RunsInv'
  <2>1. CASE traffic_out /\ UNCHANGED copies
    BY <2>1, TrafficOutRuns DEF TrafficInv, InboxInv
  <2>2. CASE ~(traffic_out /\ UNCHANGED copies)
    BY <2>2, OtherRuns DEF TrafficInv, RunsInv, Runs
  <2> QED
    BY <2>1, <2>2
<1> QED
  BY <1>1, <1>2 DEF TrafficInv

\* These invariants hold in all reachable states.
LEMMA TrafficCorrect == Spec => []TrafficInv
<1>1. Init => TrafficInv
  BY InitTypeInv, InitInbox, InitRuns DEF TrafficInv
<1> QED
  BY <1>1, NextTraffic, PTL DEF Spec

(* Every run of the agreement ends with its last round, for every          *)
(* dimension and whatever the peers report: the update counts its round    *)
(* and the loop behind it erases what is over                              *)
(* (client_enclave.cpp:266-321).                                           *)
THEOREM AgreementEnds == Spec => []AgreementBounded
<1>1. TrafficInv => AgreementBounded
  BY WordsSuffice DEF TrafficInv, RunsInv, UpdatedShape, AgreementBounded
<1> QED
  BY <1>1, TrafficCorrect, PTL

(* However many rounds pass and however the overlay moves its quorums: the *)
(* participants of a run stay the agreement peers of the round in which it *)
(* was announced (client_enclave.cpp:224-227, 247, 262).                   *)
THEOREM ParticipantsStay == Spec => []ParticipantsOfItsRound
<1>1. TrafficInv => ParticipantsOfItsRound
  BY DEF TrafficInv, RunsInv, ParticipantsOfItsRound
<1> QED
  BY <1>1, TrafficCorrect, PTL

-----------------------------------------------------------------------------
(* The pace of the agreement, if the other peers keep time.                *)

\* The rounds for which peers are remembered
RoundsPushed ==
  \/ cur_round = Word - 1 /\ gamma_agree = <<>> /\ agreement_tuples = <<>>
  \/ /\ cur_round \in 0 .. MaxTime
     /\ Len(gamma_agree) = IF cur_round + 1 < calculate_agreement_time(Dimension)
                           THEN cur_round + 1 ELSE calculate_agreement_time(Dimension)

\* Runs of messages have been through their first round.
RunsBegun == \A run \in Runs : ~is_dummy(run.message.t_dst) => run.round >= 1

PaceInv == RoundsPushed /\ RunsLagLittle /\ RunsBegun /\ AgreePeersKnown

\* What the peers of the round have announced and reported when the next
\* round, l, is entered
EntriesOnTime(l) ==
  /\ \A m \in ToSet(in[0].announce) :
       l - 1 \in Nat /\ (~is_dummy(m.t_dst) => AnnouncedFor(m) = l - 1)
  /\ \A a \in ToSet(in[0].agreement) :
       /\ l - 1 \in Nat /\ a.l <= l - 1
       /\ ~is_dummy(a.m.t_dst) => a.l >= 2 /\ l - 1 = AnnouncedFor(a.m) + 2 * (a.l - 1)

\* If the peers keep time, what a round reads is on time for it.
LEMMA EntriesKeepTime ==
  ASSUME PeersKeepTime, InboxInv, NEW l \in 0 .. MaxTime, cur_round = WSub(l, 1)
  PROVE  EntriesOnTime(l)
<1>1. l \in Nat /\ Word \in Nat /\ MaxTime \in Nat /\ MaxTime + 3 < Word
      /\ Stamps \subseteq 0 .. (MaxTime + 2)
  BY WordsSuffice
<1>2. ComesFrom(in[0], Carried(cur_round))
  <2>1. WAdd(cur_round, 0) = cur_round
    BY RoundReached
  <2>2. ComesFrom(in[0], Carried(WAdd(cur_round, 0)))
    BY DEF InboxInv
  <2> QED
    BY <2>1, <2>2
<1>3. ASSUME NEW p \in Carried(cur_round)
      PROVE  l - 1 \in Nat /\ KeepsTime(p, l - 1)
  <2>1. PICK sender \in Peers : Copies(<<sender, cur_round>>) > 0
                                /\ p \in Payloads(sender, cur_round)
    BY DEF Carried, Heard
  <2>2. <<sender, cur_round>> \in DOMAIN copies
    BY <2>1 DEF Copies
  <2>3. cur_round \in Stamps
    BY <2>2 DEF InboxInv, CopiesCounted
  <2>4. l # 0 /\ cur_round = l - 1
    BY <1>1, <2>3, RoundReached
  <2> QED
    BY <1>1, <2>1, <2>3, <2>4 DEF PeersKeepTime
<1>4. ASSUME NEW m \in ToSet(in[0].announce)
      PROVE  l - 1 \in Nat /\ (~is_dummy(m.t_dst) => AnnouncedFor(m) = l - 1)
  <2>1. PICK p \in Carried(cur_round) : m \in ToSet(p.announce)
    BY <1>2 DEF ComesFrom
  <2> QED
    BY <1>3, <2>1 DEF KeepsTime
<1>5. ASSUME NEW a \in ToSet(in[0].agreement)
      PROVE  /\ l - 1 \in Nat /\ a.l <= l - 1
             /\ ~is_dummy(a.m.t_dst) => a.l >= 2 /\ l - 1 = AnnouncedFor(a.m) + 2 * (a.l - 1)
  <2>1. PICK p \in Carried(cur_round) : a \in ToSet(p.agreement)
    BY <1>2 DEF ComesFrom
  <2> QED
    BY <1>3, <2>1 DEF KeepsTime
<1> QED
  BY <1>4, <1>5 DEF EntriesOnTime

\* What a report in a buffer is
LEMMA ReportType ==
  ASSUME NEW vec \in Seq(AgreementType), NEW a \in ToSet(vec)
  PROVE  a.m \in MessageType /\ a.l \in Words /\ a.l \in Nat
<1>1. a \in AgreementType
  <2>1. \A i \in DOMAIN vec : vec[i] \in AgreementType
    OBVIOUS
  <2> QED
    BY <2>1 DEF ToSet
<1>2. a.m \in MessageType /\ a.l \in Words
  BY <1>1 DEF AgreementType
<1> QED
  BY <1>2, TimingTypes DEF Words

\* The round in which a message is announced is an integer.
LEMMA AnnouncedForType ==
  ASSUME NEW m \in MessageType
  PROVE  AnnouncedFor(m) \in Int
<1>1. m.t_dst \in Nat
  BY WordsSuffice DEF MessageType, Words
<1> QED
  BY <1>1, TimingTypes DEF AnnouncedFor, calculate_round_from_t

\* Entering a round adds its agreement peers, up to those of the time an
\* agreement takes.
LEMMA RoundPushed ==
  ASSUME RunsInv, RoundsPushed, NEW l \in 0 .. MaxTime, cur_round = WSub(l, 1), NEW ov
  PROVE  Len(PushAgree(ov)) = IF l + 1 < calculate_agreement_time(Dimension)
                              THEN l + 1 ELSE calculate_agreement_time(Dimension)
<1> DEFINE T == calculate_agreement_time(Dimension)
           n == Len(gamma_agree)
<1>1. T \in Nat /\ T >= 2 /\ l \in Nat /\ l + 1 < Word /\ Word \in Nat /\ MaxTime + 1 < Word
      /\ MaxTime \in Nat
  BY WordsSuffice
<1>2. Len(PushAgree(ov)) = IF n + 1 > T THEN n ELSE n + 1
  <2>1. gamma_agree \in Seq(ToSet(gamma_agree))
    BY DEF RunsInv
  <2> QED
    BY <2>1, PushedAgree, Zenon
<1>3. cur_round = IF l = 0 THEN Word - 1 ELSE l - 1
  BY RoundReached
<1>4. n = IF l < T THEN l ELSE T
  <2>1. CASE l = 0
    <3>1. cur_round \notin 0 .. MaxTime
      BY <1>1, <1>3, <2>1
    <3>2. gamma_agree = <<>>
      BY <3>1 DEF RoundsPushed
    <3> QED
      BY <1>1, <2>1, <3>2
  <2>2. CASE l # 0
    <3>1. cur_round # Word - 1 /\ cur_round + 1 = l
      BY <1>1, <1>3, <2>2
    <3>2. n = IF cur_round + 1 < T THEN cur_round + 1 ELSE T
      BY <3>1 DEF RoundsPushed
    <3> QED
      BY <3>1, <3>2
  <2> QED
    BY <2>1, <2>2
<1> HIDE DEF T, n
<1> QED
  BY <1>1, <1>2, <1>4 DEF T

\* The peers of the round an announcement or a report comes from are known.
LEMMA AgreeIndexValid ==
  ASSUME PeersKeepTime, InboxInv, RunsInv, RoundsPushed,
         NEW l \in 0 .. MaxTime, cur_round = WSub(l, 1), NEW ov
  PROVE  ~AgreeIndexFault(PushAgree(ov))
<1> DEFINE agree == PushAgree(ov)
           T == calculate_agreement_time(Dimension)
           reports == in[0].agreement
<1>1. T \in Nat /\ T >= 2 /\ l \in Nat
  BY WordsSuffice
<1>2. Len(agree) = IF l + 1 < T THEN l + 1 ELSE T
  BY RoundPushed
<1>3. EntriesOnTime(l)
  BY EntriesKeepTime
<1>4. in[0].announce \in Seq(MessageType) /\ reports \in Seq(AgreementType)
  BY DEF InboxInv, BufferTyped
<1> HIDE DEF agree, T, reports
<1>5. in[0].announce # <<>> => Len(agree) >= 2
  <2> SUFFICES ASSUME in[0].announce # <<>> PROVE Len(agree) >= 2
    OBVIOUS
  <2>1. 1 \in DOMAIN in[0].announce
    BY <1>4
  <2>2. l - 1 \in Nat
    BY <1>3, <2>1 DEF EntriesOnTime, ToSet
  <2> QED
    BY <1>1, <1>2, <2>2
<1>6. ASSUME NEW j \in DOMAIN reports, reports[j].l < T - 1
      PROVE  ~(reports[j].l + 1 > Len(agree))
  <2>1. reports[j] \in ToSet(reports)
    BY DEF ToSet
  <2>2. l - 1 \in Nat /\ reports[j].l <= l - 1
    BY <1>3, <2>1 DEF EntriesOnTime, reports
  <2>3. reports[j].l \in Nat
    BY <1>4, <2>1, ReportType
  <2> QED
    BY <1>1, <1>2, <1>6, <2>2, <2>3
<1>7. \A runs : \A j \in Unknown(runs) : j \in DOMAIN reports /\ reports[j].l < T - 1
  BY DEF Unknown, reports, T
<1>8. ~(Len(agree) < 2) \/ in[0].announce = <<>>
  BY <1>1, <1>2, <1>5
<1> QED
  BY <1>6, <1>7, <1>8 DEF AgreeIndexFault, agree, reports

\* The runs of a round are as far behind as those of the round before, or
\* behind by what their report took.
LEMMA LagKept ==
  ASSUME PeersKeepTime, TrafficInv, PaceInv, NEW l \in 0 .. MaxTime,
         cur_round = WSub(l, 1), cur_round' = l, NEW agree,
         agreement_tuples' = RunsAfter(agree)
  PROVE  RunsLagLittle' /\ RunsBegun'
<1> DEFINE T == calculate_agreement_time(Dimension)
<1>1. Dimension \in Nat /\ T = Dimension + 2 /\ l \in Nat
  BY WordsSuffice
<1>2. \A new \in ToSet(agreement_tuples') :
        /\ UpdatedShape(new)
        /\ \/ \E run \in Runs : Continues(run, new)
           \/ \E m \in ToSet(in[0].announce) : StartsFrom(m, new, agree)
           \/ \E j \in Unknown(agreement_tuples \o Started(agree)) :
                JoinsFrom(in[0].agreement[j], new, agree)
  <2>1. RunsInv /\ BufferTyped(in[0])
    BY DEF TrafficInv, InboxInv
  <2> QED
    BY <2>1, RunsOfRound, Zenon
<1>3. EntriesOnTime(l)
  BY EntriesKeepTime DEF TrafficInv
<1> SUFFICES ASSUME NEW new \in ToSet(agreement_tuples'), ~is_dummy(new.message.t_dst)
             PROVE  LET lag == l - AnnouncedFor(new.message) - new.round
                    IN  /\ lag = 0 \/ lag \in 1 .. (Dimension - 1)
                        /\ new.round >= 1
  BY DEF RunsLagLittle, RunsBegun, Runs, Lag
<1> DEFINE A == AnnouncedFor(new.message)
<1>4. A \in Int
  BY <1>2, AnnouncedForType DEF UpdatedShape, RunShape
<1> HIDE DEF A
<1>5. CASE \E run \in Runs : Continues(run, new)
  <2>1. PICK run \in Runs : Continues(run, new)
    BY <1>5
  <2>2. /\ new.round = run.round + 1 /\ new.message = run.message
        /\ run.round \in Nat
    BY <2>1, TimingTypes DEF Continues, TrafficInv, RunsInv, UpdatedShape
  <2>3. cur_round = l - 1
    <3>1. agreement_tuples # <<>>
      BY DEF Runs, ToSet
    <3>2. cur_round \in 0 .. MaxTime
      BY <3>1 DEF PaceInv, RoundsPushed
    <3>3. MaxTime < Word - 1
      BY WordsSuffice
    <3> QED
      BY <1>1, <3>2, <3>3, RoundReached, WordsSuffice
  <2>4. Lag(run) = 0 \/ Lag(run) \in 1 .. (Dimension - 1)
    BY <2>2 DEF PaceInv, RunsLagLittle
  <2>5. Lag(run) = l - 1 - A - run.round
    BY <2>2, <2>3 DEF Lag, A
  <2>6. l - A - new.round = Lag(run)
    BY <1>1, <1>4, <2>2, <2>5
  <2> QED
    BY <2>2, <2>4, <2>6 DEF A
<1>6. CASE \E m \in ToSet(in[0].announce) : StartsFrom(m, new, agree)
  <2>1. l - 1 \in Nat /\ A = l - 1 /\ new.round = 1
    BY <1>3, <1>6 DEF StartsFrom, EntriesOnTime, A
  <2>2. l - A - new.round = 0
    BY <1>1, <2>1
  <2> QED
    BY <2>1, <2>2 DEF A
<1>7. CASE \E j \in Unknown(agreement_tuples \o Started(agree)) :
             JoinsFrom(in[0].agreement[j], new, agree)
  <2>1. PICK j \in Unknown(agreement_tuples \o Started(agree)) :
               JoinsFrom(in[0].agreement[j], new, agree)
    BY <1>7
  <2> DEFINE a == in[0].agreement[j]
  <2>2. a \in ToSet(in[0].agreement) /\ a.l < T - 1
    BY DEF Unknown, ToSet
  <2>3. new.round = a.l /\ new.message = a.m
    BY <2>1 DEF JoinsFrom
  <2>4. a.l \in Nat
    <3>1. in[0].agreement \in Seq(AgreementType)
      BY DEF TrafficInv, InboxInv, BufferTyped
    <3> QED
      BY <2>2, <3>1, ReportType
  <2>5. a.l >= 2 /\ l - 1 = A + 2 * (a.l - 1)
    BY <1>3, <2>2, <2>3 DEF EntriesOnTime, A
  <2> HIDE DEF a
  <2>6. l - A - new.round = a.l - 1 /\ a.l - 1 \in 1 .. (Dimension - 1)
    BY <1>1, <1>4, <2>2, <2>3, <2>4, <2>5
  <2>7. new.round >= 1
    BY <2>3, <2>4, <2>5
  <2> QED
    BY <2>6, <2>7 DEF A
<1> QED
  BY <1>2, <1>5, <1>6, <1>7

\* Without runs nothing lags.
LEMMA InitPace == Init => PaceInv
<1> SUFFICES ASSUME Init PROVE PaceInv
  OBVIOUS
<1>1. gamma_agree = <<>> /\ agreement_tuples = <<>> /\ cur_round = Word - 1 /\ crashed = "no"
  BY DEF Init
<1>2. ToSet(<<>>) = {}
  BY DEF ToSet
<1> QED
  BY <1>1, <1>2 DEF PaceInv, RoundsPushed, RunsLagLittle, RunsBegun, Runs, AgreePeersKnown

\* Among peers that keep time every step keeps the pace of the runs.
LEMMA NextPace ==
  ASSUME PeersKeepTime, TrafficInv, PaceInv, [Next]_vars
  PROVE  PaceInv'
<1>1. RoundsPushed' /\ RunsLagLittle' /\ RunsBegun'
  <2>1. CASE traffic_out /\ crashed' = "no"
    <3>1. PICK l \in 0 .. MaxTime, random \in Quorums :
            LET ov    == OverlayUpdate(overlay, l, in[0].structure, random, NoPeer)
                agree == PushAgree(ov)
            IN  /\ cur_round = WSub(l, 1) /\ cur_round' = l
                /\ gamma_agree' = agree /\ agreement_tuples' = RunsAfter(agree)
      BY <2>1, RoundStep, Zenon DEF TrafficInv
    <3> DEFINE ov    == OverlayUpdate(overlay, l, in[0].structure, random, NoPeer)
               agree == PushAgree(ov)
    <3>2. /\ cur_round = WSub(l, 1) /\ cur_round' = l
          /\ gamma_agree' = agree /\ agreement_tuples' = RunsAfter(agree)
      BY <3>1
    <3> HIDE DEF ov
    <3>3. Len(agree) = IF l + 1 < calculate_agreement_time(Dimension)
                       THEN l + 1 ELSE calculate_agreement_time(Dimension)
      BY <3>2, RoundPushed DEF TrafficInv, PaceInv
    <3> HIDE DEF agree
    <3>4. RunsLagLittle' /\ RunsBegun'
      BY <3>2, LagKept
    <3>5. RoundsPushed'
      BY <3>2, <3>3, TimingTypes DEF RoundsPushed
    <3> QED
      BY <3>4, <3>5
  <2>2. CASE ~(traffic_out /\ crashed' = "no")
    <3>1. UNCHANGED <<gamma_agree, agreement_tuples, cur_round>>
      <4>1. CASE traffic_out
        BY <2>2, <4>1 DEF traffic_out, RunRound, Crash, memory, roundVars, Running
      <4>2. CASE TrafficIn
        BY <4>2 DEF TrafficIn, traffic_in, Crash, memory, roundVars
      <4>3. CASE ~traffic_out /\ ~TrafficIn
        BY <4>3 DEF Next, Tick, ServerPacket, received_msg_from_server, first_packet_from_peer,
                    generate_pseudonym, SendMessage, send_message, ReceiveMessage,
                    receive_message, Crash, memory, vars, roundVars
      <4> QED
        BY <4>1, <4>2, <4>3
    <3> QED
      BY <3>1 DEF PaceInv, RoundsPushed, RunsLagLittle, RunsBegun, Runs, Lag
  <2> QED
    BY <2>1, <2>2
<1>2. AgreePeersKnown'
  <2> DEFINE place == "gamma_agree_for_round_.at"
  <2> SUFFICES ASSUME crashed' = place PROVE FALSE
    BY DEF AgreePeersKnown
  <2>1. crashed # place /\ TypeInv
    BY DEF PaceInv, AgreePeersKnown, TrafficInv
  <2>2. PICK l \in Words, random \in Quorums :
          LET ov == OverlayUpdate(overlay, l, in[0].structure, random, NoPeer)
          IN  /\ l * RoundLength <= now
              /\ cur_round = WSub(l, 1)
              /\ FirstFault(ov, PushAgree(ov), l) = place
    BY <2>1, RoundFault
  <2> DEFINE ov == OverlayUpdate(overlay, l, in[0].structure, random, NoPeer)
  <2>3. /\ l * RoundLength <= now /\ cur_round = WSub(l, 1)
        /\ FirstFault(ov, PushAgree(ov), l) = place
    BY <2>2
  <2> HIDE DEF ov
  <2>4. l \in 0 .. MaxTime
    BY <2>1, <2>3, RoundInTime DEF TypeInv, TypeOK
  <2>5. ~AgreeIndexFault(PushAgree(ov))
    BY <2>3, <2>4, AgreeIndexValid DEF TrafficInv, PaceInv
  <2> QED
    BY <2>3, <2>5 DEF FirstFault
<1> QED
  BY <1>1, <1>2 DEF PaceInv

\* Among peers that keep time the pace of the runs is kept for ever.
LEMMA PaceCorrect == PeersKeepTime => (Spec => [](TrafficInv /\ PaceInv))
<1> SUFFICES ASSUME PeersKeepTime PROVE Spec => [](TrafficInv /\ PaceInv)
  OBVIOUS
<1>1. Init => PaceInv
  BY InitPace
<1>2. TrafficInv /\ PaceInv /\ [Next]_vars => PaceInv'
  BY NextPace
<1> QED
  BY <1>1, <1>2, TrafficCorrect, PTL DEF Spec

(* If the peers announce and report on time, the rounds whose agreement    *)
(* peers a run needs are still in gamma_agree_for_round_: neither the      *)
(* first rounds, when it is short, nor the last report that still counts,  *)
(* when it is full, index behind its end (client_enclave.cpp:224-262).     *)
THEOREM PeersOfRunsKnown == PeersKeepTime => (Spec => []AgreePeersKnown)
<1>1. PaceInv => AgreePeersKnown
  BY DEF PaceInv
<1> QED
  BY <1>1, PaceCorrect, PTL

(* If the peers report on time, no run of a message is overlay_dimension   *)
(* rounds behind its announcement or more, for every dimension: a chain of *)
(* peers that pass a message on is cut off by the deadline for reports     *)
(* (client_enclave.cpp:244-281).                                           *)
THEOREM RunsKeepPace == PeersKeepTime => (Spec => []RunsLagLittle)
<1>1. PaceInv => RunsLagLittle
  BY DEF PaceInv
<1> QED
  BY <1>1, PaceCorrect, PTL

-----------------------------------------------------------------------------
(* The enclave keeps time itself.                                          *)

OnTime(round, m) == ~is_dummy(m.t_dst) => AnnouncedFor(m) = round

ReportOnTime(round, a) ==
  /\ a.l <= round
  /\ ~is_dummy(a.m.t_dst) => a.l >= 2 /\ round = AnnouncedFor(a.m) + 2 * (a.l - 1)

\* What fills up a vector is the dummy.
LEMMA PadEntries ==
  ASSUME NEW vec, vec \in Seq(ToSet(vec)), NEW dummy, NEW size \in Int
  PROVE  /\ Pad(vec, dummy, size) \in Seq(ToSet(vec) \cup {dummy})
         /\ \A x \in ToSet(Pad(vec, dummy, size)) : x \in ToSet(vec) \/ x = dummy
<1> DEFINE S == ToSet(vec) \cup {dummy}
           d == size - Len(vec)
           fill == [k \in 1 .. d |-> dummy]
<1>1. vec \in Seq(S) /\ d \in Int
  <2>1. \A T : T \subseteq S => Seq(T) \subseteq Seq(S)
    OBVIOUS
  <2>2. ToSet(vec) \subseteq S
    OBVIOUS
  <2> HIDE DEF S
  <2> QED
    BY <2>1, <2>2
<1>2. dummy \in S
  OBVIOUS
<1>3. Pad(vec, dummy, size) = vec \o fill
  BY DEF Pad
<1> HIDE DEF S, d
<1>4. fill \in Seq(S) /\ ToSet(fill) \subseteq {dummy}
  <2>1. CASE d >= 0
    <3>1. fill \in [1 .. d -> S] /\ d \in Nat
      BY <1>1, <1>2, <2>1
    <3> QED
      BY <3>1 DEF ToSet
  <2>2. CASE ~(d >= 0)
    <3>1. 1 .. d = 1 .. 0
      BY <1>1, <2>2
    <3>2. fill = <<>>
      BY <3>1
    <3> HIDE DEF fill
    <3>3. <<>> \in Seq(S) /\ ToSet(<<>>) = {}
      BY DEF ToSet
    <3> QED
      BY <3>2, <3>3
  <2> QED
    BY <1>1, <2>1, <2>2
<1> HIDE DEF fill
<1>5. vec \o fill \in Seq(S) /\ ToSet(vec \o fill) = ToSet(vec) \cup ToSet(fill)
  BY <1>1, <1>4, EntriesOfBoth
<1> QED
  BY <1>3, <1>4, <1>5 DEF S

\* A message popped in a round is announced in the packets of that round.
LEMMA PopsOnTime ==
  ASSUME QueueInv, NEW l \in Nat, NEW q \in Popped(l)
  PROVE  AnnouncedFor(AsMessage(q)) = l + 1
<1> DEFINE T == calculate_agreement_time(Dimension)
           R == calculate_routing_time(Dimension)
           due == l + T + R + 3
<1>1. q \in q_out /\ is_due(q.t_dst, l, Dimension)
  BY DEF Popped
<1>2. q.t_dst \in Nat
  <2>1. q \in QueueEntries
    BY <1>1 DEF QueueInv, TypeInv, TypeOK
  <2> QED
    BY <2>1, TimingTypes DEF QueueEntries, Words
<1>3. T \in Nat /\ R \in Nat /\ RoundLength \in Nat \ {0} /\ due \in Nat
  BY TimingTypes
<1> HIDE DEF T, R
<1>4. RoundLength * due <= q.t_dst /\ q.t_dst < RoundLength * due + RoundLength
  BY <1>1, <1>2, <1>3 DEF is_due, DueFrom, T, R
<1>5. q.t_dst \div RoundLength = due
  BY <1>2, <1>3, <1>4, DivUnique
<1>6. AnnouncedFor(AsMessage(q)) = q.t_dst \div RoundLength - (T + R + 2)
  BY DEF AnnouncedFor, AsMessage, calculate_round_from_t, T, R
<1> QED
  BY <1>3, <1>5, <1>6

\* What a peer announces is due in the round of its packet.
LEMMA AnnouncementsOnTime ==
  ASSUME QueueInv, NEW l \in Nat, NEW ov, NEW agree, NEW i
  PROVE  \A m \in ToSet(PacketFor(i, ov, agree, l).announce) : OnTime(l + 1, m)
<1> DEFINE due == SetToSeq(Popped(l))
           msgs == [k \in DOMAIN due |-> AsMessage(due[k])]
           size == kSend * kAMax
           announce == PacketFor(i, ov, agree, l).announce
<1>1. announce = IF i \in ov.st.gamma_send THEN Pad(msgs, Filler(0), size) ELSE <<>>
  BY DEF PacketFor
<1>2. IsFiniteSet(Popped(l))
  BY PoppedBounded
<1>3. due \in Seq(Popped(l))
  BY <1>2, SetToSeqEntries
<1>4. \A k \in DOMAIN due : due[k] \in Popped(l)
  BY <1>3
<1>5. Len(due) \in Nat /\ DOMAIN due = 1 .. Len(due)
  BY <1>3
<1>6. size \in Int
  BY QuotaAssumption
<1> HIDE DEF due, size, announce
<1>7. msgs \in Seq(ToSet(msgs))
  <2>1. DOMAIN msgs = 1 .. Len(due) /\ msgs = [k \in 1 .. Len(due) |-> msgs[k]]
    BY <1>5
  <2> HIDE DEF msgs
  <2> QED
    BY <1>5, <2>1, ListIsSeq
<1>8. \A m \in ToSet(msgs) : \E q \in Popped(l) : m = AsMessage(q)
  BY <1>4 DEF ToSet
<1> HIDE DEF msgs
<1>9. ASSUME NEW m \in ToSet(announce)
      PROVE  OnTime(l + 1, m)
  <2>1. CASE i \in ov.st.gamma_send
    <3>1. m \in ToSet(msgs) \/ m = Filler(0)
      BY <1>1, <1>6, <1>7, <2>1, PadEntries, Zenon
    <3>2. CASE m \in ToSet(msgs)
      BY <1>8, <3>2, PopsOnTime DEF OnTime
    <3>3. CASE m = Filler(0)
      BY <3>3 DEF OnTime, Filler, is_dummy
    <3> QED
      BY <3>1, <3>2, <3>3
  <2>2. CASE i \notin ov.st.gamma_send
    BY <1>1, <2>2 DEF ToSet
  <2> QED
    BY <2>1, <2>2
<1> QED
  BY <1>9 DEF announce

\* A run sends its reports in the one round in which it is new to the peer.
ReportsOf(run, i) ==
  {[m |-> run.message, s |-> n[2], l |-> WAdd(run.round, 2)] :
     n \in {x \in Notifications(run.aware_nodes, run.aware, run.participating_nodes, own_id) :
              x[1] = i}}

\* A report has the message of its run, and the number of its next round.
LEMMA ReportOfRun ==
  ASSUME NEW run, NEW i
  PROVE  /\ SetToSeq(ReportsOf(run, i)) \in Seq(ReportsOf(run, i))
         /\ \A a \in ReportsOf(run, i) :
              /\ run.aware \/ run.aware_nodes = {}
              /\ a.m = run.message /\ a.l = WAdd(run.round, 2)
<1> DEFINE only == [m |-> run.message, s |-> own_id, l |-> WAdd(run.round, 2)]
<1>1. \A x \in Notifications(run.aware_nodes, run.aware, run.participating_nodes, own_id) :
        x[2] = own_id /\ (run.aware \/ run.aware_nodes = {})
  <2>1. \A y \in NewlyAware(run.aware_nodes, run.aware, own_id) :
          y = own_id /\ (run.aware \/ run.aware_nodes = {})
    BY Zenon DEF NewlyAware
  <2> QED
    BY <2>1 DEF Notifications
<1>2. ReportsOf(run, i) \subseteq {only}
  BY <1>1 DEF ReportsOf
<1>3. IsFiniteSet(ReportsOf(run, i))
  <2>1. \A x : IsFiniteSet({x})
    BY FS_Singleton
  <2> HIDE DEF only
  <2> QED
    BY <1>2, <2>1, FS_Subset
<1>4. \A a \in ReportsOf(run, i) : run.aware \/ run.aware_nodes = {}
  BY <1>1 DEF ReportsOf
<1> QED
  BY <1>2, <1>3, <1>4, SetToSeqEntries

\* What a peer reports is numbered for the round of its packet.
LEMMA ReportsOnTime ==
  ASSUME RunsInv, BufferTyped(in[0]), NEW l \in 0 .. MaxTime, EntriesOnTime(l),
         NEW agree, NEW i
  PROVE  \A a \in ToSet(AgreementFor(i, agree)) : ReportOnTime(l + 1, a)
<1> DEFINE all   == AllRuns(agree)
           begun == agreement_tuples \o Started(agree)
           seqs  == [k \in DOMAIN all |-> SetToSeq(ReportsOf(all[k], i))]
<1>1. AgreementFor(i, agree) = FlattenSeq(seqs)
  BY DEF AgreementFor, ReportsOf
<1>2. /\ all \in Seq(ToSet(all))
      /\ ToSet(all) = Runs \cup ToSet(Started(agree)) \cup ToSet(Joined(begun, agree))
      /\ \A run \in ToSet(Started(agree)) : \E m \in ToSet(in[0].announce) :
           run = AgreementRun(m, TRUE, agree[2], 0)
      /\ \A run \in ToSet(Joined(begun, agree)) : \E j \in Unknown(begun) :
           LET a == in[0].agreement[j]
           IN  run = AgreementRun(a.m, FALSE, agree[a.l + 1], WSub(a.l, 1))
  BY AllRunsEntries
<1>3. Len(all) \in Nat /\ DOMAIN all = 1 .. Len(all) /\ \A k \in DOMAIN all : all[k] \in ToSet(all)
  BY <1>2 DEF ToSet
<1>4. in[0].announce \in Seq(MessageType) /\ in[0].agreement \in Seq(AgreementType)
  BY DEF BufferTyped
<1>5. l \in Nat /\ Word \in Nat /\ MaxTime \in Nat /\ MaxTime + 9 < Word
  BY WordsSuffice
<1> HIDE DEF all
<1>6. \A k \in 1 .. Len(all) : seqs[k] \in Seq(ReportsOf(all[k], i))
  BY <1>3, ReportOfRun
<1>7. \A k \in 1 .. Len(all) : \A a \in ToSet(seqs[k]) : a \in ReportsOf(all[k], i)
  <2>1. \A k \in 1 .. Len(all) : \A n \in DOMAIN seqs[k] : seqs[k][n] \in ReportsOf(all[k], i)
    <3> HIDE DEF seqs
    <3> QED
      BY <1>6
  <2> QED
    BY <2>1 DEF ToSet
<1>8. \A k \in 1 .. Len(all) : seqs[k] \in Seq(ToSet(seqs[k]))
  <2>1. ASSUME NEW S, NEW s \in Seq(S)
        PROVE  s \in Seq(ToSet(s))
    <3>1. \A n \in DOMAIN s : s[n] \in ToSet(s)
      BY DEF ToSet
    <3> QED
      BY <3>1
  <2> HIDE DEF seqs
  <2> QED
    BY <1>6, <2>1
<1>9. seqs = [k \in 1 .. Len(all) |-> seqs[k]]
  BY <1>3
<1> HIDE DEF seqs
<1>10. \A a \in ToSet(FlattenSeq(seqs)) : \E k \in 1 .. Len(all) : a \in ToSet(seqs[k])
  BY <1>3, <1>8, <1>9, FlattenEntries, Zenon
<1>11. ASSUME NEW a \in ToSet(AgreementFor(i, agree))
       PROVE  ReportOnTime(l + 1, a)
  <2>1. PICK k \in 1 .. Len(all) : a \in ReportsOf(all[k], i)
    BY <1>1, <1>7, <1>10
  <2> DEFINE run == all[k]
  <2>2. /\ run.aware \/ run.aware_nodes = {}
        /\ a.m = run.message /\ a.l = WAdd(run.round, 2)
    BY <2>1, ReportOfRun
  <2>3. run \in ToSet(all)
    BY <1>3
  <2> HIDE DEF run
  <2>4. CASE run \in Runs
    <3>1. run.aware = FALSE /\ run.aware_nodes # {}
      BY <2>4 DEF RunsInv, UpdatedShape
    <3> QED
      BY <2>2, <3>1
  <2>5. CASE run \in ToSet(Started(agree))
    <3>1. PICK m \in ToSet(in[0].announce) : run = AgreementRun(m, TRUE, agree[2], 0)
      BY <1>2, <2>5
    <3>2. run.message = m /\ run.round = 0
      BY <3>1 DEF AgreementRun
    <3>3. l - 1 \in Nat /\ (~is_dummy(m.t_dst) => AnnouncedFor(m) = l - 1)
      BY DEF EntriesOnTime
    <3>4. a.l = 2
      BY <1>5, <2>2, <3>2 DEF WAdd
    <3> QED
      BY <1>5, <2>2, <3>2, <3>3, <3>4 DEF ReportOnTime
  <2>6. CASE run \in ToSet(Joined(begun, agree))
    <3>1. PICK j \in Unknown(begun) :
            run = AgreementRun(in[0].agreement[j].m, FALSE, agree[in[0].agreement[j].l + 1],
                               WSub(in[0].agreement[j].l, 1))
      BY <1>2, <2>6
    <3> DEFINE b == in[0].agreement[j]
    <3>2. run.message = b.m /\ run.round = WSub(b.l, 1)
      BY <3>1 DEF AgreementRun
    <3>3. b \in ToSet(in[0].agreement)
      BY DEF Unknown, ToSet
    <3> HIDE DEF b
    <3>4. b.m \in MessageType /\ b.l \in Nat
      BY <1>4, <3>3, ReportType
    <3>5. /\ l - 1 \in Nat /\ b.l <= l - 1
          /\ ~is_dummy(b.m.t_dst) => b.l >= 2 /\ l - 1 = AnnouncedFor(b.m) + 2 * (b.l - 1)
      BY <3>3 DEF EntriesOnTime
    <3>6. a.l = b.l + 1
      <4>1. run.round = IF b.l = 0 THEN Word - 1 ELSE b.l - 1
        BY <1>5, <3>2, <3>4, <3>5 DEF WSub
      <4>2. b.l + 2 < Word
        BY <1>5, <3>4, <3>5
      <4> QED
        BY <1>5, <2>2, <3>4, <4>1, <4>2 DEF WAdd
    <3> DEFINE A == AnnouncedFor(b.m)
               dummy == is_dummy(b.m.t_dst)
    <3>7. A \in Int /\ (~dummy => b.l >= 2 /\ l - 1 = A + 2 * (b.l - 1))
      BY <3>4, <3>5, AnnouncedForType
    <3>8. a.m = b.m
      BY <2>2, <3>2
    <3> HIDE DEF A, dummy
    <3>9. ~dummy => a.l >= 2 /\ l + 1 = A + 2 * (a.l - 1)
      BY <1>5, <3>4, <3>6, <3>7
    <3>10. a.l <= l + 1
      BY <1>5, <3>4, <3>5, <3>6
    <3> QED
      BY <3>8, <3>9, <3>10 DEF ReportOnTime, A, dummy
  <2> QED
    BY <1>2, <2>3, <2>4, <2>5, <2>6
<1> QED
  BY <1>11

\* Every step keeps the packets of this peer on time.
LEMMA NextPackets ==
  ASSUME PeersKeepTime, TrafficInv, QueueInv, PacketsKeepTime, [Next]_vars
  PROVE  PacketsKeepTime'
<1>1. CASE traffic_out /\ crashed' = "no"
  <2>1. PICK l \in 0 .. MaxTime, random \in Quorums :
          LET ov    == OverlayUpdate(overlay, l, in[0].structure, random, NoPeer)
              agree == PushAgree(ov)
          IN  /\ cur_round = WSub(l, 1)
              /\ out' = [i \in Receivers(ov, agree) |-> PacketFor(i, ov, agree, l)]
    BY <1>1, RoundStep, Zenon DEF TrafficInv
  <2> DEFINE ov    == OverlayUpdate(overlay, l, in[0].structure, random, NoPeer)
             agree == PushAgree(ov)
  <2>2. /\ cur_round = WSub(l, 1)
        /\ out' = [i \in Receivers(ov, agree) |-> PacketFor(i, ov, agree, l)]
    BY <2>1
  <2> HIDE DEF ov, agree
  <2>3. EntriesOnTime(l) /\ l \in Nat
    BY <2>2, EntriesKeepTime DEF TrafficInv
  <2> SUFFICES ASSUME NEW i \in DOMAIN out'
               PROVE  KeepsTime(out'[i], out'[i].round)
    BY DEF PacketsKeepTime, KeepsTime
  <2> DEFINE packet == PacketFor(i, ov, agree, l)
  <2>4. out'[i] = packet
    BY <2>2
  <2>5. packet.round = l + 1 /\ packet.agreement = AgreementFor(i, agree)
    BY DEF PacketFor
  <2>6. \A m \in ToSet(packet.announce) : OnTime(l + 1, m)
    BY <2>3, AnnouncementsOnTime
  <2>7. \A a \in ToSet(packet.agreement) : ReportOnTime(l + 1, a)
    BY <2>3, <2>5, ReportsOnTime DEF TrafficInv, InboxInv
  <2> HIDE DEF packet
  <2> QED
    BY <2>4, <2>5, <2>6, <2>7 DEF KeepsTime, OnTime, ReportOnTime
<1>2. CASE ~(traffic_out /\ crashed' = "no")
  <2>1. UNCHANGED out
    <3>1. CASE traffic_out
      BY <1>2, <3>1 DEF traffic_out, RunRound, Crash, memory, roundVars, Running
    <3>2. CASE ~traffic_out
      BY <3>2, OtherRuns
    <3> QED
      BY <3>1, <3>2
  <2> QED
    BY <2>1 DEF PacketsKeepTime
<1> QED
  BY <1>1, <1>2

(* A peer surrounded by peers that keep time keeps time itself, so that    *)
(* the others may rely on it: what it announces is due in this round, and  *)
(* a report is sent once for each run and counts the rounds since the      *)
(* announcement (client_enclave.cpp:235-241, 266-307;                      *)
(* distributed_agreement_scheme.cpp:13-37).                                *)
THEOREM PeersStayOnTime == PeersKeepTime => (Spec => []PacketsKeepTime)
<1> SUFFICES ASSUME PeersKeepTime PROVE Spec => []PacketsKeepTime
  OBVIOUS
<1>1. Init => PacketsKeepTime
  BY DEF Init, PacketsKeepTime
<1>2. TrafficInv /\ QueueInv /\ PacketsKeepTime /\ [Next]_vars => PacketsKeepTime'
  BY NextPackets
<1>3. Spec => []QueueInv
  BY QueueInvInductive, PTL DEF Spec
<1> QED
  BY <1>1, <1>2, <1>3, TrafficCorrect, PTL DEF Spec

-----------------------------------------------------------------------------
(* One run for a message, if its peer alone announces it and the network   *)
(* delivers a packet once.                                                 *)

MessagesDiffer(msgs) ==
  \A i, j \in DOMAIN msgs : ~is_dummy(msgs[i].t_dst) /\ msgs[i] = msgs[j] => i = j

OneRunEach(runs) == MessagesDiffer(MessagesOf(runs))

\* An entry of two vectors put together comes from one of them.
LEMMA PlacesOfBoth ==
  ASSUME NEW a, NEW b, a \in Seq(ToSet(a)), b \in Seq(ToSet(b)), NEW i \in DOMAIN (a \o b)
  PROVE  \/ i \in DOMAIN a /\ (a \o b)[i] = a[i]
         \/ i - Len(a) \in DOMAIN b /\ (a \o b)[i] = b[i - Len(a)] /\ i \in Int /\ Len(a) \in Int
<1> DEFINE S == ToSet(a) \cup ToSet(b)
<1>1. a \in Seq(S) /\ b \in Seq(S)
  <2>1. \A T : T \subseteq S => Seq(T) \subseteq Seq(S)
    OBVIOUS
  <2> QED
    BY <2>1
<1> HIDE DEF S
<1> QED
  BY <1>1

\* Vectors without a message in common differ in their messages if each does.
LEMMA DifferentTogether ==
  ASSUME NEW a, NEW b, a \in Seq(ToSet(a)), b \in Seq(ToSet(b)),
         MessagesDiffer(a), MessagesDiffer(b),
         \A x \in ToSet(a) : ~is_dummy(x.t_dst) => x \notin ToSet(b)
  PROVE  MessagesDiffer(a \o b)
<1> DEFINE c == a \o b
<1> SUFFICES ASSUME NEW i \in DOMAIN c, NEW j \in DOMAIN c, ~is_dummy(c[i].t_dst), c[i] = c[j]
             PROVE  i = j
  BY DEF MessagesDiffer
<1> DEFINE InA(n) == n \in DOMAIN a /\ c[n] = a[n]
           InB(n) == n - Len(a) \in DOMAIN b /\ c[n] = b[n - Len(a)] /\ n \in Int /\ Len(a) \in Int
<1>1. \A n \in DOMAIN c : InA(n) \/ InB(n)
  BY PlacesOfBoth, Zenon
<1> HIDE DEF c
<1>2. CASE InA(i) /\ InA(j)
  BY <1>2 DEF MessagesDiffer
<1>3. CASE InB(i) /\ InB(j)
  <2>1. i - Len(a) = j - Len(a)
    BY <1>3 DEF MessagesDiffer
  <2> QED
    BY <1>3, <2>1
<1>4. CASE InA(i) /\ InB(j)
  BY <1>4 DEF ToSet
<1>5. CASE InB(i) /\ InA(j)
  BY <1>5 DEF ToSet
<1> QED
  BY <1>1, <1>2, <1>3, <1>4, <1>5

AnnouncementsDiffer == \A k \in 0 .. 1 : MessagesDiffer(in[k].announce)

OnceInv == AnnouncementsDiffer /\ OneRunPerMessage

\* A packet that is heard for the first time brings new announcements.
LEMMA TrafficInDiffers ==
  ASSUME AnnouncedOnce, MaxCopies = 1, TypeInv, InboxInv, AnnouncementsDiffer, TrafficIn
  PROVE  AnnouncementsDiffer'
<1>1. PICK packet \in Packets :
        /\ Copies(packet) < MaxCopies
        /\ \E p \in Payloads(packet[1], packet[2]) : traffic_in(packet[1], packet[2], p)
  BY Zenon DEF TrafficIn
<1> DEFINE sender == packet[1]
           round  == packet[2]
<1>2. packet = <<sender, round>> /\ sender \in Peers /\ round \in Stamps
  BY DEF Packets
<1>3. PICK p \in Payloads(sender, round) : traffic_in(sender, round, p)
  BY <1>1
<1>4. sender \notin Heard(round)
  <2>1. Copies(<<sender, round>>) < 1
    BY <1>1, <1>2
  <2>2. ~(Copies(<<sender, round>>) > 0)
    <3>1. Copies(<<sender, round>>) \in Nat
      BY DEF InboxInv, CopiesCounted, Copies
    <3> QED
      BY <2>1, <3>1
  <2> QED
    BY <2>2 DEF Heard
<1> HIDE DEF sender, round
<1>5. CASE UNCHANGED in
  BY <1>5 DEF AnnouncementsDiffer
<1>6. CASE ~UNCHANGED in
  <2> DEFINE k      == round - cur_round
             buffer == Buffered(k, sender, p)
  <2>1. /\ round >= cur_round /\ k < 2
        /\ in' = [in EXCEPT ![k] = ClearDelivered(buffer)]
    BY <1>3, <1>6 DEF traffic_in, Crash, memory
  <2>2. k \in 0 .. 1 /\ WAdd(cur_round, k) = round
    <3>1. cur_round \in Nat /\ round \in Nat /\ round < Word
      BY <1>2, WordsSuffice DEF TypeInv, TypeOK, Words
    <3> QED
      BY <2>1, <3>1 DEF WAdd
  <2> HIDE DEF k
  <2>3. ClearDelivered(buffer).announce = in[k].announce \o p.announce
    <3>1. CASE Cardinality(buffer.received_from) > m_corrupt
      <4>1. ClearDelivered(buffer) = [buffer EXCEPT !.deliver = {}, !.received_from = {}]
        BY <3>1 DEF ClearDelivered
      <4> QED
        BY <4>1 DEF Buffered
    <3>2. CASE ~(Cardinality(buffer.received_from) > m_corrupt)
      BY <3>2 DEF ClearDelivered, Buffered
    <3> QED
      BY <3>1, <3>2
  <2> DEFINE old == in[k].announce
             new == p.announce
  <2>4. old \in Seq(ToSet(old)) /\ new \in Seq(ToSet(new))
    <3>1. ASSUME NEW vec \in Seq(MessageType)
          PROVE  vec \in Seq(ToSet(vec))
      <4>1. \A n \in DOMAIN vec : vec[n] \in ToSet(vec)
        BY DEF ToSet
      <4> QED
        BY <4>1
    <3>2. old \in Seq(MessageType) /\ new \in Seq(MessageType)
      BY <1>2, <2>2, PayloadAssumption DEF InboxInv, BufferTyped
    <3> QED
      BY <3>1, <3>2
  <2>5. MessagesDiffer(old)
    BY <2>2 DEF AnnouncementsDiffer
  <2>6. MessagesDiffer(new)
    BY <1>2 DEF AnnouncedOnce, MessagesDiffer
  <2>7. \A x \in ToSet(old) : ~is_dummy(x.t_dst) => x \notin ToSet(new)
    <3> SUFFICES ASSUME NEW x \in ToSet(old), ~is_dummy(x.t_dst), x \in ToSet(new)
                 PROVE  FALSE
      OBVIOUS
    <3>1. ComesFrom(in[k], Carried(round))
      BY <2>2 DEF InboxInv
    <3>2. PICK q \in Carried(round) : x \in ToSet(q.announce)
      BY <3>1 DEF ComesFrom
    <3>3. PICK other \in Heard(round) : q \in Payloads(other, round)
      BY DEF Carried
    <3>4. other \in Peers
      BY DEF Heard
    <3>5. PICK i \in DOMAIN q.announce, j \in DOMAIN new : x = q.announce[i] /\ x = new[j]
      BY <3>2 DEF ToSet
    <3>6. other = sender
      BY <1>2, <3>3, <3>4, <3>5 DEF AnnouncedOnce
    <3> QED
      BY <1>4, <3>6
  <2> HIDE DEF old, new, buffer
  <2>8. MessagesDiffer(old \o new)
    BY <2>4, <2>5, <2>6, <2>7, DifferentTogether, Zenon
  <2>9. ASSUME NEW j \in 0 .. 1
        PROVE  MessagesDiffer(in'[j].announce)
    <3>1. CASE j = k
      <4>1. in'[j] = ClearDelivered(buffer)
        BY <2>1, <2>2, <3>1 DEF InboxInv
      <4> QED
        BY <2>3, <2>8, <4>1 DEF old, new
    <3>2. CASE j # k
      <4>1. in'[j] = in[j]
        BY <2>1, <3>2 DEF InboxInv
      <4> QED
        BY <4>1 DEF AnnouncementsDiffer
    <3> QED
      BY <3>1, <3>2
  <2> QED
    BY <2>9 DEF AnnouncementsDiffer, MessagesDiffer
<1> QED
  BY <1>5, <1>6

\* The messages of runs put together
LEMMA RunsTogether ==
  ASSUME NEW a, NEW b, a \in Seq(ToSet(a)), b \in Seq(ToSet(b)),
         OneRunEach(a), OneRunEach(b),
         \A x \in ToSet(a), y \in ToSet(b) :
           ~is_dummy(x.message.t_dst) => x.message # y.message
  PROVE  OneRunEach(a \o b)
<1> DEFINE c == a \o b
<1> SUFFICES ASSUME NEW i \in DOMAIN c, NEW j \in DOMAIN c, ~is_dummy(c[i].message.t_dst),
                    c[i].message = c[j].message
             PROVE  i = j
  BY DEF OneRunEach, MessagesDiffer, MessagesOf
<1> DEFINE InA(n) == n \in DOMAIN a /\ c[n] = a[n]
           InB(n) == n - Len(a) \in DOMAIN b /\ c[n] = b[n - Len(a)] /\ n \in Int /\ Len(a) \in Int
<1>1. \A n \in DOMAIN c : InA(n) \/ InB(n)
  BY PlacesOfBoth, Zenon
<1> HIDE DEF c
<1>2. CASE InA(i) /\ InA(j)
  BY <1>2 DEF OneRunEach, MessagesDiffer, MessagesOf
<1>3. CASE InB(i) /\ InB(j)
  <2>1. i - Len(a) = j - Len(a)
    BY <1>3 DEF OneRunEach, MessagesDiffer, MessagesOf
  <2> QED
    BY <1>3, <2>1
<1>4. CASE InA(i) /\ InB(j)
  BY <1>4 DEF ToSet
<1>5. CASE InB(i) /\ InA(j)
  BY <1>5 DEF ToSet
<1> QED
  BY <1>1, <1>2, <1>3, <1>4, <1>5

\* All runs of a round are runs, the new ones too.
LEMMA AllRunsShape ==
  ASSUME RunsInv, BufferTyped(in[0]), NEW agree
  PROVE  \A run \in ToSet(AllRuns(agree)) : RunShape(run)
<1> DEFINE begun == agreement_tuples \o Started(agree)
<1>1. /\ ToSet(AllRuns(agree)) = Runs \cup ToSet(Started(agree)) \cup ToSet(Joined(begun, agree))
      /\ \A run \in ToSet(Started(agree)) : \E m \in ToSet(in[0].announce) :
           run = AgreementRun(m, TRUE, agree[2], 0)
      /\ \A run \in ToSet(Joined(begun, agree)) : \E j \in Unknown(begun) :
           LET a == in[0].agreement[j]
           IN  run = AgreementRun(a.m, FALSE, agree[a.l + 1], WSub(a.l, 1))
  BY AllRunsEntries
<1>2. \A m \in MessageType : \A peers, round :
        RunShape(AgreementRun(m, TRUE, peers, round)) /\ RunShape(AgreementRun(m, FALSE, peers, round))
  BY DEF RunShape, AgreementRun
<1>3. \A m \in ToSet(in[0].announce) : m \in MessageType
  BY DEF BufferTyped, ToSet
<1>4. \A j \in Unknown(begun) : in[0].agreement[j].m \in MessageType
  <2>1. in[0].agreement \in Seq(AgreementType)
    BY DEF BufferTyped
  <2>2. \A j \in Unknown(begun) : in[0].agreement[j] \in ToSet(in[0].agreement)
    BY DEF Unknown, ToSet
  <2> QED
    BY <2>1, <2>2, ReportType
<1>5. \A run \in Runs : RunShape(run)
  BY DEF RunsInv, UpdatedShape
<1> HIDE DEF begun
<1>6. ASSUME NEW run \in ToSet(Started(agree))
      PROVE  RunShape(run)
  <2>1. PICK m \in ToSet(in[0].announce) : run = AgreementRun(m, TRUE, agree[2], 0)
    BY <1>1
  <2> DEFINE peers == agree[2]
  <2>2. run = AgreementRun(m, TRUE, peers, 0) /\ m \in MessageType
    BY <1>3, <2>1
  <2> HIDE DEF peers
  <2> QED
    BY <1>2, <2>2
<1>7. ASSUME NEW run \in ToSet(Joined(begun, agree))
      PROVE  RunShape(run)
  <2>1. PICK j \in Unknown(begun) :
          run = AgreementRun(in[0].agreement[j].m, FALSE, agree[in[0].agreement[j].l + 1],
                             WSub(in[0].agreement[j].l, 1))
    BY <1>1
  <2> DEFINE m     == in[0].agreement[j].m
             peers == agree[in[0].agreement[j].l + 1]
             round == WSub(in[0].agreement[j].l, 1)
  <2>2. run = AgreementRun(m, FALSE, peers, round) /\ m \in MessageType
    BY <1>4, <2>1
  <2> HIDE DEF m, peers, round
  <2> QED
    BY <1>2, <2>2
<1> QED
  BY <1>1, <1>5, <1>6, <1>7

\* Runs that announcements start differ, and from those that go on: a run
\* that is no round behind has been through its first round before.
LEMMA BegunDiffer ==
  ASSUME PeersKeepTime, TrafficInv, PaceInv, OnceInv,
         NEW l \in 0 .. MaxTime, cur_round = WSub(l, 1), NEW agree
  PROVE  OneRunEach(agreement_tuples \o Started(agree))
<1> DEFINE started == Started(agree)
           vec == in[0].announce
<1>1. /\ agreement_tuples \in Seq(ToSet(agreement_tuples))
      /\ vec \in Seq(MessageType)
  BY DEF TrafficInv, RunsInv, Runs, InboxInv, BufferTyped
<1>2. OneRunEach(agreement_tuples)
  BY DEF OnceInv, OneRunPerMessage, OneRunEach, MessagesDiffer, MessagesOf
<1>3. /\ started \in Seq(ToSet(started))
      /\ DOMAIN started = DOMAIN vec
      /\ \A i \in DOMAIN started : started[i].message = vec[i]
  <2>1. /\ DOMAIN vec = 1 .. Len(vec) /\ Len(vec) \in Nat
        /\ started = [i \in DOMAIN vec |-> AgreementRun(vec[i], TRUE, agree[2], 0)]
    BY <1>1 DEF Started
  <2>2. \A i \in DOMAIN vec : started[i] = AgreementRun(vec[i], TRUE, agree[2], 0)
    BY <2>1
  <2>3. DOMAIN started = 1 .. Len(vec) /\ started = [i \in 1 .. Len(vec) |-> started[i]]
    BY <2>1
  <2> HIDE DEF started
  <2>4. started \in Seq(ToSet(started))
    BY <2>1, <2>3, ListIsSeq
  <2> QED
    BY <2>1, <2>2, <2>3, <2>4 DEF AgreementRun
<1> HIDE DEF started
<1>4. OneRunEach(started)
  <2>1. MessagesDiffer(vec)
    BY DEF OnceInv, AnnouncementsDiffer
  <2> QED
    BY <1>3, <2>1 DEF OneRunEach, MessagesDiffer, MessagesOf
<1>5. ASSUME NEW x \in ToSet(agreement_tuples), NEW y \in ToSet(started),
             ~is_dummy(x.message.t_dst), x.message = y.message
      PROVE  FALSE
  <2>1. y.message \in ToSet(vec)
    BY <1>3 DEF ToSet
  <2>2. EntriesOnTime(l)
    BY EntriesKeepTime DEF TrafficInv
  <2>3. l - 1 \in Nat /\ AnnouncedFor(x.message) = l - 1
    BY <1>5, <2>1, <2>2 DEF EntriesOnTime
  <2>4. cur_round = l - 1
    BY <2>3, RoundReached
  <2>5. x \in Runs /\ UpdatedShape(x)
    BY DEF Runs, TrafficInv, RunsInv
  <2>6. x.round \in Nat /\ x.round >= 1
    BY <1>5, <2>5, TimingTypes DEF PaceInv, RunsBegun, UpdatedShape
  <2>7. Lag(x) = 0 \/ Lag(x) \in 1 .. (Dimension - 1)
    BY <1>5, <2>5 DEF PaceInv, RunsLagLittle
  <2>8. Lag(x) = (l - 1) - (l - 1) - x.round
    BY <2>3, <2>4 DEF Lag
  <2> QED
    BY <2>3, <2>6, <2>7, <2>8
<1> QED
  BY <1>1, <1>2, <1>3, <1>4, <1>5, RunsTogether DEF started

\* Reports start one run for each message that has none.
LEMMA JoinedDiffer ==
  ASSUME BufferTyped(in[0]), NEW begun, begun \in Seq(ToSet(begun)), NEW agree
  PROVE  LET joined == Joined(begun, agree)
         IN  /\ joined \in Seq(ToSet(joined))
             /\ OneRunEach(joined)
             /\ \A x \in ToSet(begun), y \in ToSet(joined) : x.message # y.message
<1> DEFINE joined  == Joined(begun, agree)
           reports == in[0].agreement
           wanted  == Unknown(begun)
           news    == Selected(reports, wanted)
           runOf(a) == AgreementRun(a.m, FALSE, agree[a.l + 1], WSub(a.l, 1))
<1>1. reports \in Seq(AgreementType) /\ wanted \in SUBSET (DOMAIN reports)
  BY DEF BufferTyped, Unknown
<1>2. IsFiniteSet(wanted) /\ wanted \in SUBSET Int
  BY <1>1, SelectedIsSeq
<1>3. joined = [k \in DOMAIN news |-> runOf(news[k])]
  BY DEF Joined
<1>4. /\ \A j \in wanted : \A i \in DOMAIN begun : begun[i].message # reports[j].m
      /\ \A i, j \in wanted : i \in 1 .. (j - 1) => reports[i].m # reports[j].m
  BY DEF Unknown
<1>5. \A a : runOf(a).message = a.m
  BY DEF AgreementRun
<1> HIDE DEF wanted, reports, runOf, joined
<1>6. /\ Cardinality(wanted) \in Nat
      /\ DOMAIN news = 1 .. Cardinality(wanted)
      /\ \A k \in DOMAIN news :
           Place(wanted, k) \in wanted /\ news[k] = reports[Place(wanted, k)]
      /\ \A k, n \in DOMAIN news : Place(wanted, k) = Place(wanted, n) => k = n
  BY <1>2, SelectedEntries, Zenon
<1> HIDE DEF news
<1>7. /\ DOMAIN joined = 1 .. Cardinality(wanted)
      /\ joined = [k \in 1 .. Cardinality(wanted) |-> joined[k]]
      /\ \A k \in DOMAIN joined : joined[k].message = reports[Place(wanted, k)].m
  BY <1>3, <1>5, <1>6
<1>8. joined \in Seq(ToSet(joined))
  BY <1>6, <1>7, ListIsSeq
<1>9. OneRunEach(joined)
  <2> SUFFICES ASSUME NEW k \in DOMAIN joined, NEW n \in DOMAIN joined,
                      joined[k].message = joined[n].message
               PROVE  k = n
    BY DEF OneRunEach, MessagesDiffer, MessagesOf
  <2>1. Place(wanted, k) \in wanted /\ Place(wanted, n) \in wanted
    BY <1>6, <1>7
  <2>2. reports[Place(wanted, k)].m = reports[Place(wanted, n)].m
    BY <1>7
  <2>3. \A i \in DOMAIN reports : i \in Nat /\ i >= 1
    BY <1>1
  <2>4. Place(wanted, k) = Place(wanted, n)
    BY <1>1, <1>4, <2>1, <2>2, <2>3
  <2> QED
    BY <1>6, <1>7, <2>4
<1>10. \A x \in ToSet(begun), y \in ToSet(joined) : x.message # y.message
  BY <1>4, <1>6, <1>7 DEF ToSet
<1> QED
  BY <1>8, <1>9, <1>10 DEF joined

\* The update of the runs leaves their messages alone.
LEMMA RunsAfterDiffer ==
  ASSUME NEW agree, AllRuns(agree) \in Seq(ToSet(AllRuns(agree))),
         \A run \in ToSet(AllRuns(agree)) : RunShape(run),
         OneRunEach(AllRuns(agree))
  PROVE  OneRunEach(RunsAfter(agree))
<1> DEFINE all == AllRuns(agree)
           runs == [i \in DOMAIN all |-> FinalizedRun(UpdatedRun(all[i]))]
           wanted == {i \in DOMAIN runs : runs[i].round # calculate_agreement_time(Dimension)}
           after == RunsAfter(agree)
<1>1. after = Selected(runs, wanted)
  BY DEF RunsAfter, Advanced, Filtered
<1> HIDE DEF after, all
<1>2. Len(all) \in Nat /\ DOMAIN all = 1 .. Len(all) /\ \A i \in DOMAIN all : all[i] \in ToSet(all)
  BY DEF all, ToSet
<1>3. \A i \in DOMAIN runs : runs[i].message = all[i].message
  BY <1>2, UpdateOfRun DEF all
<1>4. runs \in Seq(ToSet(runs)) /\ DOMAIN runs = DOMAIN all
  <2>1. DOMAIN runs = 1 .. Len(all) /\ runs = [i \in 1 .. Len(all) |-> runs[i]]
    BY <1>2
  <2>2. DOMAIN runs = DOMAIN all
    OBVIOUS
  <2> HIDE DEF runs
  <2> QED
    BY <1>2, <2>1, <2>2, ListIsSeq
<1>5. wanted \in SUBSET (DOMAIN runs)
  OBVIOUS
<1> HIDE DEF wanted, runs
<1>6. IsFiniteSet(wanted) /\ wanted \in SUBSET Int
  BY <1>4, <1>5, SelectedIsSeq
<1>7. /\ \A k \in DOMAIN after : Place(wanted, k) \in wanted /\ after[k] = runs[Place(wanted, k)]
      /\ \A k, n \in DOMAIN after : Place(wanted, k) = Place(wanted, n) => k = n
  <2>1. LET s == Selected(runs, wanted)
        IN  /\ \A k \in DOMAIN s : Place(wanted, k) \in wanted /\ s[k] = runs[Place(wanted, k)]
            /\ \A k, n \in DOMAIN s : Place(wanted, k) = Place(wanted, n) => k = n
    BY ONLY <1>6, SelectedEntries, Zenon
  <2> QED
    BY ONLY <1>1, <2>1
<1> SUFFICES ASSUME NEW k \in DOMAIN after, NEW n \in DOMAIN after,
                    ~is_dummy(after[k].message.t_dst), after[k].message = after[n].message
             PROVE  k = n
  BY DEF OneRunEach, MessagesDiffer, MessagesOf, after
<1>8. /\ Place(wanted, k) \in DOMAIN all /\ Place(wanted, n) \in DOMAIN all
      /\ all[Place(wanted, k)].message = after[k].message
      /\ all[Place(wanted, n)].message = after[n].message
  BY <1>3, <1>4, <1>5, <1>7
<1>9. Place(wanted, k) = Place(wanted, n)
  BY <1>8 DEF OneRunEach, MessagesDiffer, MessagesOf, all
<1> QED
  BY <1>7, <1>9

\* No step starts a second run of a message.
LEMMA NextOnce ==
  ASSUME PeersKeepTime, AnnouncedOnce, MaxCopies = 1,
         TrafficInv, PaceInv, OnceInv, [Next]_vars
  PROVE  OnceInv'
<1>1. CASE TrafficIn
  <2>1. UNCHANGED agreement_tuples
    BY <1>1 DEF TrafficIn, traffic_in, Crash, memory, roundVars
  <2> QED
    BY <1>1, <2>1, TrafficInDiffers DEF OnceInv, TrafficInv, OneRunPerMessage
<1>2. CASE traffic_out /\ crashed' = "no"
  <2>1. PICK l \in 0 .. MaxTime, random \in Quorums :
          LET ov    == OverlayUpdate(overlay, l, in[0].structure, random, NoPeer)
              agree == PushAgree(ov)
          IN  /\ cur_round = WSub(l, 1)
              /\ agreement_tuples' = RunsAfter(agree)
              /\ ShiftBuffers
    BY <1>2, RoundStep, Zenon DEF TrafficInv
  <2> DEFINE ov    == OverlayUpdate(overlay, l, in[0].structure, random, NoPeer)
             agree == PushAgree(ov)
             begun == agreement_tuples \o Started(agree)
             joined == Joined(begun, agree)
             all   == AllRuns(agree)
  <2>2. cur_round = WSub(l, 1) /\ agreement_tuples' = RunsAfter(agree) /\ ShiftBuffers
    BY <2>1
  <2> HIDE DEF ov, agree
  <2>3. AnnouncementsDiffer'
    <3>1. in'[0] = in[1] /\ in'[1].announce = <<>>
      BY <2>2 DEF ShiftBuffers, NoPackets
    <3>2. MessagesDiffer(in[1].announce)
      BY DEF OnceInv, AnnouncementsDiffer
    <3>3. \A k \in 0 .. 1 : k = 0 \/ k = 1
      OBVIOUS
    <3>4. MessagesDiffer(<<>>)
      BY DEF MessagesDiffer
    <3>5. \A k \in 0 .. 1 : MessagesDiffer(in'[k].announce)
      BY <3>1, <3>2, <3>3, <3>4
    <3> QED
      BY <3>5 DEF AnnouncementsDiffer, MessagesDiffer
  <2>4. RunsInv /\ BufferTyped(in[0])
    BY DEF TrafficInv, InboxInv
  <2>5. /\ begun \in Seq(ToSet(begun)) /\ all \in Seq(ToSet(all))
    BY <2>4, AllRunsEntries
  <2>6. OneRunEach(begun)
    BY <2>2, BegunDiffer
  <2>7. all = begun \o joined
    BY DEF AllRuns
  <2>8. \A run \in ToSet(all) : RunShape(run)
    BY <2>4, AllRunsShape
  <2> HIDE DEF begun, joined, all
  <2>9. /\ joined \in Seq(ToSet(joined)) /\ OneRunEach(joined)
        /\ \A x \in ToSet(begun), y \in ToSet(joined) : x.message # y.message
    BY <2>4, <2>5, JoinedDiffer DEF joined
  <2>10. OneRunEach(all)
    BY <2>5, <2>6, <2>7, <2>9, RunsTogether
  <2>11. OneRunEach(RunsAfter(agree))
    BY <2>5, <2>8, <2>10, RunsAfterDiffer DEF all
  <2>12. OneRunPerMessage'
    BY <2>2, <2>11 DEF OneRunPerMessage, OneRunEach, MessagesDiffer, MessagesOf
  <2> QED
    BY <2>3, <2>12 DEF OnceInv
<1>3. CASE ~TrafficIn /\ ~(traffic_out /\ crashed' = "no")
  <2>1. UNCHANGED <<in, agreement_tuples>>
    <3>1. CASE traffic_out
      BY <1>3, <3>1 DEF traffic_out, RunRound, Crash, memory, roundVars, Running
    <3>2. CASE ~traffic_out
      BY <1>3, <3>2 DEF Next, Tick, ServerPacket, received_msg_from_server,
           first_packet_from_peer, generate_pseudonym, SendMessage, send_message,
           ReceiveMessage, receive_message, Crash, memory, vars, roundVars
    <3> QED
      BY <3>1, <3>2
  <2> QED
    BY <2>1 DEF OnceInv, AnnouncementsDiffer, MessagesDiffer, OneRunPerMessage
<1> QED
  BY <1>1, <1>2, <1>3

(* If peers keep time, each message is announced once and the network      *)
(* delivers a packet once, then a message has one run however many peers   *)
(* report it, and whenever: a late report finds the run it belongs to or   *)
(* starts the only one, and no announcement meets a run that reports have  *)
(* started before (client_enclave.cpp:244-264).                            *)
THEOREM MessagesRunOnce ==
  PeersKeepTime /\ AnnouncedOnce /\ MaxCopies = 1 => (Spec => []OneRunPerMessage)
<1> SUFFICES ASSUME PeersKeepTime, AnnouncedOnce, MaxCopies = 1
             PROVE  Spec => []OneRunPerMessage
  OBVIOUS
<1>1. Init => OnceInv
  <2> SUFFICES ASSUME Init PROVE OnceInv
    OBVIOUS
  <2>1. agreement_tuples = <<>> /\ \A k \in 0 .. 1 : in[k].announce = <<>>
    BY DEF Init, NoPackets
  <2> QED
    BY <2>1 DEF OnceInv, AnnouncementsDiffer, MessagesDiffer, OneRunPerMessage
<1>2. TrafficInv /\ PaceInv /\ OnceInv /\ [Next]_vars => OnceInv'
  BY NextOnce
<1>3. OnceInv => OneRunPerMessage
  BY DEF OnceInv
<1> QED
  BY <1>1, <1>2, <1>3, PaceCorrect, PTL DEF Spec

-----------------------------------------------------------------------------
(* No packet carries a message from quorum to quorum.                      *)

\* What peers' packets say of messages on their way
RoutedTuples == {s \in RoutingType : Rank(s.bucket_dst) \in Nat}
InjectedMessages == {m \in MessageType : Rank(m.n_dst) \in Nat}

\* The vectors used in a round are those of peers, and their pseudonyms have
\* a place in the order of the code.
LEMMA RoutedEntries ==
  ASSUME InboxInv
  PROVE  /\ in[0].routing \in Seq(Seq(RoutedTuples))
         /\ in[0].inject \in Seq(InjectedMessages)
<1> DEFINE round == WAdd(cur_round, 0)
<1>1. BufferTyped(in[0]) /\ ComesFrom(in[0], Carried(round))
  BY DEF InboxInv
<1>2. ASSUME NEW p \in Carried(round)
      PROVE  /\ p.routing \in Seq(RoutingType)
             /\ \A i \in DOMAIN p.routing : Rank(p.routing[i].bucket_dst) \in Nat
             /\ \A i \in DOMAIN p.inject : Rank(p.inject[i].n_dst) \in Nat
  <2>1. PICK sender \in Peers : Copies(<<sender, round>>) > 0 /\ p \in Payloads(sender, round)
    BY DEF Carried, Heard
  <2>2. <<sender, round>> \in DOMAIN copies
    BY <2>1 DEF Copies
  <2>3. round \in Stamps
    BY <2>2 DEF InboxInv, CopiesCounted
  <2> QED
    BY <2>1, <2>3, PayloadAssumption
<1> HIDE DEF round
<1>3. in[0].routing \in Seq(Seq(RoutedTuples))
  <2> DEFINE vec == in[0].routing
             T   == Seq(RoutedTuples)
  <2>1. vec \in Seq(Seq(RoutingType))
    BY <1>1 DEF BufferTyped
  <2>2. ASSUME NEW i \in DOMAIN vec
        PROVE  vec[i] \in T
    <3>1. vec[i] \in ToSet(vec)
      BY DEF ToSet
    <3>2. PICK p \in Carried(round) : vec[i] = p.routing
      BY <1>1, <3>1 DEF ComesFrom
    <3> DEFINE hops == p.routing
    <3>3. hops \in Seq(RoutingType) /\ \A k \in DOMAIN hops : Rank(hops[k].bucket_dst) \in Nat
      BY <1>2
    <3> HIDE DEF hops
    <3>4. \A k \in DOMAIN hops : hops[k] \in RoutedTuples
      BY <3>3 DEF RoutedTuples
    <3>5. hops \in Seq(RoutedTuples)
      BY <3>3, <3>4
    <3> QED
      BY <3>2, <3>5 DEF hops
  <2>3. DOMAIN vec = 1 .. Len(vec) /\ Len(vec) \in Nat /\ vec = [i \in 1 .. Len(vec) |-> vec[i]]
    <3> DEFINE U == Seq(RoutingType)
    <3>1. vec \in Seq(U)
      BY <2>1
    <3> HIDE DEF U, vec
    <3> QED
      BY <3>1
  <2> HIDE DEF T, vec
  <2>4. vec \in Seq(T)
    BY <2>2, <2>3
  <2> QED
    BY <2>4 DEF T, vec
<1>4. in[0].inject \in Seq(InjectedMessages)
  <2> DEFINE vec == in[0].inject
  <2>1. vec \in Seq(MessageType)
    BY <1>1 DEF BufferTyped
  <2>2. ASSUME NEW i \in DOMAIN vec
        PROVE  vec[i] \in InjectedMessages
    <3>1. vec[i] \in ToSet(vec) /\ vec[i] \in MessageType
      BY <2>1 DEF ToSet
    <3>2. PICK p \in Carried(round) : vec[i] \in ToSet(p.inject)
      BY <1>1, <3>1 DEF ComesFrom
    <3>3. Rank(vec[i].n_dst) \in Nat
      BY <1>2, <3>2 DEF ToSet
    <3> QED
      BY <3>1, <3>3 DEF InjectedMessages
  <2> HIDE DEF vec
  <2>3. vec \in Seq(InjectedMessages)
    BY <2>1, <2>2
  <2> QED
    BY <2>3 DEF vec
<1> QED
  BY <1>3, <1>4

\* Counting the elements keeps some of them.
LEMMA ExceedingFrom ==
  ASSUME NEW S, NEW vec \in Seq(S), NEW keys
  PROVE  Exceeding(vec, keys) \in Seq(S)
<1> DEFINE number(i) == Cardinality({j \in DOMAIN vec : keys[i] = keys[j]})
           first(i)  == \A j \in 1 .. (i - 1) : keys[i] # keys[j]
           wanted    == {i \in DOMAIN vec : first(i) /\ number(i) > m_corrupt}
<1>1. Exceeding(vec, keys) = Selected(vec, wanted)
  BY DEF Exceeding
<1>2. wanted \in SUBSET (DOMAIN vec)
  OBVIOUS
<1> HIDE DEF wanted
<1> QED
  BY <1>1, <1>2, SelectedIsSeq

\* What a round hands to route() has just been injected or is overdue.
LEMMA RoutingInputEntries ==
  ASSUME InboxInv, NEW l \in 0 .. MaxTime,
         \A i \in DOMAIN ToInject : Decrypts(ToInject[i].n_dst) /\ Decrypts(ToInject[i].n_src)
  PROVE  \E E : /\ RoutingInput(l) \in Seq(E)
                /\ \A s \in E : Sortable(s) /\ (Fresh(s, l) \/ Overdue(s, l))
<1> DEFINE E == {s \in ToSet(RoutingInput(l)) : Sortable(s) /\ (Fresh(s, l) \/ Overdue(s, l))}
           injected == Injected(l)
           late == {k \in DOMAIN VSet : VSet[k].l_dst < l}
           overdue == Selected(VSet, late)
<1>1. RoutingInput(l) = injected \o overdue
  BY DEF RoutingInput, Filtered
<1>2. l \in Nat /\ Word \in Nat
  BY WordsSuffice
<1>3. ToInject \in Seq(InjectedMessages)
  <2> DEFINE msgs == Exceeding(in[0].inject, TimesOf(in[0].inject))
             wanted == {i \in DOMAIN msgs : ~is_dummy(msgs[i].t_dst)}
  <2>1. msgs \in Seq(InjectedMessages)
    BY RoutedEntries, ExceedingFrom
  <2>2. ToInject = Selected(msgs, wanted) /\ wanted \in SUBSET (DOMAIN msgs)
    BY DEF ToInject, WithoutDummies, Filtered
  <2> HIDE DEF msgs, wanted
  <2> QED
    BY <2>1, <2>2, SelectedIsSeq
<1>4. VSet \in Seq(RoutedTuples)
  <2> DEFINE vecs == Exceeding(in[0].routing, SortKeysOf(in[0].routing))
  <2>1. vecs \in Seq(Seq(RoutedTuples))
    BY RoutedEntries, ExceedingFrom
  <2>2. VSet = FlattenSeq(vecs)
    BY DEF VSet
  <2> HIDE DEF vecs
  <2> QED
    BY <2>1, <2>2, FlattenIsSeq
<1>5. ASSUME NEW i \in DOMAIN ToInject
      PROVE  Sortable(injected[i]) /\ Fresh(injected[i], l)
  <2> DEFINE m == ToInject[i]
             s == injected[i]
             dst == decrypt_pseudonym(m.n_dst).onid
             src == decrypt_pseudonym(m.n_src).onid
             end == l + calculate_routing_time(Dimension)
  <2>1. m \in MessageType /\ Rank(m.n_dst) \in Nat
    BY <1>3 DEF InjectedMessages
  <2>2. m.t_dst \in Nat /\ m.n_dst \in PseudonymType /\ m.n_src \in PseudonymType
    BY <2>1, TimingTypes DEF MessageType, Words
  <2>3. ASSUME NEW n \in PseudonymType, Decrypts(n)
        PROVE  decrypt_pseudonym(n).onid \in Nat
    BY <2>3 DEF PseudonymType, Decrypts, decrypt_pseudonym
  <2>4. dst \in Nat /\ src \in Nat
    BY <2>2, <2>3
  <2>5. end \in Nat
    BY <1>2, TimingTypes
  <2>6. s = [m |-> m, onid_dst |-> dst, bucket_dst |-> m.n_dst, l_dst |-> end,
             onid_current |-> src]
    BY DEF Injected, AsTuple
  <2> HIDE DEF m, s, dst, src
  <2>7. s.onid_dst \in Nat /\ Rank(s.bucket_dst) \in Nat /\ s.onid_current \in Nat
        /\ s.m.t_dst \in Nat /\ s.l_dst = end
    BY <2>1, <2>2, <2>4, <2>6
  <2> QED
    BY <2>5, <2>7 DEF Sortable, Fresh, s
<1>6. ASSUME NEW k \in DOMAIN VSet, VSet[k].l_dst < l
      PROVE  Sortable(VSet[k]) /\ Overdue(VSet[k], l)
  <2> DEFINE s == VSet[k]
  <2>1. s \in RoutedTuples
    BY <1>4
  <2> HIDE DEF s
  <2>2. s \in RoutingType /\ Rank(s.bucket_dst) \in Nat
    BY <2>1 DEF RoutedTuples
  <2>3. /\ s.m \in MessageType /\ s.onid_dst \in Nat /\ s.onid_current \in Nat
        /\ s.l_dst \in Words
    BY <2>2 DEF RoutingType
  <2>4. s.l_dst \in Nat
    BY <2>3, TimingTypes DEF Words
  <2>5. s.m.t_dst \in Nat
    BY <2>3, TimingTypes DEF MessageType, Words
  <2>6. s.l_dst < l
    BY <1>6 DEF s
  <2> QED
    BY <2>2, <2>3, <2>4, <2>5, <2>6 DEF Sortable, Overdue, s
<1>7. injected \in Seq(ToSet(injected)) /\ \A i \in DOMAIN injected : i \in DOMAIN ToInject
  <2>1. Len(ToInject) \in Nat /\ DOMAIN ToInject = 1 .. Len(ToInject)
    BY <1>3
  <2>2. DOMAIN injected = DOMAIN ToInject /\ injected = [i \in DOMAIN ToInject |-> injected[i]]
    BY DEF Injected
  <2> HIDE DEF injected
  <2> QED
    BY <2>1, <2>2, ListIsSeq
<1>8. /\ overdue \in Seq(ToSet(overdue))
      /\ \A k \in DOMAIN overdue : \E i \in late : overdue[k] = VSet[i]
  <2>1. late \in SUBSET (DOMAIN VSet)
    OBVIOUS
  <2> HIDE DEF late
  <2>2. IsFiniteSet(late) /\ late \in SUBSET Int /\ overdue \in Seq(RoutedTuples)
    BY <1>4, <2>1, SelectedIsSeq
  <2>3. \A k \in DOMAIN overdue : Place(late, k) \in late /\ overdue[k] = VSet[Place(late, k)]
    BY <2>2, SelectedEntries, Zenon
  <2> HIDE DEF overdue
  <2>4. \A k \in DOMAIN overdue : overdue[k] \in ToSet(overdue)
    BY DEF ToSet
  <2>5. overdue \in Seq(ToSet(overdue))
    BY <2>2, <2>4
  <2>6. \A k \in DOMAIN overdue : \E i \in late : overdue[k] = VSet[i]
    BY <2>3, Zenon
  <2> QED
    BY <2>5, <2>6
<1> HIDE DEF injected, overdue
<1>9. /\ RoutingInput(l) \in Seq(ToSet(RoutingInput(l)))
      /\ ToSet(RoutingInput(l)) = ToSet(injected) \cup ToSet(overdue)
  BY <1>1, <1>7, <1>8, EntriesOfAny
<1>10. ASSUME NEW s \in ToSet(RoutingInput(l))
       PROVE  Sortable(s) /\ (Fresh(s, l) \/ Overdue(s, l))
  <2>1. CASE s \in ToSet(injected)
    BY <1>5, <1>7, <2>1 DEF ToSet
  <2>2. CASE s \in ToSet(overdue)
    BY <1>6, <1>8, <2>2 DEF ToSet
  <2> QED
    BY <1>9, <2>1, <2>2
<1> QED
  BY <1>9, <1>10

\* No step sends a routed message.
LEMMA NextNothingRouted ==
  ASSUME TypeInv, InboxInv, NothingRouted, [Next]_vars
  PROVE  NothingRouted'
<1>1. CASE traffic_out /\ crashed' = "no"
  <2>1. PICK l \in 0 .. MaxTime, random \in Quorums :
          LET ov    == OverlayUpdate(overlay, l, in[0].structure, random, NoPeer)
              agree == PushAgree(ov)
          IN  /\ FirstFault(ov, agree, l) = "no"
              /\ out' = [i \in Receivers(ov, agree) |-> PacketFor(i, ov, agree, l)]
    BY <1>1, RoundStep, Zenon
  <2> DEFINE ov    == OverlayUpdate(overlay, l, in[0].structure, random, NoPeer)
             agree == PushAgree(ov)
  <2>2. /\ FirstFault(ov, agree, l) = "no"
        /\ out' = [i \in Receivers(ov, agree) |-> PacketFor(i, ov, agree, l)]
    BY <2>1
  <2> HIDE DEF ov, agree
  <2>3. /\ \A i \in DOMAIN ToInject : Decrypts(ToInject[i].n_dst) /\ Decrypts(ToInject[i].n_src)
        /\ ~RouteAborts(RoutingInput(l), l)
    BY <2>2 DEF FirstFault
  <2>4. PICK E : /\ RoutingInput(l) \in Seq(E)
                 /\ \A s \in E : Sortable(s) /\ (Fresh(s, l) \/ Overdue(s, l))
    BY <2>3, RoutingInputEntries
  <2>5. l \in Nat /\ l + 2 * Dimension + 2 < Word
    BY WordsSuffice
  <2>6. route(RoutingInput(l), l) = <<>>
    BY <2>3, <2>4, <2>5, RouteAbortsOrIsIdle
  <2>7. ASSUME NEW i
        PROVE  RoutingFor(i, ov, l) \in Seq({})
    <3> DEFINE hops == route(RoutingInput(l), l)
               at == {o \in DOMAIN ov.gamma_route : i \in ov.gamma_route[o]}
               wanted == {k \in DOMAIN hops : hops[k].onid_current \in at}
    <3>1. RoutingFor(i, ov, l) = Selected(hops, wanted) /\ wanted \in SUBSET (DOMAIN hops)
      BY DEF RoutingFor, Filtered
    <3>2. hops = <<>>
      BY <2>6
    <3> HIDE DEF hops, wanted
    <3>3. hops \in Seq({})
      BY <3>2
    <3> QED
      BY <3>1, <3>3, SelectedIsSeq
  <2>8. ASSUME NEW i \in DOMAIN out', NEW k \in DOMAIN out'[i].routing
        PROVE  out'[i].routing[k] = RoutingFiller(0)
    <3> DEFINE vec == RoutingFor(i, ov, l)
               dummy == RoutingFiller(0)
               padded == Pad(vec, dummy, max_routing_msg_out)
    <3>1. out'[i].routing = IF i \in RoutePeers(ov) THEN padded ELSE <<>>
      BY <2>2 DEF PacketFor
    <3>2. vec \in Seq({})
      BY <2>7
    <3> HIDE DEF vec, dummy
    <3>3. ToSet(vec) = {} /\ vec \in Seq(ToSet(vec))
      BY <3>2 DEF ToSet
    <3>4. max_routing_msg_out \in Int
      BY QuotaAssumption
    <3>5. \A x \in ToSet(padded) : x = dummy
      BY <3>3, <3>4, PadEntries
    <3> HIDE DEF padded
    <3>6. out'[i].routing = padded
      BY <3>1
    <3>7. out'[i].routing[k] \in ToSet(padded)
      BY <3>6 DEF ToSet
    <3> QED
      BY <3>5, <3>7 DEF dummy
  <2> QED
    BY <2>8 DEF NothingRouted, RoutingFiller, Filler
<1>2. CASE ~(traffic_out /\ crashed' = "no")
  <2>1. UNCHANGED out
    <3>1. CASE traffic_out
      BY <1>2, <3>1 DEF traffic_out, RunRound, Crash, memory, roundVars, Running
    <3>2. CASE ~traffic_out
      BY <3>2, OtherRuns
    <3> QED
      BY <3>1, <3>2
  <2> QED
    BY <2>1 DEF NothingRouted, RoutingFiller, Filler
<1> QED
  BY <1>1, <1>2

(* For every dimension, word size, and every packet of the peers: what the *)
(* enclave sends to the peers that route is dummies alone.  A message that *)
(* reaches route(), injected by its source's quorum or overdue, ends the   *)
(* round at an assert before packets are sent                              *)
(* (client_enclave.cpp:336, 352-366, routing_scheme.cpp:22-25).            *)
THEOREM NoMessageIsRouted == Spec => []NothingRouted
<1>1. Init => NothingRouted
  BY DEF Init, NothingRouted
<1>2. TrafficInv /\ NothingRouted /\ [Next]_vars => NothingRouted'
  BY NextNothingRouted DEF TrafficInv
<1> QED
  BY <1>1, <1>2, TrafficCorrect, PTL DEF Spec
=============================================================================
