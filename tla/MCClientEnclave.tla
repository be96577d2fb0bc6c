--------------------------- MODULE MCClientEnclave ---------------------------
(***************************************************************************)
(* Small instances of ClientEnclave for TLC: constants, the packets other  *)
(* peers may send, and the properties that need to know these packets.     *)
(***************************************************************************)
EXTENDS ClientEnclaveProps

CONSTANTS p0, p1, p2, p3, p4, none, zeros, m0, m1

MCRank(pseudonym) == IF pseudonym = zeros THEN 0 ELSE pseudonym.num + 1
MCTarget(bucket, l) == 0

\* The only pseudonym of a peer associated with quorum 0
PseudonymOf(peer) == [key |-> "sk_pseud", onid |-> 0, peer |-> peer, num |-> 0]
MCForeign == {PseudonymOf(p1)}

Message(owner, n_dst, t_dst) ==
  [n_src |-> PseudonymOf(owner), m |-> m1, n_dst |-> PseudonymOf(n_dst), t_dst |-> t_dst]

Packet(structure, announce, agreement, inject, predeliver, deliver) ==
  [structure |-> structure, announce |-> announce, agreement |-> agreement,
   inject |-> inject, routing |-> <<>>, predeliver |-> predeliver, deliver |-> deliver]

NoPayloads(sender, round) == {}

-----------------------------------------------------------------------------
(* Dimension 0: p0 and p1 are the only quorum.  With kDelta = 1 the lead   *)
(* is 32: times below 32 wrap the check of send_message, 28 .. 31 are due  *)
(* in round 0, 32 .. 35 in round 1, and so on.                             *)

MCInit0 == {[onid_assoc |-> 0, onid_emul |-> 0, gamma_send |-> {p1}, gamma_receive |-> {p1},
             gamma_route |-> [o \in {0} |-> {p0, p1}]]}

QueueTimes == {5, 29, 30, 32, 36}

\* Without the times that wrap
LeadTimes == {32, 36, 37}

\* No two injected messages are alike, and every sender delivers the same
\* message of the round.
RoundPayloads(sender, round) ==
  LET same == Message(p1, p0, 4 * round + 2)
      own  == Message(sender, p0, 4 * round + (IF sender = p1 THEN 2 ELSE 3))
  IN  IF sender = p0 THEN {} ELSE {Packet({}, <<>>, <<>>, <<own>>, <<same>>, <<same>>)}

\* The same message delivered by the peers of its destination's quorum
DeliverPayloads(sender, round) ==
  IF sender = p0 \/ round # 1 THEN {}
  ELSE {Packet({}, <<>>, <<>>, <<>>, <<>>, <<Message(p1, p0, 6)>>)}

-----------------------------------------------------------------------------
(* Dimension 2: four quorums, p0 and p1 emulate quorum 0 and p2 quorum 1.  *)
(* The overlay reconfigures itself in rounds 1, 5 and 9.  Round 1 leaves   *)
(* p0 without agreement peers; a handover that arrives in time gives it    *)
(* the peers of quorum 0 in round 5.                                       *)

MCInit2 ==
  {[onid_assoc |-> 0, onid_emul |-> 0, gamma_send |-> {p0, p1}, gamma_receive |-> {p0, p1},
    gamma_route |-> [o \in {0, 1, 2} |-> IF o = 0 THEN {p0, p1} ELSE IF o = 1 THEN {p2} ELSE {}]]}

\* The message announced for a round
Announced(round) == Message(p1, p2, 4 * (round + 12))

\* A peer whose run is in its round l - 1 reports that the message announced
\* for round "about" is known.
Report(sender, about, l) == [m |-> Announced(about), s |-> sender, l |-> l]

(* p1 announces a message for round 4, before the reconfiguration, and     *)
(* another for round 6.  A packet is used two rounds after it is sent, so  *)
(* the reports about the first are stamped 6.  Packets of p1 and p3 of     *)
(* this round inject a message too, at a time at which the handover has    *)
(* given p0 somebody to route to.  p2 and p3 announce dummies, as all      *)
(* peers do.  Every packet may be lost.                                    *)
AgreementPayloads(sender, round) ==
  CASE sender = p2 /\ round = 3 ->
         {Packet({HandOverMessage([o \in {0} |-> {p0, p1}], {p1}, none)},
                 <<>>, <<>>, <<>>, <<>>, <<>>)}
    [] sender = p1 /\ round = 4 ->
         {Packet({}, <<Announced(4)>>, <<>>, <<>>, <<>>, <<>>)}
    [] sender = p1 /\ round = 6 ->
         {Packet({}, <<Announced(6)>>, <<Report(p1, 4, 2)>>, <<Announced(4)>>, <<>>, <<>>)}
    [] sender = p2 /\ round = 6 ->
         {Packet({}, <<Filler(0)>>, <<Report(p2, 4, 2)>>, <<>>, <<>>, <<>>)}
    [] sender = p3 /\ round = 6 ->
         {Packet({}, <<Filler(0)>>, <<>>, <<Announced(4)>>, <<>>, <<>>)}
    [] OTHER -> {}

\* The peers of all instances follow the protocol.
ASSUME PeersFollowProtocol == PeersKeepTime /\ AnnouncedOnce
=============================================================================
