------------------------------ MODULE RoundsProps ------------------------------
(***************************************************************************)
(* What the enclaves' asserts and buffers demand of the rounds of several  *)
(* peers.  Nothing is assumed of the delays of packets: where they matter, *)
(* the property speaks of the delay of the single packet.                  *)
(***************************************************************************)
EXTENDS Rounds

\* The longest time between two calls of traffic_out: the last comparison
\* that finds it too early, and one more turn
CallGap == ((kDelta - 1) \div 2) + MaxTurn

\* A call falls into every quarter of a round.
LoopKeepsUp == CallGap <= kDelta

TypeOK ==
  /\ time \in 0 .. MaxTime
  /\ crashed \in [Peers -> {"no", "cur_or_next < 2", "cur_round_ == (subround / 4) - 1"}]
  /\ nm_initialized \in [Peers -> BOOLEAN]
  /\ initialized \in [Peers -> BOOLEAN]
  /\ init_time \in [Peers -> Nat]
  /\ cur_round \in [Peers -> Words]
  /\ waiting \in [Peers -> BOOLEAN]
  /\ checked \in [Peers -> Nat]
  /\ start \in [Peers -> Nat]
  /\ \A m \in network : m.to \in Peers /\ m.round \in Nat /\ m.at \in 0 .. time

\* The packet has taken long enough for its receiver to be in the sender's
\* round, and not so long that the receiver may be in the next but one.
Timely(m) ==
  /\ time >= m.at + MaxSkew + kDelta
  /\ time + MaxSkew + kDelta <= m.at + 2 * RoundLength

(* A timely packet is neither fatal nor dropped: the peer that takes it    *)
(* has it in one of its buffers afterwards, whatever the delays of all     *)
(* other packets, as long as its own init message has reached it           *)
(* (client_enclave.cpp:521-550).                                           *)
TimelyKept ==
  [][\A m \in network \ network' :
       m.from # LoginServer /\ initialized[m.to] /\ Timely(m) =>
         /\ crashed'[m.to] = "no"
         /\ m \in in'[m.to][0] \cup in'[m.to][1]]_vars

(* The assert of client_enclave.cpp:527: no peer gets a packet from one    *)
(* that is a round ahead of it.                                            *)
NobodyAhead == \A p \in Peers : crashed[p] # "cur_or_next < 2"

(* A call of traffic_out falls into the first quarter of every round: the  *)
(* assert of client_enclave.cpp:212 holds.                                 *)
NoRoundMissed == \A p \in Peers : crashed[p] # "cur_round_ == (subround / 4) - 1"

LastRound == (MaxTime - 1) \div RoundLength

Round(p) == IF cur_round[p] = Word - 1 THEN -1 ELSE cur_round[p]

\* Packets by their senders and the rounds they were sent in
Sent(packets) == {<<m.from, m.round - 1>> : m \in packets}

Mailbox == INSTANCE LossyRounds WITH
             round <- [p \in Peers |-> Round(p)],
             arrived <- [p \in Peers |-> Sent(in[p][0] \cup in[p][1])],
             heard <- [p \in Peers |-> Sent(used[p])]

(* The stamps and the two buffers are a mailbox of rounds: whoever enters  *)
(* a round uses all packets it has taken in of two rounds before and no    *)
(* others, however fast, slow or out of order the packets are              *)
(* (client_enclave.cpp:205-213, 443, 455-470, 521-550).                    *)
UsedInTheirRound == Mailbox!Spec

(* Every peer enters every round, unless one of two packets came too       *)
(* early: one that overtook the init message, or one of a peer that is a   *)
(* round ahead (client.cpp:113-125, network_manager.cpp:76,                *)
(* client_enclave.cpp:527).                                                *)
EveryRoundEntered ==
  \A p \in Peers :
    <>(\/ cur_round[p] = LastRound
       \/ nm_initialized[p] /\ ~initialized[p]
       \/ crashed[p] = "cur_or_next < 2")
=============================================================================
