-------------------------- MODULE ClientEnclaveProps --------------------------
(***************************************************************************)
(* What the enclave has to guarantee.                                      *)
(***************************************************************************)
EXTENDS ClientEnclave

\* Where the enclave can end
Places ==
  {"no", "send_message", "receive_message", "undefined", "cur_or_next < 2", "traffic_in",
   "cur_round_ == (subround / 4) - 1", "gamma_agree_for_round_.at", "agreed.n_src",
   "gamma_route.at", "inject_message.n_dst", "route", "out_routing.count(i) == 0",
   "predelivered.n_dst", "out_announce[i].size()", "out_routing[i].size()",
   "out_predeliver[i].size()", "out_deliver[i].size()"}

\* A message as it waits in q_out
QueueEntries ==
  [n_src : [key : {"sk_pseud"}, onid : Nat, peer : {Self, Self0}, num : 0 .. (kAMax - 1)],
   m : Msgs, n_dst : Destinations, t_dst : Words, nth : 1 .. kSend]

(* The state of the sending side has its type, and the vectors indexed by  *)
(* local_num grow together (client_enclave.cpp:94-159).                    *)
TypeOK ==
  /\ crashed \in Places
  /\ nm_initialized \in BOOLEAN
  /\ initialized \in BOOLEAN
  /\ now \in 0 .. MaxTime
  /\ cur_round \in Words
  /\ onid_repr \in Nat
  /\ own_id \in {Self, Self0}
  /\ pseudonyms \in Seq([onid : Nat, peer : {Self, Self0}, num : Nat])
  /\ Len(pseudonyms) <= kAMax
  /\ \A i \in DOMAIN pseudonyms : pseudonyms[i].num = i - 1
  /\ DOMAIN num_entries = DOMAIN pseudonyms
  /\ DOMAIN q_in = DOMAIN pseudonyms
  /\ \A n \in DOMAIN num_entries : \A l \in DOMAIN num_entries[n] :
       l \in Words /\ num_entries[n][l] \in 1 .. kSend
  /\ q_out \subseteq QueueEntries

-----------------------------------------------------------------------------
(* Sending *)

(* What users hand in for one round never exceeds the fixed number of      *)
(* announcements of a round: the assert of client_enclave.cpp:386 holds.   *)
AnnounceFits == crashed # "out_announce[i].size()"

\* A message accepted although it was handed in with less than the lead: the
\* subtraction of send_message has wrapped around
Wrapped(q) == q.t_dst < Lead(Dimension)

(* A message misses the round it is due in only while the queue holds one  *)
(* that was accepted without the lead (client_enclave.cpp:137, 235).       *)
Punctual ==
  (\A q \in q_out : ~Wrapped(q)) =>
     \A q \in q_out : q.t_dst >= DueFrom(WAdd(cur_round, 1), Dimension)

(* Until its round, no accepted message leaves the queue: the counter of   *)
(* its pseudonym and round is the number of messages waiting               *)
(* (client_enclave.cpp:145-158, 235-241).                                  *)
NothingLost ==
  \A n \in DOMAIN num_entries : \A l \in DOMAIN num_entries[n] :
    l * RoundLength >= DueFrom(WAdd(cur_round, 1), Dimension) =>
      Cardinality({q \in q_out : q.n_src.num + 1 = n
                                 /\ calculate_round_from_t(q.t_dst) = l})
        = num_entries[n][l]

-----------------------------------------------------------------------------
(* Agreement.  Some properties rely on peers that follow the protocol; what *)
(* is relied on is stated here, and PacketsKeepTime says that the enclave  *)
(* itself lives up to it.  A packet is stamped with the round after the    *)
(* one it is sent in, and used on entering the round after its stamp.      *)

\* The round with which the announcement of a message is stamped
AnnouncedFor(m) ==
  calculate_round_from_t(m.t_dst)
    - (calculate_agreement_time(Dimension) + calculate_routing_time(Dimension) + 2)

\* A packet announces messages in the round in which they are due, and its
\* reports say how often their message has been passed on.
KeepsTime(packet, round) ==
  /\ \A m \in ToSet(packet.announce) : ~is_dummy(m.t_dst) => AnnouncedFor(m) = round
  /\ \A a \in ToSet(packet.agreement) :
       /\ a.l <= round
       /\ ~is_dummy(a.m.t_dst) => a.l >= 2 /\ round = AnnouncedFor(a.m) + 2 * (a.l - 1)

PeersKeepTime ==
  \A sender \in Peers, round \in Stamps : \A p \in Payloads(sender, round) :
    KeepsTime(p, round)

\* A message is announced by its own peer alone, and once.
AnnouncedOnce ==
  \A s1, s2 \in Peers, round \in Stamps :
    \A p1 \in Payloads(s1, round), p2 \in Payloads(s2, round) :
      \A i \in DOMAIN p1.announce, j \in DOMAIN p2.announce :
        ~is_dummy(p1.announce[i].t_dst) /\ p1.announce[i] = p2.announce[j]
          => s1 = s2 /\ i = j

Runs == ToSet(agreement_tuples)

(* The enclave's own packets keep time, as it expects of its peers:        *)
(* messages are announced in the one round in which they are due, and each *)
(* run reports its message once, with the number of its round              *)
(* (client_enclave.cpp:235-241, 266-307; structures.h:237-241).            *)
PacketsKeepTime == \A i \in DOMAIN out : KeepsTime(out[i], out[i].round)

\* How many rounds a run is behind those that heard the announcement
Lag(run) == cur_round - AnnouncedFor(run.message) - run.round

(* A run that starts from a report is late by the rounds the report took,  *)
(* and never late by overlay_dimension rounds or more: the deadline for    *)
(* reports keeps the chains of peers that pass a message on short          *)
(* (client_enclave.cpp:244-281).                                           *)
RunsLagLittle ==
  \A run \in Runs : ~is_dummy(run.message.t_dst) =>
    Lag(run) = 0 \/ Lag(run) \in 1 .. (Dimension - 1)

(* Nobody joins or leaves a run: its participants are the agreement peers  *)
(* of the round run.round rounds ago, as gamma_agree_for_round_ indexes    *)
(* them, whatever the overlay did since (client_enclave.cpp:224-227, 247,  *)
(* 262; client_enclave.h:171).                                             *)
ParticipantsOfItsRound ==
  \A run \in Runs :
    run.round < Len(gamma_agree) =>
      run.participating_nodes = gamma_agree[run.round + 1]

(* A message has one run however many peers announce or report it: a       *)
(* second one would inject it twice (client_enclave.cpp:252-264).  Dummies *)
(* have as many as are announced.                                          *)
OneRunPerMessage ==
  \A i, j \in DOMAIN agreement_tuples :
    /\ agreement_tuples[i].message = agreement_tuples[j].message
    /\ ~is_dummy(agreement_tuples[i].message.t_dst)
    => i = j

(* No agreement run outlives its deadline: one that is not erased in time  *)
(* would be updated for ever (client_enclave.cpp:266-321).                 *)
AgreementBounded == \A run \in Runs : run.round < calculate_agreement_time(Dimension)

(* The peers of every round a run can have started in are still known:     *)
(* gamma_agree_for_round_.at() never throws (client_enclave.cpp:224-262).  *)
AgreePeersKnown == crashed # "gamma_agree_for_round_.at"

-----------------------------------------------------------------------------
(* Routing *)

(* No packet ever carries a message on its way from quorum to quorum: a    *)
(* tuple that is handed to route() has no hop to take, and one of its      *)
(* asserts ends the round before the packets are sent                      *)
(* (client_enclave.cpp:336, 352-366, routing_scheme.cpp:22-25).            *)
NothingRouted ==
  \A i \in DOMAIN out : \A k \in DOMAIN out[i].routing :
    out[i].routing[k] = RoutingFiller(0)

-----------------------------------------------------------------------------
(* Receiving *)

\* The peers whose packets for a round have reached the enclave
Heard(round) == {sender \in Peers : Copies(<<sender, round>>) > 0}

\* What they held
Carried(round) == UNION {Payloads(sender, round) : sender \in Heard(round)}

\* Everything in a buffer comes from one of the packets.
ComesFrom(buffer, packets) ==
  /\ \A x \in buffer.structure : \E p \in packets : x \in p.structure
  /\ \A x \in ToSet(buffer.announce) : \E p \in packets : x \in ToSet(p.announce)
  /\ \A x \in ToSet(buffer.agreement) : \E p \in packets : x \in ToSet(p.agreement)
  /\ \A x \in ToSet(buffer.inject) : \E p \in packets : x \in ToSet(p.inject)
  /\ \A x \in ToSet(buffer.routing) : \E p \in packets : x = p.routing
  /\ \A x \in ToSet(buffer.predeliver) : \E p \in packets : x \in ToSet(p.predeliver)
  /\ \A x \in buffer.deliver : \E p \in packets : x \in ToSet(p.deliver)

(* in[0] holds what was sent for the round just entered and in[1] what was *)
(* sent for the next one: nothing is used in a round it was not meant for, *)
(* whatever order packets and rounds come in                               *)
(* (client_enclave.cpp:516-550, 454-470).                                  *)
BuffersInStep == \A k \in 0 .. 1 : ComesFrom(in[k], Carried(WAdd(cur_round, k)))

(* A message is handed to its pseudonym only after packets of its round    *)
(* from more than m_corrupt different peers, although the list of senders  *)
(* is emptied at each delivery (client_enclave.cpp:529-571).               *)
DeliveredFromQuorum ==
  \A n \in DOMAIN q_in : \A m \in BagToSet(q_in[n]) :
    \E round \in Stamps :
      /\ Cardinality(Heard(round)) > m_corrupt
      /\ \E p \in Carried(round) : m \in ToSet(p.deliver)

-----------------------------------------------------------------------------
(* What the repository says and the code does not do *)

(* "the if condition will never be fulfilled for this round again": no     *)
(* message is delivered twice (client_enclave.cpp:561-570).                *)
DeliveredOnce ==
  \A n \in DOMAIN q_in : \A m \in BagToSet(q_in[n]) : q_in[n][m] = 1
=============================================================================
