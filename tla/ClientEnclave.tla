---------------------------- MODULE ClientEnclave ----------------------------
(***************************************************************************)
(* One peer's enclave: every entry point of ClientEnclave is an action and *)
(* the sub-schemes are the operators of the modules this one extends.  The *)
(* network manager's "initialized" flag is here too, because it decides    *)
(* which entry point a packet from the socket reaches.                     *)
(*                                                                         *)
(* An assert that fails and an exception nobody catches end the enclave:   *)
(* "crashed" then names the place and no entry point runs again.           *)
(***************************************************************************)
EXTENDS RoutingScheme, AgreementScheme, Bags

CONSTANTS
  kAMax, kSend,        \* pseudonyms per peer, messages per pseudonym and round
  kPseudonymSize,      \* bytes of a pseudonym handed to the user
  m_corrupt,           \* what received_msg_from_server computes from the number
  max_routing_msg_out, \*   of peers
  Peers, Self,         \* the peers, and the one modelled
  Self0,               \* Self before the server has given it an id: id 0, own uri
  NoPeer,              \* the default PeerInformation
  NoPseudonym,         \* the pseudonym of all zeros
  InitMessages,        \* what the login server may send to Self
  Foreign,             \* pseudonyms of other peers, as their blobs
  Destinations,        \* pseudonyms users send to
  Msgs, NoMsg,         \* message contents, and the content of a dummy
  SendTimes,           \* t_dst values users pass to send_message
  Payloads(_, _),      \* decoded payloads of packets: sender, round
  MaxCopies,           \* how often the network delivers a packet, at most
  MaxTime              \* bound on the clock

\* A pseudonym as its owner's user got it
BlobType == [key : {"sk_pseud"}, onid : Nat, peer : Peers, num : Nat]

ASSUME EnvironmentAssumption ==
  /\ Foreign \subseteq BlobType
  /\ Destinations \subseteq BlobType
  /\ InitMessages \subseteq
       [onid_assoc : Quorums, onid_emul : Quorums, gamma_send : SUBSET Peers,
        gamma_receive : SUBSET Peers,
        gamma_route : UNION {[S -> SUBSET Peers] : S \in SUBSET Quorums}]
  /\ \A msg \in InitMessages : msg.onid_emul \in DOMAIN msg.gamma_route

ASSUME QuotaAssumption ==
  /\ kAMax \in Nat \ {0} /\ kSend \in Nat \ {0}
  /\ m_corrupt \in Nat /\ max_routing_msg_out \in Nat

ASSUME ClockAssumption ==
  /\ MaxTime \in Nat
  /\ SendTimes \subseteq Words
  /\ MaxTime + Lead(Dimension) + RoundLength < Word

\* The rounds packets are stamped with within the bound on the clock
Stamps == 0 .. (MaxTime \div RoundLength + 2)

\* The pseudonym fields of a message, and what a packet's vectors hold
PseudonymType ==
  [key : {"sk_pseud", "zeros"}, onid : Nat, peer : Peers \cup {Self0}, num : Nat]
    \cup {NoPseudonym}

MessageType ==
  [n_src : PseudonymType, m : Msgs \cup {NoMsg}, n_dst : PseudonymType, t_dst : Words]

AgreementType == [m : MessageType, s : Peers, l : Words]

RoutingType ==
  [m : MessageType, onid_dst : Nat, bucket_dst : PseudonymType, l_dst : Words,
   onid_current : Nat]

ASSUME PayloadAssumption ==
  /\ IsFiniteSet(Peers)
  /\ \A sender \in Peers, round \in Stamps : \A p \in Payloads(sender, round) :
       /\ {p.announce, p.inject, p.predeliver, p.deliver} \subseteq Seq(MessageType)
       /\ p.agreement \in Seq(AgreementType)
       /\ p.routing \in Seq(RoutingType)
       /\ \A i \in DOMAIN p.routing : Rank(p.routing[i].bucket_dst) \in Nat
       /\ \A i \in DOMAIN p.inject : Rank(p.inject[i].n_dst) \in Nat

VARIABLES
  crashed,             \* "no", or the place where the enclave ended
  nm_initialized,      \* network_manager::initialized
  initialized,         \* ClientEnclave::initialized_
  now,                 \* seconds since init_time_, what get_time() returns
  cur_round,
  onid_repr, own_id,
  pseudonyms,          \* decrypted pseudonyms of this peer, local_num + 1 is the index
  issued,              \* blobs generate_pseudonym has handed to the user
  num_entries,         \* num_q_out_entries_for_round_for_pseudonym_
  q_out,               \* messages waiting to be announced
  q_in,                \* q_in_for_pseudonyms_: one bag for each pseudonym
  overlay,             \* overlay_structure_scheme_
  gamma_agree,         \* gamma_agree_for_round_, newest first
  agreement_tuples,
  in,                  \* in[0] and in[1]: all the in_* arrays and received_from
  out,                 \* what the last traffic_out handed to the host
  copies               \* how often each packet, a <<sender, round>>, was delivered

queueVars == <<pseudonyms, issued, num_entries, q_out>>
setupVars == <<nm_initialized, initialized, onid_repr, own_id>>
roundVars == <<overlay, gamma_agree, agreement_tuples, out>>
vars == <<crashed, setupVars, now, cur_round, queueVars, q_in, roundVars, in, copies>>

\* everything but crashed
memory == <<setupVars, now, cur_round, queueVars, q_in, roundVars, in>>

Crash(place) == crashed' = place /\ UNCHANGED memory

Running == crashed = "no"
-----------------------------------------------------------------------------
(* Pseudonyms: a blob is the encryption of its owner's data under a key    *)

\* encrypt() of the 29 bytes of a DecryptedPseudonym: two lengths, IV, MAC
CipherSize == 4 + 4 + 12 + 16 + 29

Blob(key, pseudonym) ==
  [key |-> key, onid |-> pseudonym.onid, peer |-> pseudonym.peer, num |-> pseudonym.num]

\* decrypt() returns, instead of failing its size or its status assert
Decrypts(blob) ==
  blob # NoPseudonym /\ blob.key = "sk_pseud" /\ kPseudonymSize = CipherSize

decrypt_pseudonym(blob) == [onid |-> blob.onid, peer |-> blob.peer, num |-> blob.num]

Owned(blob) == \E i \in DOMAIN pseudonyms : pseudonyms[i] = decrypt_pseudonym(blob)

Blobs == issued \cup Foreign \cup {NoPseudonym}
-----------------------------------------------------------------------------
(* Messages, and the buffers of incoming packets *)

\* create_dummy() is Filler(0) and create_cancel() is Filler(1).
Filler(t) == [n_src |-> NoPseudonym, m |-> NoMsg, n_dst |-> NoPseudonym, t_dst |-> t]

RoutingFiller(t) ==
  [m |-> Filler(t), onid_dst |-> 0, bucket_dst |-> NoPseudonym, l_dst |-> 0,
   onid_current |-> 0]

\* in_deliver is a std::set ordered by t_dst alone: of messages with the
\* same t_dst only the first one inserted stays.
InsertDeliveries(set, vec) ==
  set \cup {vec[i] : i \in {j \in DOMAIN vec :
                               /\ \A x \in set : x.t_dst # vec[j].t_dst
                               /\ \A k \in 1 .. (j - 1) : vec[k].t_dst # vec[j].t_dst}}

NoPackets(senders) ==
  [structure |-> {}, announce |-> <<>>, agreement |-> <<>>, inject |-> <<>>,
   routing |-> <<>>, predeliver |-> <<>>, deliver |-> {}, received_from |-> senders]

\* obtain_elements_that_exceed_m_corrupt: a std::map counts the elements with
\* the same key, and keeps the first of each.
Exceeding(vec, keys) ==
  LET number(i) == Cardinality({j \in DOMAIN vec : keys[i] = keys[j]})
      first(i)  == \A j \in 1 .. (i - 1) : keys[i] # keys[j]
  IN  Selected(vec, {i \in DOMAIN vec : first(i) /\ number(i) > m_corrupt})

WithoutDummies(msgs) ==
  LET real(m) == ~is_dummy(m.t_dst)
  IN  Filtered(msgs, real)

\* What operator< compares of messages and of vectors of routing tuples
TimesOf(msgs) == [i \in DOMAIN msgs |-> msgs[i].t_dst]
SortKeysOf(vectors) ==
  [i \in DOMAIN vectors |-> [k \in DOMAIN vectors[i] |-> SortKey(vectors[i][k])]]
-----------------------------------------------------------------------------
Init ==
  /\ crashed = "no"
  /\ nm_initialized = FALSE
  /\ initialized = FALSE
  /\ now = 0
  /\ cur_round = Word - 1
  /\ onid_repr = 0
  /\ own_id = Self0
  /\ pseudonyms = <<>>
  /\ issued = {}
  /\ num_entries = <<>>
  /\ q_out = {}
  /\ q_in = <<>>
  /\ overlay = OverlayInit(0, {}, {}, [o \in {0} |-> {}], NoPeer)
  /\ gamma_agree = <<>>
  /\ agreement_tuples = <<>>
  /\ in = [k \in 0 .. 1 |-> NoPackets({})]
  /\ out = [i \in {} |-> {}]
  /\ copies = [c \in {} |-> 0]

\* The clock of the platform.  It counts from the initialisation; what it
\* shows after the end of the enclave no longer matters.
Tick ==
  /\ Running
  /\ initialized
  /\ now < MaxTime
  /\ now' = now + 1
  /\ UNCHANGED <<crashed, setupVars, cur_round, queueVars, q_in, roundVars, in>>

\* MainLoop hands the first packet on the socket to this entry point,
\* whoever sent it.  The overlay scheme gets own_id_ before own_id_.id is set.
received_msg_from_server(msg) ==
  /\ Running
  /\ ~nm_initialized
  /\ nm_initialized' = TRUE
  /\ initialized' = TRUE
  /\ onid_repr' = msg.onid_assoc
  /\ own_id' = Self
  /\ overlay' = OverlayInit(msg.onid_emul, msg.gamma_send, msg.gamma_receive,
                            msg.gamma_route, own_id)
  /\ UNCHANGED <<crashed, now, cur_round, queueVars, q_in, gamma_agree,
                 agreement_tuples, out, in>>

\* A peer's packet that arrives first is taken for the server's and has
\* another type: the enclave ignores it.
first_packet_from_peer ==
  /\ Running
  /\ ~nm_initialized
  /\ nm_initialized' = TRUE
  /\ UNCHANGED <<crashed, initialized, onid_repr, own_id, now, cur_round, queueVars,
                 q_in, roundVars, in>>

\* Mutant: num_q_out_entries_for_round_for_pseudonym_ is not resized.
generate_pseudonym_without_counters ==
  /\ Running
  /\ Len(pseudonyms) < kAMax
  /\ LET pseud == [onid |-> onid_repr, peer |-> own_id, num |-> Len(pseudonyms)]
         key   == IF initialized THEN "sk_pseud" ELSE "zeros"
     IN  /\ issued' = issued \cup {Blob(key, pseud)}
         /\ pseudonyms' = Append(pseudonyms, pseud)
  /\ q_in' = Append(q_in, EmptyBag)
  /\ UNCHANGED <<crashed, setupVars, now, cur_round, num_entries, q_out, roundVars, in>>

\* Before the initialisation the key is all zeros and the id is 0.
generate_pseudonym ==
  /\ Running
  /\ Len(pseudonyms) < kAMax
  /\ LET pseud == [onid |-> onid_repr, peer |-> own_id, num |-> Len(pseudonyms)]
         key   == IF initialized THEN "sk_pseud" ELSE "zeros"
     IN  /\ issued' = issued \cup {Blob(key, pseud)}
         /\ pseudonyms' = Append(pseudonyms, pseud)
  /\ num_entries' = Append(num_entries, [l \in {} |-> 0])
  /\ q_in' = Append(q_in, EmptyBag)
  /\ UNCHANGED <<crashed, setupVars, now, cur_round, q_out, roundVars, in>>

\* Mutant: every message is taken for the first one of its round.
EntriesUncounted(n, key) == 0

\* How many messages of the pseudonym with index n were accepted for a key
Entries(n, key) == IF key \in DOMAIN num_entries[n] THEN num_entries[n][key] ELSE 0

TooLate(t_dst) == now > WSub(t_dst, Lead(Dimension))

\* An entry of q_out carries its position "nth" among the messages its
\* pseudonym has for the same key, so that equal messages stay apart.
send_message(n_src, msg, n_dst, t_dst) ==
  /\ Running
  /\ initialized
  /\ \/ /\ ~Decrypts(n_src)
        /\ Crash("send_message")
     \/ /\ Decrypts(n_src)
        /\ Owned(n_src)
        /\ ~TooLate(t_dst)
        /\ LET key == IntKey(calculate_round_from_t(t_dst))
               n   == n_src.num + 1
               nth == Entries(n, key) + 1
           IN  /\ nth <= kSend
               /\ q_out' = q_out \cup {[n_src |-> n_src, m |-> msg, n_dst |-> n_dst,
                                        t_dst |-> t_dst, nth |-> nth]}
               /\ num_entries' = [num_entries EXCEPT
                    ![n] = [l \in DOMAIN @ \cup {key} |-> IF l = key THEN nth ELSE @[l]]]
        /\ UNCHANGED <<crashed, setupVars, now, cur_round, pseudonyms, issued, q_in,
                       roundVars, in>>

\* top() of an empty queue is undefined: the first entry of an unallocated
\* or drained vector is read.  So is the copy of a due message's n_dst, which
\* takes kMessageSize bytes from and to arrays of kPseudonymSize, although it
\* may do no harm.  "undefined" stands for whatever else follows.
receive_message(n_dst) ==
  /\ Running
  /\ initialized
  /\ \/ /\ ~Decrypts(n_dst)
        /\ Crash("receive_message")
     \/ /\ Decrypts(n_dst)
        /\ Owned(n_dst)
        /\ LET waiting == BagToSet(q_in[n_dst.num + 1])
           IN  waiting = {} \/ \E x \in waiting : x.t_dst <= now
        /\ Crash("undefined")
     \/ /\ Decrypts(n_dst)
        /\ Owned(n_dst)
        /\ \E top \in BagToSet(q_in[n_dst.num + 1]) :
             /\ \A x \in BagToSet(q_in[n_dst.num + 1]) : top.t_dst <= x.t_dst
             /\ top.t_dst <= now
             /\ q_in' = [q_in EXCEPT ![n_dst.num + 1] = @ (-) SetToBag({top})]
        /\ UNCHANGED <<crashed, setupVars, now, cur_round, queueVars, roundVars, in>>
-----------------------------------------------------------------------------
(* traffic_in.  Its input p is what the deserialisation of a packet has    *)
(* returned; the deserialisation itself is in module Wire.                 *)

\* Buffer k with the vectors of a packet added.  Empty routing vectors are
\* dropped again.
Buffered(k, sender, p) ==
  [structure     |-> in[k].structure \cup p.structure,
   announce      |-> in[k].announce \o p.announce,
   agreement     |-> in[k].agreement \o p.agreement,
   inject        |-> in[k].inject \o p.inject,
   routing       |-> IF p.routing = <<>> THEN in[k].routing
                     ELSE Append(in[k].routing, p.routing),
   predeliver    |-> in[k].predeliver \o p.predeliver,
   deliver       |-> InsertDeliveries(in[k].deliver, p.deliver),
   received_from |-> in[k].received_from \cup {sender}]

\* Mutant: m_corrupt senders are enough.
DeliverableEarly(buffer) ==
  IF Cardinality(buffer.received_from) >= m_corrupt
  THEN {m \in buffer.deliver : ~is_dummy(m.t_dst)} ELSE {}

Deliverable(buffer) ==
  IF Cardinality(buffer.received_from) > m_corrupt
  THEN {m \in buffer.deliver : ~is_dummy(m.t_dst)} ELSE {}

\* decrypt_pseudonym fails, or q_in_for_pseudonyms_.at() throws
Undeliverable(m) == ~Decrypts(m.n_dst) \/ m.n_dst.num + 1 \notin DOMAIN q_in

ClearDelivered(buffer) ==
  IF Cardinality(buffer.received_from) > m_corrupt
  THEN [buffer EXCEPT !.deliver = {}, !.received_from = {}] ELSE buffer

\* A packet for this peer; one for another peer is dropped.
traffic_in(sender, round, p) ==
  /\ Running
  /\ nm_initialized
  /\ initialized
  /\ round >= cur_round
  /\ LET cur_or_next == round - cur_round
     IN  \/ /\ cur_or_next >= 2
            /\ Crash("cur_or_next < 2")
         \/ /\ cur_or_next < 2
            /\ sender \notin in[cur_or_next].received_from
            /\ LET buffer == Buffered(cur_or_next, sender, p)
                   msgs   == Deliverable(buffer)
               IN  IF \E m \in msgs : Undeliverable(m)
                   THEN Crash("traffic_in")
                   ELSE /\ in' = [in EXCEPT ![cur_or_next] = ClearDelivered(buffer)]
                        /\ q_in' = [n \in DOMAIN q_in |->
                             q_in[n] (+) SetToBag({m \in msgs : m.n_dst.num + 1 = n})]
                        /\ UNCHANGED <<crashed, setupVars, now, cur_round, queueVars,
                                       roundVars>>
-----------------------------------------------------------------------------
(* traffic_out, stage by stage.  "l" is the new round and "ov" the result  *)
(* of the overlay maintenance.                                             *)

\* Mutant: everything that is due in this round or later is announced.
PoppedEarly(l) == {q \in q_out : q.t_dst >= DueFrom(l, Dimension)}

\* Messages popped from q_out_.  An entry whose round is over stays at the
\* head of the queue, is not due, and so ends the loop.
Popped(l) ==
  IF \E q \in q_out : q.t_dst < DueFrom(l, Dimension) THEN {}
  ELSE {q \in q_out : is_due(q.t_dst, l, Dimension)}

AsMessage(q) == [n_src |-> q.n_src, m |-> q.m, n_dst |-> q.n_dst, t_dst |-> q.t_dst]

\* Mutant: two rounds too few are remembered.
PushAgreeShort(ov) ==
  SubSeq(<<ov.st.gamma_agree>> \o gamma_agree, 1,
         IF Len(gamma_agree) + 1 > Dimension THEN Dimension ELSE Len(gamma_agree) + 1)

\* gamma_agree_for_round_ after push_front and pop_back
PushAgree(ov) ==
  SubSeq(<<ov.st.gamma_agree>> \o gamma_agree, 1,
         IF Len(gamma_agree) + 1 > calculate_agreement_time(Dimension)
         THEN Len(gamma_agree) ELSE Len(gamma_agree) + 1)

AgreementRun(m, aware, nodes, round) ==
  [message |-> m, aware |-> aware, aware_nodes |-> {}, participating_nodes |-> nodes,
   round |-> round]

\* Mutants: a run starts one round ahead, or with the peers of this round.
StartedAhead(agree) ==
  [i \in DOMAIN in[0].announce |-> AgreementRun(in[0].announce[i], TRUE, agree[2], 1)]

StartedNow(agree) ==
  [i \in DOMAIN in[0].announce |-> AgreementRun(in[0].announce[i], TRUE, agree[1], 0)]

\* Runs started by announcements, announced dummies included
Started(agree) ==
  [i \in DOMAIN in[0].announce |-> AgreementRun(in[0].announce[i], TRUE, agree[2], 0)]

\* Mutant: each report about an unknown message starts a run.
UnknownAll(runs) ==
  LET msgs == in[0].agreement
  IN  {j \in DOMAIN msgs :
         /\ msgs[j].l < calculate_agreement_time(Dimension) - 1
         /\ \A i \in DOMAIN runs : runs[i].message # msgs[j].m}

\* Indices of the agreement messages that start a run of their own: early
\* enough, and the first one about a message that has no run.
Unknown(runs) ==
  LET msgs == in[0].agreement
      early(j) == msgs[j].l < calculate_agreement_time(Dimension) - 1
  IN  {j \in DOMAIN msgs :
         /\ early(j)
         /\ \A i \in DOMAIN runs : runs[i].message # msgs[j].m
         /\ \A i \in 1 .. (j - 1) : early(i) => msgs[i].m # msgs[j].m}

Joined(runs, agree) ==
  LET news == Selected(in[0].agreement, Unknown(runs))
      run(a) == AgreementRun(a.m, FALSE, agree[a.l + 1], WSub(a.l, 1))
  IN  [k \in DOMAIN news |-> run(news[k])]

\* All runs before their update, and the peers aware of a run's message
AllRuns(agree) ==
  LET runs == agreement_tuples \o Started(agree)
  IN  runs \o Joined(runs, agree)

Reporters(run) == {a.s : a \in {x \in ToSet(in[0].agreement) : x.m = run.message}}

UpdatedRun(run) ==
  [run EXCEPT !.aware_nodes = Updated(@, run.aware, own_id, Reporters(run)),
              !.round = WAdd(@, 1),
              !.aware = FALSE]

IsFinal(run) == run.round = calculate_agreement_time(Dimension) - 1

FinalizedRun(run) ==
  IF IsFinal(run)
  THEN [run EXCEPT !.aware_nodes = Finalized(@, own_id, Reporters(run))] ELSE run

Advanced(runs) == [i \in DOMAIN runs |-> FinalizedRun(UpdatedRun(runs[i]))]

\* Mutant: nothing is erased.
RunsKept(agree) == Advanced(AllRuns(agree))

\* Updated and finalized runs; those that were final a round ago are erased.
RunsAfter(agree) ==
  LET goesOn(run) == run.round # calculate_agreement_time(Dimension)
  IN  Filtered(Advanced(AllRuns(agree)), goesOn)

\* The agreement messages for peer i
AgreementFor(i, agree) ==
  LET runs == AllRuns(agree)
      news(run) == Notifications(run.aware_nodes, run.aware, run.participating_nodes, own_id)
      sent(run) == SetToSeq({[m |-> run.message, s |-> n[2], l |-> WAdd(run.round, 2)] :
                               n \in {x \in news(run) : x[1] = i}})
  IN  FlattenSeq([k \in DOMAIN runs |-> sent(runs[k])])

MessagesOf(runs) == [i \in DOMAIN runs |-> runs[i].message]

\* Messages whose agreement ends now.  finalize() gets threshold 0.
Agreed(agree) ==
  LET accepted(run) ==
        LET updated == UpdatedRun(run)
        IN  /\ IsFinal(updated)
            /\ Accepts(updated.aware_nodes, own_id, Reporters(run), 0)
  IN  MessagesOf(Filtered(AllRuns(agree), accepted))

InjectFor(i, ov, agree) ==
  LET routedVia(m) == i \in ov.gamma_route[decrypt_pseudonym(m.n_src).onid]
  IN  Filtered(Agreed(agree), routedVia)

\* Messages enough peers have injected, as tuples at their source's quorum
ToInject == WithoutDummies(Exceeding(in[0].inject, TimesOf(in[0].inject)))

AsTuple(msg, l) ==
  [m            |-> msg,
   onid_dst     |-> decrypt_pseudonym(msg.n_dst).onid,
   bucket_dst   |-> msg.n_dst,
   l_dst        |-> l + calculate_routing_time(Dimension),
   onid_current |-> decrypt_pseudonym(msg.n_src).onid]

Injected(l) == [i \in DOMAIN ToInject |-> AsTuple(ToInject[i], l)]

\* v_set: the routing tuples enough peers have sent in the same vector
VSet == FlattenSeq(Exceeding(in[0].routing, SortKeysOf(in[0].routing)))

RoutingInput(l) ==
  LET overdue(s) == s.l_dst < l
  IN  Injected(l) \o Filtered(VSet, overdue)

RoutingFor(i, ov, l) ==
  LET at == {o \in DOMAIN ov.gamma_route : i \in ov.gamma_route[o]}
      goesThere(s) == s.onid_current \in at
  IN  Filtered(route(RoutingInput(l), l), goesThere)

PredeliverFor(i, ov, l) ==
  IF i \notin At(ov.gamma_route, ov.st.onid_emul) THEN <<>>
  ELSE LET arrived(s) == s.l_dst = l
           tuples     == Filtered(VSet, arrived)
       IN  [k \in DOMAIN tuples |-> tuples[k].m]

ToDeliver == WithoutDummies(Exceeding(in[0].predeliver, TimesOf(in[0].predeliver)))

DeliverFor(i) ==
  LET owned(m) == decrypt_pseudonym(m.n_dst).peer = i
  IN  Filtered(ToDeliver, owned)

\* Copies of "dummy" up to the fixed size of a vector
Pad(vec, dummy, size) == vec \o [k \in 1 .. (size - Len(vec)) |-> dummy]

PredeliverSize(ov) == kRecv * kAMax * Cardinality(ov.st.gamma_receive)
DeliverSize == kRecv * kAMax

RoutePeers(ov) == UNION {ov.gamma_route[o] : o \in DOMAIN ov.gamma_route}

\* The vectors for peer i, dummies included, before they are encrypted
PacketFor(i, ov, agree, l) ==
  [round      |-> l + 1,
   structure  |-> {s[2] : s \in {x \in ov.s_prime : x[1] = i}},
   announce   |-> IF i \in ov.st.gamma_send
                  THEN LET due == SetToSeq(Popped(l))
                       IN  Pad([k \in DOMAIN due |-> AsMessage(due[k])], Filler(0), kSend * kAMax)
                  ELSE <<>>,
   agreement  |-> AgreementFor(i, agree),
   inject     |-> InjectFor(i, ov, agree),
   routing    |-> IF i \in RoutePeers(ov)
                  THEN Pad(RoutingFor(i, ov, l), RoutingFiller(0), max_routing_msg_out) ELSE <<>>,
   predeliver |-> IF i \in At(ov.gamma_route, ov.st.onid_emul)
                  THEN Pad(PredeliverFor(i, ov, l), Filler(0), PredeliverSize(ov)) ELSE <<>>,
   deliver    |-> IF i \in ov.st.gamma_receive
                  THEN Pad(DeliverFor(i), Filler(0), DeliverSize) ELSE DeliverFor(i)]

Receivers(ov, agree) ==
  ov.st.gamma_send \cup ov.st.gamma_receive \cup RoutePeers(ov)
    \cup {i \in Peers : AgreementFor(i, agree) # <<>> \/ DeliverFor(i) # <<>>}
    \cup {s[1] : s \in ov.s_prime}

\* A peer is listed at two quorums of gamma_route: its slot is assigned twice.
RouteClash(ov) ==
  \E o1, o2 \in DOMAIN ov.gamma_route :
    o1 # o2 /\ ov.gamma_route[o1] \cap ov.gamma_route[o2] # {}

AnnounceOverflow(ov, l) ==
  ov.st.gamma_send # {} /\ Cardinality(Popped(l)) > kSend * kAMax

\* gamma_agree_for_round_.at(1) or .at(agreement.l) throws
AgreeIndexFault(agree) ==
  \/ in[0].announce # <<>> /\ Len(agree) < 2
  \/ \E j \in Unknown(agreement_tuples \o Started(agree)) :
       in[0].agreement[j].l + 1 > Len(agree)

\* The first place at which traffic_out ends the enclave once the round has
\* been entered, in the order the code reaches them, or "no"
FirstFault(ov, agree, l) ==
  IF AgreeIndexFault(agree)
  THEN "gamma_agree_for_round_.at"
  ELSE IF \E i \in DOMAIN Agreed(agree) : ~Decrypts(Agreed(agree)[i].n_src)
  THEN "agreed.n_src"
  ELSE IF \E i \in DOMAIN Agreed(agree) :
            decrypt_pseudonym(Agreed(agree)[i].n_src).onid \notin DOMAIN ov.gamma_route
  THEN "gamma_route.at"
  ELSE IF \E i \in DOMAIN ToInject :
            ~Decrypts(ToInject[i].n_dst) \/ ~Decrypts(ToInject[i].n_src)
  THEN "inject_message.n_dst"
  ELSE IF RouteAborts(RoutingInput(l), l)
  THEN "route"
  ELSE IF RouteClash(ov)
  THEN "out_routing.count(i) == 0"
  ELSE IF \E i \in DOMAIN ToDeliver : ~Decrypts(ToDeliver[i].n_dst)
  THEN "predelivered.n_dst"
  ELSE IF AnnounceOverflow(ov, l)
  THEN "out_announce[i].size()"
  ELSE IF \E i \in RoutePeers(ov) : Len(RoutingFor(i, ov, l)) > max_routing_msg_out
  THEN "out_routing[i].size()"
  ELSE IF \E i \in At(ov.gamma_route, ov.st.onid_emul) :
            Len(PredeliverFor(i, ov, l)) > PredeliverSize(ov)
  THEN "out_predeliver[i].size()"
  ELSE IF \E i \in ov.st.gamma_receive : Len(DeliverFor(i)) > DeliverSize
  THEN "out_deliver[i].size()"
  ELSE "no"

\* Mutant: in[1] is copied and not emptied.
ShiftBuffersKeeping == in' = [k \in 0 .. 1 |-> in[1]]

\* in[1] becomes in[0]
ShiftBuffers == in' = [k \in 0 .. 1 |-> IF k = 0 THEN in[1] ELSE NoPackets({})]

\* The round is entered and carried out, with "random" drawn by the overlay.
RunRound(l, random) ==
  LET ov    == OverlayUpdate(overlay, l, in[0].structure, random, NoPeer)
      agree == PushAgree(ov)
      fault == FirstFault(ov, agree, l)
  IN  \/ /\ fault # "no"
         /\ Crash(fault)
      \/ /\ fault = "no"
         /\ cur_round' = l
         /\ overlay' = ov.st
         /\ gamma_agree' = agree
         /\ q_out' = q_out \ Popped(l)
         /\ agreement_tuples' = RunsAfter(agree)
         /\ out' = [i \in Receivers(ov, agree) |-> PacketFor(i, ov, agree, l)]
         /\ ShiftBuffers
         /\ UNCHANGED <<crashed, setupVars, now, pseudonyms, issued, num_entries, q_in>>

\* Superfluous calls, outside the first quarter of a round or after the
\* first one in it, change nothing and are not a step.
traffic_out ==
  /\ Running
  /\ nm_initialized
  /\ initialized
  /\ calculate_subround_from_t(now) % 4 = 0
  /\ LET l == calculate_subround_from_t(now) \div 4
     IN  /\ l # cur_round
         /\ \/ /\ cur_round # WSub(l, 1)
               /\ Crash("cur_round_ == (subround / 4) - 1")
            \/ /\ cur_round = WSub(l, 1)
               /\ \E random \in Quorums : RunRound(l, random)
-----------------------------------------------------------------------------
\* The environment: the clock, the login server, the user, the host's main
\* loop and the other peers.
ServerPacket ==
  /\ \E msg \in InitMessages : received_msg_from_server(msg)
  /\ UNCHANGED copies

SendMessage ==
  /\ \E n_src \in Blobs, msg \in Msgs, n_dst \in Destinations, t_dst \in SendTimes :
       send_message(n_src, msg, n_dst, t_dst)
  /\ UNCHANGED copies

\* The host loop polls with an array it never writes: any bytes may be in it.
ReceiveMessage ==
  /\ \E n_dst \in Blobs : receive_message(n_dst)
  /\ UNCHANGED copies

\* The packets of other peers, each a sender and the round it is stamped with
Packets ==
  {packet \in Peers \X Stamps : Payloads(packet[1], packet[2]) # {}}

Copies(packet) == IF packet \in DOMAIN copies THEN copies[packet] ELSE 0

TrafficIn ==
  \E packet \in Packets :
    /\ Copies(packet) < MaxCopies
    /\ \E p \in Payloads(packet[1], packet[2]) : traffic_in(packet[1], packet[2], p)
    /\ copies' = [c \in DOMAIN copies \cup {packet} |->
                    IF c = packet THEN Copies(c) + 1 ELSE copies[c]]

Next ==
  \/ Tick /\ UNCHANGED copies
  \/ ServerPacket
  \/ first_packet_from_peer /\ UNCHANGED copies
  \/ generate_pseudonym /\ UNCHANGED copies
  \/ SendMessage
  \/ ReceiveMessage
  \/ TrafficIn
  \/ traffic_out /\ UNCHANGED copies

Spec == Init /\ [][Next]_vars
=============================================================================
