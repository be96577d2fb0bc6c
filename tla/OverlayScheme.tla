---------------------------- MODULE OverlayScheme ----------------------------
(***************************************************************************)
(* The overlay maintenance of a peer: OverlayStructureScheme.  Its members *)
(* are one record "st", update() is an operator on it.                     *)
(*                                                                         *)
(* A vector of peers and a vector of structure messages are sets here:     *)
(* every use of one is an insertion, a membership test or a send to each   *)
(* entry.  A map from quorum ids is a function on the ids that have been   *)
(* inserted, because the code distinguishes an absent id (.at() throws)    *)
(* from one without peers, and because operator[] inserts.                 *)
(***************************************************************************)
EXTENDS Timing, Bits, FiniteSets

CONSTANT Dimension     \* overlay_dimension_

ASSUME DimensionAssumption == Dimension \in Nat

NumQuorums == Pow2[Dimension]
Quorums == 0 .. (NumQuorums - 1)

reconfiguration_time == Dimension + 7
Phase(round) == round % (reconfiguration_time \div 2)

-----------------------------------------------------------------------------
(* Neighbours in the hypercube of quorums *)

\* Mutant: one bit too many is flipped.
NeighborsBeyond(onid) == {onid} \cup {FlipBit(onid, i) : i \in 0 .. Dimension}

\* for_all_neighbors: the quorum itself and those that differ in one bit
Neighbors(onid) == {onid} \cup {FlipBit(onid, i) : i \in 0 .. (Dimension - 1)}

\* Step (9): the neighbour of "from" one bit closer to "onid".
NextHop(from, onid) ==
  LET differing == {i \in 0 .. (Dimension - 1) : Bit(from, i) # Bit(onid, i)}
  IN  IF differing = {}
      THEN from
      ELSE LET low == CHOOSE i \in differing : \A j \in differing : i <= j
           IN  FlipBit(from, low)

-----------------------------------------------------------------------------
(* Maps from quorum ids to peers *)

NoRoute == [onid \in {} |-> {}]

At(map, onid) == IF onid \in DOMAIN map THEN map[onid] ELSE {}

\* map[onid].push_back for every one of "ids"; operator[] alone if ids = {}
AddAt(map, onid, ids) ==
  [o \in DOMAIN map \cup {onid} |-> IF o = onid THEN At(map, o) \cup ids ELSE map[o]]

\* The keys of "other" that have peers are inserted, with their peers.
Merge(map, other) ==
  [o \in DOMAIN map \cup {p \in DOMAIN other : other[p] # {}} |->
     At(map, o) \cup At(other, o)]

-----------------------------------------------------------------------------
(* Structure messages *)

EmulateRequestMsg(onid, i) ==
  [t |-> "tEmulateRequestMsg", onid |-> onid, peer |-> i,
   gamma_route |-> NoRoute, gamma_receive |-> {}]

EmulateRequestReceivedMsg(onid, i) ==
  [t |-> "tEmulateRequestReceivedMsg", onid |-> onid, peer |-> i,
   gamma_route |-> NoRoute, gamma_receive |-> {}]

\* "none" stands for the default PeerInformation
HandOverMessage(gamma_route, gamma_receive, none) ==
  [t |-> "tHandOverMsg", onid |-> 0, peer |-> none,
   gamma_route |-> gamma_route, gamma_receive |-> gamma_receive]

\* createSelfIntroduceMessage builds a message of type tHandOverMsg
SelfIntroduceMessage(i) ==
  [t |-> "tHandOverMsg", onid |-> 0, peer |-> i,
   gamma_route |-> NoRoute, gamma_receive |-> {}]

-----------------------------------------------------------------------------
(* init and update *)

\* onid_emul_new_ is never assigned before the first reconfiguration: the
\* value-initialised scheme of the enclave holds 0.
OverlayInit(onid_emul, gamma_send, gamma_receive, gamma_route, own_id) ==
  [onid_emul         |-> onid_emul,
   onid_emul_prev    |-> onid_emul,
   onid_emul_new     |-> 0,
   gamma_agree       |-> gamma_route[onid_emul],
   gamma_send        |-> gamma_send,
   gamma_receive     |-> gamma_receive,
   gamma_route       |-> gamma_route,
   gamma_agree_prev  |-> NoRoute,
   gamma_send_new    |-> {},
   gamma_receive_new |-> {},
   gamma_route_new   |-> NoRoute,
   gamma_route_succ  |-> NoRoute,
   gamma_route_prev  |-> NoRoute,
   own_id            |-> own_id]

\* Mutant: gamma_agree_ is not cleared before the new peers are added.
ReconfigureUncleared(st, random) ==
  LET old  == st.onid_emul
      new  == st.onid_emul_new
      succ == At(st.gamma_route_succ, old)
  IN  [st EXCEPT
        !.onid_emul_prev   = old,
        !.onid_emul        = new,
        !.gamma_agree      = @ \cup At(st.gamma_route_new, new),
        !.gamma_send       = st.gamma_send_new,
        !.gamma_route      = AddAt(st.gamma_route_new, new, {}),
        !.onid_emul_new    = random,
        !.gamma_send_new   = {},
        !.gamma_route_new  = NoRoute,
        !.gamma_agree_prev = IF succ = {} THEN @ ELSE AddAt(@, old, succ),
        !.gamma_route_prev = IF succ = {} THEN NoRoute ELSE AddAt(NoRoute, old, succ),
        !.gamma_route_succ = NoRoute]

\* Step (3): the new quorum takes over; "random" is the quorum drawn in (c).
Reconfigure(st, random) ==
  LET old  == st.onid_emul
      new  == st.onid_emul_new
      succ == At(st.gamma_route_succ, old)
  IN  [st EXCEPT
        !.onid_emul_prev   = old,
        !.onid_emul        = new,
        !.gamma_agree      = At(st.gamma_route_new, new),
        !.gamma_send       = st.gamma_send_new,
        !.gamma_route      = AddAt(st.gamma_route_new, new, {}),
        !.onid_emul_new    = random,
        !.gamma_send_new   = {},
        !.gamma_route_new  = NoRoute,
        !.gamma_agree_prev = IF succ = {} THEN @ ELSE AddAt(@, old, succ),
        !.gamma_route_prev = IF succ = {} THEN NoRoute ELSE AddAt(NoRoute, old, succ),
        !.gamma_route_succ = NoRoute]

\* Step (4): "gamma_receive_ == std::move(gamma_receive_new_)" compares and
\* does not assign, so only gamma_receive_new_ changes.
AfterReconfiguration(st) ==
  LET now == At(st.gamma_route, st.onid_emul)
  IN  [st EXCEPT
        !.gamma_receive_new = {},
        !.gamma_route       = AddAt(@, st.onid_emul, {}),
        !.gamma_route_prev  = IF now = {} THEN @ ELSE AddAt(@, st.onid_emul, now)]

\* Step (5)
ForgetPreviousAgreement(st) ==
  LET now == At(st.gamma_route, st.onid_emul)
  IN  [st EXCEPT
        !.gamma_route      = AddAt(@, st.onid_emul, {}),
        !.gamma_agree_prev = IF now = {} THEN NoRoute ELSE AddAt(NoRoute, st.onid_emul, now)]

OfType(set_s, t) == {s \in set_s : s.t = t}

\* Step (6), what the received messages do to the members
HandleMessages(st, set_s) ==
  LET received   == OfType(set_s, "tEmulateRequestReceivedMsg")
      handovers  == OfType(set_s, "tHandOverMsg")
      introduced == OfType(set_s, "tSelfIntroduceMsg")
  IN  [st EXCEPT
        !.gamma_route_succ  =
           [o \in DOMAIN @ \cup {s.onid : s \in received} |->
              At(@, o) \cup {s.peer : s \in {x \in received : x.onid = o}}],
        !.gamma_route_new   =
           [o \in DOMAIN @ \cup UNION {{p \in DOMAIN s.gamma_route : s.gamma_route[p] # {}}
                                         : s \in handovers} |->
              At(@, o) \cup UNION {At(s.gamma_route, o) : s \in handovers}],
        !.gamma_receive_new = @ \cup UNION {s.gamma_receive : s \in handovers},
        !.gamma_send_new    = @ \cup {s.peer : s \in introduced}]

\* Step (6)(a): the messages queued for a quorum, as <<quorum, message>> pairs
Requested(st, set_s) ==
  LET requests == OfType(set_s, "tEmulateRequestMsg")
  IN  {<<s.onid, s>> : s \in {x \in requests : x.onid # st.onid_emul}}
      \cup {<<o, EmulateRequestReceivedMsg(s.onid, s.peer)>> :
              o \in Neighbors(st.onid_emul), s \in requests}

\* Steps (7) and (8): messages sent to peers directly, as <<peer, message>> pairs
HandedOver(st, round, none) ==
  IF Phase(round) = Dimension + 2
  THEN {<<i, HandOverMessage(st.gamma_route_succ, st.gamma_receive, none)>> :
          i \in At(st.gamma_route_succ, st.onid_emul)}
  ELSE {}

Introduced(st, round) ==
  IF Phase(round) = Dimension + 3
  THEN {<<i, SelfIntroduceMessage(st.own_id)>> : i \in st.gamma_receive_new}
  ELSE {}

\* The members after steps (3) to (5), then after (6), then after (7)
Reconfigured(st, round, random) ==
  LET st3 == IF Phase(round) = 1 THEN Reconfigure(st, random) ELSE st
      st4 == IF Phase(round) = 2 THEN AfterReconfiguration(st3) ELSE st3
  IN  IF Phase(round) = calculate_agreement_time(Dimension) + 1
      THEN ForgetPreviousAgreement(st4) ELSE st4

Handled(st, round, set_s, random) == HandleMessages(Reconfigured(st, round, random), set_s)

Maintained(st, round, set_s, random) ==
  LET st6 == Handled(st, round, set_s, random)
  IN  IF Phase(round) = Dimension + 2
      THEN [st6 EXCEPT !.gamma_route_succ = AddAt(@, st6.onid_emul, {})] ELSE st6

\* msg_out_q, and what step (9) makes of it with the members "st"
Queued(st, round, set_s, random) ==
  Requested(st, set_s)
    \cup IF Phase(round) = 1 THEN {<<random, EmulateRequestMsg(random, st.own_id)>>} ELSE {}

Hops(st, queued) == {NextHop(st.onid_emul, q[1]) : q \in queued}

Relayed(st, queued) ==
  UNION {{<<i, q[2]>> : i \in At(st.gamma_route, NextHop(st.onid_emul, q[1]))} : q \in queued}

\* update(): the new members, the messages to send and the routing peers
OverlayUpdate(st, round, set_s, random, none) ==
  LET st6    == Handled(st, round, set_s, random)
      st7    == Maintained(st, round, set_s, random)
      queued == Queued(st7, round, set_s, random)
      st9    == [st7 EXCEPT !.gamma_route =
                   [o \in DOMAIN @ \cup Hops(st7, queued) |-> At(@, o)]]
  IN  [st          |-> st9,
       s_prime     |-> HandedOver(st6, round, none) \cup Introduced(st6, round)
                         \cup Relayed(st7, queued),
       gamma_route |-> Merge(Merge(st9.gamma_route, st9.gamma_agree_prev),
                             st9.gamma_route_prev)]
=============================================================================
