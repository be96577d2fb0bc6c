------------------------------- MODULE Overlay -------------------------------
(***************************************************************************)
(* The overlay of all peers together: each runs the overlay scheme once a  *)
(* round, on the tables the login server has given it and on the structure *)
(* messages of the others.                                                 *)
(*                                                                         *)
(* The rounds of the peers interleave in any way and any packet may be     *)
(* lost, so that nothing is assumed of clocks and delays; a packet that is *)
(* taken in is used two rounds after it was sent, which is what module     *)
(* Rounds shows of the buffers.  What a round does with messages of users  *)
(* is module ClientEnclave.                                                *)
(***************************************************************************)
EXTENDS OverlayScheme

CONSTANTS
  Peers,
  NoPeer,      \* the default PeerInformation
  LastRound    \* bound on the rounds

ASSUME OverlayAssumption == LastRound \in Nat

VARIABLES
  round,    \* the round each peer is in; -1 before the first
  st,       \* overlay_structure_scheme_ of each peer
  routes,   \* the routing peers its last update returned
  mail      \* structure messages in packets, with the round they are sent in

vars == <<round, st, routes, mail>>

\* A peer's own information while the server has not told it its id: id 0 and
\* the uri of the peer.
Unnumbered(p) == [id0 |-> p]
-----------------------------------------------------------------------------
(* The tables of the init messages, from the quorum each peer is associated*)
(* with and the one it emulates                                            *)

Emulating(emulated, q) == {p \in Peers : emulated[p] = q}

\* Mutant: every neighbour is given the peers of the own quorum.
InitialTablesOwn(p, associated, emulated) ==
  OverlayInit(emulated[p],
              Emulating(emulated, associated[p]),
              {q \in Peers : associated[q] = emulated[p]},
              [o \in Neighbors(emulated[p]) |-> Emulating(emulated, emulated[p])],
              Unnumbered(p))

InitialTables(p, associated, emulated) ==
  OverlayInit(emulated[p],
              Emulating(emulated, associated[p]),
              {q \in Peers : associated[q] = emulated[p]},
              [o \in Neighbors(emulated[p]) |-> Emulating(emulated, o)],
              Unnumbered(p))

\* No quorum is left without peers by either assignment.
Staffed(assignment) == \A o \in Quorums : \E p \in Peers : assignment[p] = o

Init ==
  /\ round = [p \in Peers |-> -1]
  /\ \E associated, emulated \in [Peers -> Quorums] :
       /\ Staffed(associated) /\ Staffed(emulated)
       /\ st = [p \in Peers |-> InitialTables(p, associated, emulated)]
  /\ routes = [p \in Peers |-> NoRoute]
  /\ mail = {}

\* What entering a round l may hand to update(): the messages sent in l - 2
Received(p) == {m.msg : m \in {x \in mail : x.to = p /\ x.round + 2 = round[p] + 1}}

\* p enters its next round with the messages that were not lost; "random" is
\* what step (3) of update() would draw.
Enter(p, random, received) ==
  LET ov == OverlayUpdate(st[p], round[p] + 1, received, random, NoPeer)
  IN  /\ round[p] < LastRound
      /\ round' = [round EXCEPT ![p] = @ + 1]
      /\ st' = [st EXCEPT ![p] = ov.st]
      /\ routes' = [routes EXCEPT ![p] = ov.gamma_route]
      /\ mail' = mail \cup {[to |-> s[1], msg |-> s[2], round |-> round[p] + 1] : s \in ov.s_prime}

Next ==
  \E p \in Peers, random \in Quorums :
    \E received \in SUBSET Received(p) : Enter(p, random, received)

Spec == Init /\ [][Next]_vars
-----------------------------------------------------------------------------
Listed(map) == UNION {map[o] : o \in DOMAIN map}

TypeOK ==
  /\ round \in [Peers -> -1 .. LastRound]
  /\ \A p \in Peers :
       /\ st[p].onid_emul \in Quorums /\ st[p].onid_emul_new \in Quorums
       /\ st[p].gamma_send \subseteq Peers
       /\ st[p].gamma_receive \subseteq Peers
       /\ Listed(st[p].gamma_route) \subseteq Peers
       /\ DOMAIN routes[p] \subseteq Quorums /\ Listed(routes[p]) \subseteq Peers

(* No peer is listed at two quorums of the table a round routes with: the  *)
(* assert of client_enclave.cpp:362 holds.                                 *)
NoRouteClash ==
  \A p \in Peers : \A o1, o2 \in DOMAIN routes[p] :
    o1 # o2 => routes[p][o1] \cap routes[p][o2] = {}

\* A peer knows nobody to announce to, to agree with, or to route over.
Alone(p) ==
  /\ st[p].gamma_send = {}
  /\ st[p].gamma_agree = {}
  /\ Listed(routes[p]) = {}

(* The reconfiguration of round 1 is the end of the overlay: nobody has    *)
(* handed over or introduced itself by then, so that every peer is alone   *)
(* from then on, and no structure message is ever sent                     *)
(* (overlay_structure_scheme.cpp:60-95, 157-171, 186-190).                 *)
Isolated ==
  /\ \A p \in Peers : round[p] >= 1 => Alone(p)
  /\ mail = {}

(* Peers of one quorum agree on a message among the same participants: in  *)
(* the same round, whoever emulates the same quorum has the same           *)
(* gamma_agree (overlay_structure_scheme.cpp:22, 68-71,                    *)
(* client_enclave.cpp:243-247).                                            *)
ParticipantsAgree ==
  \A p, q \in Peers :
    round[p] = round[q] /\ st[p].onid_emul = st[q].onid_emul
      => st[p].gamma_agree = st[q].gamma_agree
=============================================================================
