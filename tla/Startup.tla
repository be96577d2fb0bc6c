------------------------------- MODULE Startup -------------------------------
(***************************************************************************)
(* From the first join message to the first packets: the login server (its *)
(* host loop and ServerEnclave) and the clients up to the first round each *)
(* carries out.  What a client's enclave does with the init message and in *)
(* a round is in module ClientEnclave; here a round only sends its packets.*)
(*                                                                         *)
(* The server and every client are processes of their own.  ZeroMQ loses   *)
(* nothing between live processes, and packets of different senders arrive *)
(* in any order; nobody sends another process more than one packet here.   *)
(***************************************************************************)
EXTENDS OverlayScheme, Sequences, SequencesExt

CONSTANTS
  Clients,              \* client processes, named by the uri of their socket
  kNumRequiredClients,
  kNumNodesPerQuorum

ASSUME StartupAssumption ==
  /\ kNumRequiredClients \in Nat \ {0}
  /\ kNumNodesPerQuorum \in Nat \ {0}
  /\ NumQuorums * kNumNodesPerQuorum <= kNumRequiredClients  \* .at(j) finds a client

VARIABLES
  clients_,     \* the registered clients: entry i has id i - 1
  emulated,     \* quorum each of them emulates, once the random numbers are drawn
  sent,         \* how many init messages have been sent
  server,       \* "loop", "sends" in initialize_system, "returned" or "aborted"
  joins,        \* join messages under way
  network,      \* packets under way to clients, with the init message in them, if any
  started,      \* clients that have been started
  nm_initialized, \* network_manager::initialized of each client
  info,         \* the init message the enclave of a client has processed, if any
  rounds        \* clients that have carried out their first round

serverVars == <<clients_, emulated, sent, server>>
clientVars == <<started, nm_initialized, info, rounds>>
vars == <<serverVars, joins, network, clientVars>>

LoginServer == "login server"
-----------------------------------------------------------------------------
Init ==
  /\ clients_ = <<>>
  /\ emulated = <<>>
  /\ sent = 0
  /\ server = "loop"
  /\ joins = {}
  /\ network = {}
  /\ started = {}
  /\ nm_initialized = [c \in Clients |-> FALSE]
  /\ info = [c \in Clients |-> {}]
  /\ rounds = {}

\* A client is started, and its enclave sends the join message.
network_init(c) ==
  /\ c \notin started
  /\ started' = started \cup {c}
  /\ joins' = joins \cup {c}
  /\ UNCHANGED <<serverVars, network, nm_initialized, info, rounds>>

-----------------------------------------------------------------------------
(* The login server                                                        *)

\* Quorum q has the q-th kNumNodesPerQuorum clients, the last one also the rest.
Associated(q) ==
  {j \in 1 .. Len(clients_) :
     /\ q * kNumNodesPerQuorum < j
     /\ j <= (q + 1) * kNumNodesPerQuorum \/ q = NumQuorums - 1}

AssocOf(j) == CHOOSE q \in Quorums : j \in Associated(q)

Uris(js) == {clients_[j] : j \in js}
Emulating(q) == Uris({j \in DOMAIN emulated : emulated[j] = q})

\* Mutant: gamma_receive has the associates of the client's own quorum.
InitMessageOwn(j) ==
  [onid_assoc    |-> AssocOf(j),
   onid_emul     |-> emulated[j],
   gamma_send    |-> Emulating(AssocOf(j)),
   gamma_receive |-> Uris(Associated(AssocOf(j))),
   gamma_route   |-> [q \in Neighbors(emulated[j]) |-> Emulating(q)]]

\* The init message for the client registered as the j-th
InitMessage(j) ==
  [onid_assoc    |-> AssocOf(j),
   onid_emul     |-> emulated[j],
   gamma_send    |-> Emulating(AssocOf(j)),
   gamma_receive |-> Uris(Associated(emulated[j])),
   gamma_route   |-> [q \in Neighbors(emulated[j]) |-> Emulating(q)]]

\* Mutant: the assert is left out.
initialize_system_unchecked(registered) ==
  \E draw \in [1 .. Len(registered) -> Quorums] : emulated' = draw /\ server' = "sends"

\* The random assignment, with the assert that no quorum is left without a peer
initialize_system(registered) ==
  \E draw \in [1 .. Len(registered) -> Quorums] :
    /\ emulated' = draw
    /\ server' = IF \A q \in Quorums : \E j \in DOMAIN draw : draw[j] = q
                 THEN "sends" ELSE "aborted"

\* Mutant: one client more is waited for.
received_msg_from_client_late(c) ==
  /\ server = "loop"
  /\ c \in joins
  /\ joins' = joins \ {c}
  /\ Len(clients_) < kNumRequiredClients
  /\ clients_' = Append(clients_, c)
  /\ IF Len(clients_') > kNumRequiredClients
     THEN initialize_system(clients_')
     ELSE UNCHANGED <<emulated, server>>
  /\ UNCHANGED <<sent, network, clientVars>>

\* A join message is registered; the client that makes the number full sets
\* off the initialisation, after which the host loop takes no more messages.
received_msg_from_client(c) ==
  /\ server = "loop"
  /\ c \in joins
  /\ joins' = joins \ {c}
  /\ Len(clients_) < kNumRequiredClients
  /\ clients_' = Append(clients_, c)
  /\ IF Len(clients_') >= kNumRequiredClients
     THEN initialize_system(clients_')
     ELSE UNCHANGED <<emulated, server>>
  /\ UNCHANGED <<sent, network, clientVars>>

\* One turn of the loop that sends the init messages.  After the last one the
\* enclave is initialized, main_loop returns 0 and the server ends.
try_and_send_msg ==
  /\ server = "sends"
  /\ network' = network \cup
       {[from |-> LoginServer, to |-> clients_[sent + 1], content |-> {InitMessage(sent + 1)}]}
  /\ sent' = sent + 1
  /\ server' = IF sent' = kNumRequiredClients THEN "returned" ELSE "sends"
  /\ UNCHANGED <<clients_, emulated, joins, clientVars>>

-----------------------------------------------------------------------------
(* The clients                                                             *)

\* MainLoop takes a packet from the socket.  The first one goes to
\* received_msg_from_server and every other to traffic_in, which does nothing
\* with an init message or before the initialisation.
MainLoop(packet) ==
  /\ packet \in network
  /\ network' = network \ {packet}
  /\ nm_initialized' = [nm_initialized EXCEPT ![packet.to] = TRUE]
  /\ info' = IF nm_initialized[packet.to] THEN info
             ELSE [info EXCEPT ![packet.to] = packet.content]
  /\ UNCHANGED <<serverVars, joins, started, rounds>>

Receivers(msg) ==
  msg.gamma_send \cup msg.gamma_receive
    \cup UNION {msg.gamma_route[q] : q \in DOMAIN msg.gamma_route}

\* The first round, which starts with the initialisation: announcements,
\* routing and delivery vectors of dummies at least.
traffic_out(c) ==
  /\ nm_initialized[c]
  /\ c \notin rounds
  /\ rounds' = rounds \cup {c}
  /\ \E msg \in info[c] :
       network' = network \cup {[from |-> c, to |-> d, content |-> {}] : d \in Receivers(msg)}
  /\ UNCHANGED <<serverVars, joins, started, nm_initialized, info>>

Next ==
  \/ \E c \in Clients : network_init(c)
  \/ \E c \in Clients : received_msg_from_client(c)
  \/ try_and_send_msg
  \/ \E packet \in network : MainLoop(packet)
  \/ \E c \in Clients : traffic_out(c)

\* Both host loops poll their sockets for ever, and nothing keeps the sending
\* loop from its next turn.  Nobody has to start a client.
Fairness ==
  /\ WF_vars(\E c \in Clients : received_msg_from_client(c))
  /\ WF_vars(try_and_send_msg)
  /\ WF_vars(\E packet \in network : MainLoop(packet))

Spec == Init /\ [][Next]_vars /\ Fairness
-----------------------------------------------------------------------------
InitMessageType ==
  [onid_assoc : Quorums, onid_emul : Quorums, gamma_send : SUBSET Clients,
   gamma_receive : SUBSET Clients, gamma_route : UNION {[S -> SUBSET Clients] : S \in SUBSET Quorums}]

\* Contents of the init messages that have been sent
Contents == {InitMessage(j) : j \in 1 .. sent}

(* State and messages have their types: an init message is one that        *)
(* received_msg_from_server of a client expects (server_enclave.cpp:97-121,*)
(* client_enclave.cpp:36-80).                                              *)
TypeOK ==
  /\ clients_ \in Seq(Clients) /\ IsInjective(clients_)
  /\ Len(clients_) <= kNumRequiredClients
  /\ server \in {"loop", "sends", "returned", "aborted"}
  /\ emulated = <<>> \/ emulated \in [1 .. Len(clients_) -> Quorums]
  /\ sent \in 0 .. kNumRequiredClients
  /\ \A c \in Clients : info[c] \subseteq Contents
  /\ \A msg \in Contents : msg \in InitMessageType /\ msg.onid_emul \in DOMAIN msg.gamma_route

(* The views of two peers agree: i announces to exactly the peers that     *)
(* expect announcements and deliveries for i, and routes to exactly the    *)
(* peers that route to it (server_enclave.cpp:97-110).                     *)
ViewsAgree ==
  \A i, j \in {k \in 1 .. Len(clients_) : k <= sent} :
    LET a == InitMessage(i)
        b == InitMessage(j)
        RoutesTo(x, y) == \E q \in DOMAIN x.gamma_route : clients_[y] \in x.gamma_route[q]
    IN  /\ clients_[j] \in a.gamma_send <=> clients_[i] \in b.gamma_receive
        /\ RoutesTo(a, j) <=> RoutesTo(b, i)

(* No client is left alone: whoever is told its tables has somebody to     *)
(* announce to, to deliver to and to route over at every neighbour.  Once  *)
(* the last init message is sent, every quorum has a client that emulates  *)
(* it and one that is associated with it (server_enclave.cpp:67-109).       *)
EveryQuorumStaffed ==
  /\ \A msg \in Contents :
       /\ msg.gamma_send # {} /\ msg.gamma_receive # {}
       /\ \A q \in DOMAIN msg.gamma_route : msg.gamma_route[q] # {}
  /\ server = "returned" =>
       \A q \in Quorums : /\ \E msg \in Contents : msg.onid_emul = q
                         /\ \E msg \in Contents : msg.onid_assoc = q

(* Once enough clients have been started, the init messages of all of them *)
(* are sent and arrive, or the server has aborted (server_enclave.cpp:21-34,*)
(* 113-124).                                                               *)
Answered ==
  Cardinality(started) >= kNumRequiredClients ~>
    \/ server = "aborted"
    \/ /\ server = "returned"
       /\ Len(clients_) = kNumRequiredClients
       /\ \A packet \in network : packet.from # LoginServer

(* "if (!initialized) { // message was sent from server": the first packet *)
(* of a client is the server's, so that its enclave is initialised once    *)
(* isInitialized() says so (network_manager.cpp:76, network_manager.h:81).  *)
FirstPacketFromServer == \A c \in Clients : nm_initialized[c] => info[c] # {}
=============================================================================
