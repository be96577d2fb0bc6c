----------------------------- MODULE StartupProofs -----------------------------
(***************************************************************************)
(* What the login server tells the clients, for every number of clients,   *)
(* every dimension and every outcome of its random draw.                   *)
(*                                                                         *)
(* The argument: the tables of an init message are read off two maps, the  *)
(* quorum a client is associated with, which its place in clients_ fixes,  *)
(* and the quorum it emulates, which is drawn once, after the last client  *)
(* has been registered and before the first message is sent.  Both are     *)
(* functions, and to be neighbours is symmetric.                           *)
(***************************************************************************)
EXTENDS Startup, DataLemmas

-----------------------------------------------------------------------------
(* Quorums *)

\* To be neighbours is reflexive and symmetric, and stays among the quorums.
LEMMA QuorumFacts ==
  /\ NumQuorums \in Nat \ {0}
  /\ \A o \in Quorums : o \in Neighbors(o) /\ Neighbors(o) \subseteq Quorums
  /\ \A a, b \in Quorums : a \in Neighbors(b) => b \in Neighbors(a)
<1>1. NumQuorums \in Nat \ {0}
  BY Powers, DimensionAssumption DEF NumQuorums
<1>2. \A o \in Quorums : \A i \in 0 .. (Dimension - 1) :
        FlipBit(o, i) \in Quorums /\ FlipBit(FlipBit(o, i), i) = o
  BY Flipping, DimensionAssumption DEF Quorums, NumQuorums
<1>3. ASSUME NEW a \in Quorums, NEW b \in Quorums, a \in Neighbors(b)
      PROVE  b \in Neighbors(a)
  BY <1>2, <1>3 DEF Neighbors
<1> QED
  BY <1>1, <1>2, <1>3 DEF Neighbors

\* A client is associated with exactly one quorum.
LEMMA Association ==
  ASSUME clients_ \in Seq(Clients), NEW j \in 1 .. Len(clients_)
  PROVE  /\ AssocOf(j) \in Quorums
         /\ \A q \in Quorums : j \in Associated(q) <=> q = AssocOf(j)
<1> DEFINE k == kNumNodesPerQuorum
           last == NumQuorums - 1
<1>1. /\ k \in Nat \ {0} /\ last \in Nat /\ NumQuorums = last + 1 /\ j \in Nat \ {0}
      /\ Quorums = 0 .. last /\ Len(clients_) \in Nat
  BY QuorumFacts, StartupAssumption DEF Quorums
<1>2. \A q \in Quorums : j \in Associated(q) <=> q * k < j /\ (j <= (q + 1) * k \/ q = last)
  BY DEF Associated
<1> HIDE DEF k, last
<1>3. \E q \in Quorums : j \in Associated(q)
  <2> DEFINE d == (j - 1) \div k
  <2>1. d \in Nat /\ k * d <= j - 1 /\ j - 1 < k * d + k
    <3>1. \A a \in Nat, b \in Nat \ {0} :
            a \div b \in Nat /\ b * (a \div b) <= a /\ a < b * (a \div b) + b
      OBVIOUS
    <3>2. j - 1 \in Nat
      BY <1>1
    <3> QED
      BY <1>1, <3>1, <3>2, Zenon
  <2> HIDE DEF d
  <2>2. CASE d <= last
    <3>1. d * k < j /\ j <= (d + 1) * k
      BY <1>1, <2>1
    <3>2. d \in Quorums
      BY <1>1, <2>1, <2>2
    <3> QED
      BY <1>2, <3>1, <3>2, Zenon
  <2>3. CASE d > last
    <3>1. k * last <= k * d
      BY <1>1, <2>1, <2>3
    <3>2. last * k < j
      BY <1>1, <2>1, <3>1
    <3> QED
      BY <1>1, <1>2, <3>2
  <2> QED
    BY <1>1, <2>1, <2>2, <2>3
<1>4. ASSUME NEW q \in Quorums, NEW r \in Quorums, q < r,
             j \in Associated(q), j \in Associated(r)
      PROVE  FALSE
  <2>1. j <= (q + 1) * k /\ r * k < j
    BY <1>1, <1>2, <1>4
  <2>2. (q + 1) * k <= r * k
    BY <1>1, <1>4
  <2> QED
    BY <1>1, <2>1, <2>2
<1>5. \A q, r \in Quorums : j \in Associated(q) /\ j \in Associated(r) => q = r
  BY <1>1, <1>4
<1> QED
  BY <1>3, <1>5 DEF AssocOf

\* If the clients suffice for all quorums, every quorum is associated with one.
LEMMA AssociatedInhabited ==
  ASSUME clients_ \in Seq(Clients), Len(clients_) = kNumRequiredClients, NEW q \in Quorums
  PROVE  \E j \in 1 .. Len(clients_) : j \in Associated(q) /\ AssocOf(j) = q
<1> DEFINE k == kNumNodesPerQuorum
           first == q * k
<1>1. /\ k \in Nat \ {0} /\ NumQuorums \in Nat \ {0} /\ q \in Nat /\ q + 1 <= NumQuorums
      /\ NumQuorums * k <= Len(clients_) /\ Len(clients_) \in Nat
  BY QuorumFacts, StartupAssumption DEF Quorums
<1>2. /\ first \in Nat /\ (q + 1) * k = first + k
      /\ first + k <= NumQuorums * k /\ NumQuorums * k \in Nat
  <2>1. (q + 1) * k <= NumQuorums * k
    BY <1>1
  <2> QED
    BY <1>1, <2>1
<1>3. Associated(q) = {j \in 1 .. Len(clients_) :
                         first < j /\ (j <= (q + 1) * k \/ q = NumQuorums - 1)}
  BY DEF Associated
<1> HIDE DEF k, first
<1>4. first + 1 \in 1 .. Len(clients_) /\ first + 1 <= first + k
  BY <1>1, <1>2
<1>5. first + 1 \in Associated(q)
  BY <1>2, <1>3, <1>4
<1>6. AssocOf(first + 1) = q
  BY <1>4, <1>5, Association
<1> QED
  BY <1>4, <1>5, <1>6

-----------------------------------------------------------------------------
(* The invariant *)

Registered == {clients_[j] : j \in DOMAIN clients_}

\* What the state of the login server's loop says of its members
ServerInv ==
  /\ clients_ \in Seq(Clients) /\ IsInjective(clients_)
  /\ Len(clients_) <= kNumRequiredClients
  /\ server \in {"loop", "sends", "returned", "aborted"}
  /\ sent \in 0 .. kNumRequiredClients
  /\ server = "loop" => emulated = <<>> /\ sent = 0
  /\ server # "loop" => emulated \in [1 .. Len(clients_) -> Quorums]
  /\ server \in {"sends", "returned"} =>
       /\ Len(clients_) = kNumRequiredClients
       /\ \A q \in Quorums : \E j \in DOMAIN emulated : emulated[j] = q
  /\ server = "sends" => sent < kNumRequiredClients
  /\ server = "returned" => sent = kNumRequiredClients
  /\ server = "aborted" => sent = 0

\* Who has joined, and what is under way
ClientsInv ==
  /\ joins \subseteq started /\ Registered \subseteq started
  /\ joins \cap Registered = {}
  /\ DOMAIN info = Clients
  /\ \A c \in Clients : info[c] \subseteq Contents
  /\ \A packet \in network : packet.content \subseteq Contents

StartupInv == ServerInv /\ ClientsInv

\* What an init message says, given the two assignments
LEMMA Messages ==
  ASSUME ServerInv, NEW j \in 1 .. sent
  PROVE  /\ j \in 1 .. Len(clients_) /\ DOMAIN clients_ = 1 .. Len(clients_)
         /\ DOMAIN emulated = 1 .. Len(clients_)
         /\ server \in {"sends", "returned"}
         /\ emulated[j] \in Quorums /\ AssocOf(j) \in Quorums
         /\ \A q : Emulating(q) \subseteq Clients
         /\ \A q \in Quorums : Emulating(q) # {}
         /\ InitMessage(j) \in InitMessageType
<1>1. sent \in Nat /\ sent > 0 /\ server # "loop" /\ server # "aborted"
  BY StartupAssumption DEF ServerInv
<1>2. server \in {"sends", "returned"} /\ Len(clients_) = kNumRequiredClients
  BY <1>1 DEF ServerInv
<1>3. DOMAIN clients_ = 1 .. Len(clients_) /\ j \in 1 .. Len(clients_)
  BY <1>1, <1>2, StartupAssumption DEF ServerInv
<1>4. emulated \in [1 .. Len(clients_) -> Quorums]
  BY <1>1 DEF ServerInv
<1>5. emulated[j] \in Quorums /\ DOMAIN emulated = 1 .. Len(clients_)
  BY <1>3, <1>4
<1>6. AssocOf(j) \in Quorums
  BY <1>3, Association DEF ServerInv
<1>7. \A k \in 1 .. Len(clients_) : clients_[k] \in Clients
  BY DEF ServerInv
<1>8. \A q : Emulating(q) \subseteq Clients
  BY <1>5, <1>7 DEF Emulating, Uris
<1>9. \A q \in Quorums : Emulating(q) # {}
  <2> TAKE q \in Quorums
  <2>1. PICK k \in DOMAIN emulated : emulated[k] = q
    BY <1>2 DEF ServerInv
  <2> QED
    BY <2>1 DEF Emulating, Uris
<1>10. InitMessage(j) \in InitMessageType
  <2>1. Uris(Associated(emulated[j])) \subseteq Clients
    BY <1>7 DEF Uris, Associated
  <2>2. [q \in Neighbors(emulated[j]) |-> Emulating(q)]
          \in UNION {[S -> SUBSET Clients] : S \in SUBSET Quorums}
    <3>1. Neighbors(emulated[j]) \in SUBSET Quorums
      BY <1>5, QuorumFacts
    <3>2. [q \in Neighbors(emulated[j]) |-> Emulating(q)]
            \in [Neighbors(emulated[j]) -> SUBSET Clients]
      BY <1>8
    <3> QED
      BY <3>1, <3>2
  <2> HIDE DEF Neighbors
  <2> QED
    BY <1>5, <1>6, <1>8, <2>1, <2>2 DEF InitMessage, InitMessageType
<1> QED
  BY <1>2, <1>3, <1>5, <1>6, <1>8, <1>9, <1>10

\* Before anybody has joined the invariant holds.
LEMMA InitStartup == Init => StartupInv
<1> SUFFICES ASSUME Init PROVE StartupInv
  OBVIOUS
<1>1. ServerInv
  BY StartupAssumption DEF Init, ServerInv, IsInjective
<1>2. ClientsInv
  BY DEF Init, ClientsInv, Registered
<1> QED
  BY <1>1, <1>2 DEF StartupInv

\* The messages sent stay what they are while the two assignments do.
LEMMA ContentsKept ==
  ASSUME UNCHANGED <<clients_, emulated, sent>>
  PROVE  Contents' = Contents
<1>1. \A q : Emulating(q)' = Emulating(q)
  BY DEF Emulating, Uris
<1>2. \A q : Associated(q)' = Associated(q)
  BY DEF Associated
<1>3. \A j : AssocOf(j)' = AssocOf(j)
  BY <1>2 DEF AssocOf
<1>4. \A j : InitMessage(j)' = InitMessage(j)
  BY <1>1, <1>2, <1>3 DEF InitMessage, Uris
<1> QED
  BY <1>4 DEF Contents

\* A registration, the last one with its draw included, keeps it.
LEMMA RegisterKeepsStartup ==
  ASSUME StartupInv, NEW c \in Clients, received_msg_from_client(c)
  PROVE  StartupInv'
<1> USE DEF StartupInv, ServerInv, ClientsInv, received_msg_from_client
<1>1. /\ clients_' = Append(clients_, c) /\ c \in joins /\ joins' = joins \ {c}
      /\ Len(clients_) < kNumRequiredClients /\ server = "loop" /\ sent = 0 /\ emulated = <<>>
      /\ UNCHANGED <<sent, network, started, info>>
  BY DEF clientVars
<1>2. c \notin Registered /\ clients_ \in Seq(Clients)
  OBVIOUS
<1>3. /\ clients_' \in Seq(Clients) /\ Len(clients_') = Len(clients_) + 1
      /\ Len(clients_') <= kNumRequiredClients
  BY <1>1, <1>2, StartupAssumption
<1>4. /\ \A j \in 1 .. Len(clients_) : clients_'[j] = clients_[j]
      /\ clients_'[Len(clients_) + 1] = c
      /\ DOMAIN clients_ = 1 .. Len(clients_) /\ DOMAIN clients_' = 1 .. (Len(clients_) + 1)
      /\ Len(clients_) \in Nat
  BY <1>1, <1>2
<1>5. Registered' = Registered \cup {c}
  BY <1>4 DEF Registered
<1>6. IsInjective(clients_')
  <2> SUFFICES ASSUME NEW a \in DOMAIN clients_', NEW b \in DOMAIN clients_',
                      clients_'[a] = clients_'[b]
               PROVE  a = b
    BY DEF IsInjective
  <2>1. \A j \in 1 .. Len(clients_) : clients_[j] # c
    BY <1>2, <1>4 DEF Registered
  <2>2. \A i, j \in 1 .. Len(clients_) : clients_[i] = clients_[j] => i = j
    BY <1>4 DEF IsInjective
  <2> QED
    BY <1>4, <2>1, <2>2
<1>7. \/ /\ Len(clients_') >= kNumRequiredClients
         /\ emulated' \in [1 .. Len(clients_') -> Quorums]
         /\ \/ /\ server' = "sends"
               /\ \A q \in Quorums : \E j \in DOMAIN emulated' : emulated'[j] = q
            \/ server' = "aborted"
      \/ UNCHANGED <<emulated, server>>
  <2>1. CASE Len(clients_') >= kNumRequiredClients
    <3>1. initialize_system(clients_')
      BY <2>1
    <3> QED
      BY <2>1, <3>1 DEF initialize_system
  <2>2. CASE ~ (Len(clients_') >= kNumRequiredClients)
    BY <2>2
  <2> QED
    BY <2>1, <2>2
<1>8. ServerInv'
  <2>1. CASE UNCHANGED <<emulated, server>>
    BY <1>1, <1>3, <1>6, <2>1
  <2>2. CASE /\ Len(clients_') >= kNumRequiredClients
             /\ emulated' \in [1 .. Len(clients_') -> Quorums]
             /\ \/ /\ server' = "sends"
                   /\ \A q \in Quorums : \E j \in DOMAIN emulated' : emulated'[j] = q
                \/ server' = "aborted"
    <3>1. Len(clients_') = kNumRequiredClients
      BY <1>3, <2>2, StartupAssumption
    <3> QED
      BY <1>1, <1>3, <1>6, <2>2, <3>1, StartupAssumption
  <2> QED
    BY <1>7, <2>1, <2>2
<1>9. ClientsInv'
  <2>1. Contents = {} /\ Contents' = {}
    BY <1>1 DEF Contents
  <2> QED
    BY <1>1, <1>5, <2>1
<1> QED
  BY <1>8, <1>9

\* So does sending one of the init messages.
LEMMA SendKeepsStartup ==
  ASSUME StartupInv, try_and_send_msg
  PROVE  StartupInv'
<1> USE DEF StartupInv
<1>1. /\ server = "sends" /\ sent' = sent + 1
      /\ server' = IF sent' = kNumRequiredClients THEN "returned" ELSE "sends"
      /\ UNCHANGED <<clients_, emulated, joins, started, info>>
      /\ network' = network \cup
           {[from |-> LoginServer, to |-> clients_[sent + 1], content |-> {InitMessage(sent + 1)}]}
  BY DEF try_and_send_msg, clientVars
<1>2. sent \in Nat /\ sent < kNumRequiredClients
  BY <1>1, StartupAssumption DEF ServerInv
<1>3. ServerInv'
  BY <1>1, <1>2, StartupAssumption DEF ServerInv
<1>4. \A j : InitMessage(j)' = InitMessage(j)
  BY <1>1 DEF InitMessage, Emulating, Associated, AssocOf, Uris
<1>5. Contents' = Contents \cup {InitMessage(sent + 1)}
  <2>1. 1 .. (sent + 1) = (1 .. sent) \cup {sent + 1}
    BY <1>2
  <2> QED
    BY <1>1, <1>4, <2>1 DEF Contents
<1>6. ClientsInv'
  BY <1>1, <1>5 DEF ClientsInv, Registered
<1> QED
  BY <1>3, <1>6

\* Clients change nothing the server has decided.
LEMMA StepStartup == StartupInv /\ [Next]_vars => StartupInv'
<1> SUFFICES ASSUME StartupInv, [Next]_vars PROVE StartupInv'
  OBVIOUS
<1> USE DEF StartupInv
<1>1. CASE UNCHANGED vars
  <2>1. Contents' = Contents
    BY <1>1, ContentsKept DEF vars, serverVars
  <2> QED
    BY <1>1, <2>1 DEF vars, serverVars, clientVars, ServerInv, ClientsInv, Registered
<1>2. ASSUME NEW c \in Clients, network_init(c) PROVE StartupInv'
  <2>1. Contents' = Contents
    BY <1>2, ContentsKept DEF network_init, serverVars
  <2>2. ServerInv'
    BY <1>2 DEF network_init, serverVars, ServerInv
  <2>3. ClientsInv'
    BY <1>2, <2>1 DEF network_init, serverVars, ClientsInv, Registered
  <2> QED
    BY <2>2, <2>3
<1>3. ASSUME NEW packet \in network, MainLoop(packet) PROVE StartupInv'
  <2>1. Contents' = Contents
    BY <1>3, ContentsKept DEF MainLoop, serverVars
  <2>2. ServerInv'
    BY <1>3 DEF MainLoop, serverVars, ServerInv
  <2>3. /\ DOMAIN info' = Clients /\ \A c \in Clients : info'[c] \subseteq Contents
    BY <1>3 DEF MainLoop, ClientsInv
  <2>4. ClientsInv'
    BY <1>3, <2>1, <2>3 DEF MainLoop, serverVars, ClientsInv, Registered
  <2> QED
    BY <2>2, <2>4
<1>4. ASSUME NEW c \in Clients, traffic_out(c) PROVE StartupInv'
  <2>1. Contents' = Contents
    BY <1>4, ContentsKept DEF traffic_out, serverVars
  <2>2. ServerInv'
    BY <1>4 DEF traffic_out, serverVars, ServerInv
  <2>3. \A packet \in network' : packet.content \subseteq Contents
    BY <1>4 DEF traffic_out, ClientsInv
  <2>4. ClientsInv'
    BY <1>4, <2>1, <2>3 DEF traffic_out, serverVars, ClientsInv, Registered
  <2> QED
    BY <2>2, <2>4
<1> QED
  BY <1>1, <1>2, <1>3, <1>4, RegisterKeepsStartup, SendKeepsStartup DEF Next

\* The maps of the server determine every init message.
LEMMA StartupInvariant == Spec => []StartupInv
<1> QED
  BY InitStartup, StepStartup, PTL DEF Spec
-----------------------------------------------------------------------------
(* State and messages have their types: every init message the server      *)
(* sends is one that received_msg_from_server expects                      *)
(* (server_enclave.cpp:97-121, client_enclave.cpp:36-80).                  *)
THEOREM StartupTypes == Spec => []TypeOK
<1>1. StartupInv => TypeOK
  <2> SUFFICES ASSUME StartupInv PROVE TypeOK
    OBVIOUS
  <2>1. \A msg \in Contents : msg \in InitMessageType /\ msg.onid_emul \in DOMAIN msg.gamma_route
    <3> SUFFICES ASSUME NEW j \in 1 .. sent
                 PROVE  /\ InitMessage(j) \in InitMessageType
                        /\ InitMessage(j).onid_emul \in DOMAIN InitMessage(j).gamma_route
      BY DEF Contents
    <3>1. InitMessage(j) \in InitMessageType /\ emulated[j] \in Neighbors(emulated[j])
      BY Messages, QuorumFacts DEF StartupInv
    <3> QED
      BY <3>1 DEF InitMessage
  <2> QED
    BY <2>1 DEF StartupInv, ServerInv, ClientsInv, TypeOK
<1> QED
  BY <1>1, StartupInvariant, PTL

(* Whoever a client announces, delivers or routes to expects it: the views *)
(* of any two clients agree, whatever the draw (server_enclave.cpp:97-110, *)
(* shared_functions.h:15).                                                 *)
THEOREM ViewsOfClientsAgree == Spec => []ViewsAgree
<1>1. StartupInv => ViewsAgree
  <2> SUFFICES ASSUME StartupInv,
                      NEW i \in {k \in 1 .. Len(clients_) : k <= sent},
                      NEW j \in {k \in 1 .. Len(clients_) : k <= sent}
               PROVE  LET a == InitMessage(i)
                          b == InitMessage(j)
                          RoutesTo(x, y) ==
                            \E q \in DOMAIN x.gamma_route : clients_[y] \in x.gamma_route[q]
                      IN  /\ clients_[j] \in a.gamma_send <=> clients_[i] \in b.gamma_receive
                          /\ RoutesTo(a, j) <=> RoutesTo(b, i)
    BY DEF ViewsAgree
  <2> USE DEF StartupInv
  <2>1. i \in 1 .. sent /\ j \in 1 .. sent
    BY DEF ServerInv
  <2>2. /\ DOMAIN clients_ = 1 .. Len(clients_) /\ DOMAIN emulated = 1 .. Len(clients_)
        /\ emulated[i] \in Quorums /\ emulated[j] \in Quorums
    BY <2>1, Messages
  <2>3. \A k, l \in 1 .. Len(clients_) : clients_[k] = clients_[l] => k = l
    BY <2>2 DEF ServerInv, IsInjective
  <2>4. \A k \in 1 .. Len(clients_) : \A q : clients_[k] \in Emulating(q) <=> emulated[k] = q
    BY <2>2, <2>3 DEF Emulating, Uris
  <2>5. \A q : clients_[i] \in Uris(Associated(q)) <=> i \in Associated(q)
    BY <2>2, <2>3 DEF Uris, Associated
  <2>6. i \in Associated(emulated[j]) <=> emulated[j] = AssocOf(i)
    BY <2>2, Association DEF ServerInv
  <2>7. clients_[j] \in InitMessage(i).gamma_send <=> clients_[i] \in InitMessage(j).gamma_receive
    BY <2>4, <2>5, <2>6 DEF InitMessage
  <2>8. ASSUME NEW x \in 1 .. sent, NEW y \in 1 .. Len(clients_)
        PROVE  (\E q \in DOMAIN InitMessage(x).gamma_route :
                  clients_[y] \in InitMessage(x).gamma_route[q])
                 <=> emulated[y] \in Neighbors(emulated[x])
    BY <2>4 DEF InitMessage
  <2>9. emulated[j] \in Neighbors(emulated[i]) <=> emulated[i] \in Neighbors(emulated[j])
    BY <2>2, QuorumFacts
  <2> QED
    BY <2>1, <2>7, <2>8, <2>9
<1> QED
  BY <1>1, StartupInvariant, PTL

(* Whatever the number of clients and the draw: the tables of every init   *)
(* message that is sent have peers to announce to, to deliver to and to    *)
(* route over, and after the last one every quorum is emulated by a client *)
(* and associated with one (server_enclave.cpp:67-109).                     *)
THEOREM QuorumsAreStaffed == Spec => []EveryQuorumStaffed
<1>1. StartupInv => EveryQuorumStaffed
  <2> SUFFICES ASSUME StartupInv PROVE EveryQuorumStaffed
    OBVIOUS
  <2> USE DEF StartupInv
  <2>1. ASSUME NEW j \in 1 .. sent
        PROVE  /\ InitMessage(j).gamma_send # {} /\ InitMessage(j).gamma_receive # {}
               /\ \A q \in DOMAIN InitMessage(j).gamma_route :
                    InitMessage(j).gamma_route[q] # {}
    <3>1. /\ AssocOf(j) \in Quorums /\ emulated[j] \in Quorums
          /\ \A q \in Quorums : Emulating(q) # {}
          /\ server \in {"sends", "returned"}
      BY Messages
    <3>2. Neighbors(emulated[j]) \subseteq Quorums
      BY <3>1, QuorumFacts
    <3>3. Uris(Associated(emulated[j])) # {}
      <4>1. clients_ \in Seq(Clients) /\ Len(clients_) = kNumRequiredClients
        BY <3>1 DEF ServerInv
      <4>2. \E i \in 1 .. Len(clients_) : i \in Associated(emulated[j])
        BY <3>1, <4>1, AssociatedInhabited
      <4> QED
        BY <4>2 DEF Uris
    <3> QED
      BY <3>1, <3>2, <3>3 DEF InitMessage
  <2>2. ASSUME server = "returned", NEW q \in Quorums
        PROVE  /\ \E msg \in Contents : msg.onid_emul = q
               /\ \E msg \in Contents : msg.onid_assoc = q
    <3>1. /\ clients_ \in Seq(Clients) /\ Len(clients_) = kNumRequiredClients
          /\ sent = Len(clients_)
          /\ emulated \in [1 .. Len(clients_) -> Quorums]
          /\ \E j \in DOMAIN emulated : emulated[j] = q
      BY <2>2 DEF ServerInv
    <3>2. PICK i \in 1 .. sent : emulated[i] = q
      BY <3>1
    <3>3. PICK j \in 1 .. sent : AssocOf(j) = q
      BY <3>1, AssociatedInhabited
    <3>4. InitMessage(i).onid_emul = q /\ InitMessage(j).onid_assoc = q
      BY <3>2, <3>3 DEF InitMessage
    <3>5. InitMessage(i) \in Contents /\ InitMessage(j) \in Contents
      BY DEF Contents
    <3> QED
      BY <3>4, <3>5
  <2> QED
    BY <2>1, <2>2 DEF EveryQuorumStaffed, Contents
<1> QED
  BY <1>1, StartupInvariant, PTL
=============================================================================
