----------------------------- MODULE RoundsProofs -----------------------------
(***************************************************************************)
(* Theorems about the rounds of several peers, for any number of peers and *)
(* any delays of packets: the asserts and buffers of the enclaves, as far  *)
(* as the host loops keep up with the quarters of a round (LoopKeepsUp).   *)
(***************************************************************************)
EXTENDS RoundsProps, TLAPS

-----------------------------------------------------------------------------
(* The inductive invariant                                                 *)

\* What the clock of a peer shows, before its initialisation as well
Clock(p) == time - init_time[p]

\* When round l begins by the clock of a peer
Begin(l) == RoundLength * l

Types ==
  /\ time \in 0 .. MaxTime
  /\ crashed \in [Peers -> {"no", "cur_or_next < 2", "cur_round_ == (subround / 4) - 1"}]
  /\ nm_initialized \in [Peers -> BOOLEAN]
  /\ initialized \in [Peers -> BOOLEAN]
  /\ init_time \in [Peers -> Nat]
  /\ cur_round \in [Peers -> Words]
  /\ in \in [Peers -> [0 .. 1 -> SUBSET [from : Peers, to : Peers, round : Nat, at : Nat]]]
  /\ used \in [Peers -> SUBSET [from : Peers, to : Peers, round : Nat, at : Nat]]
  /\ waiting \in [Peers -> BOOLEAN]
  /\ checked \in [Peers -> Nat]
  /\ start \in [Peers -> Nat]
  /\ network \subseteq
       [from : Peers \cup {LoginServer}, to : Peers, round : Nat, at : Nat]

\* A peer whose init message is under way is not initialized, and stays so if
\* the packet of a peer overtakes the message.
Setup ==
  /\ \A p \in Peers :
       IF initialized[p]
       THEN /\ nm_initialized[p]
            /\ init_time[p] \in 1 .. (1 + MaxSkew)
            /\ init_time[p] <= time
       ELSE cur_round[p] = Word - 1
  /\ \A p \in Peers : ~nm_initialized[p] => start[p] = 0
  /\ \A m \in network :
       m.from = LoginServer =>
         m.at = 0 /\ m.round = 0 /\ time <= 1 + MaxSkew /\ ~initialized[m.to]

\* The loop of a peer: since its initialisation, no comparison but the last
\* can be due.  A peer ends only at the assert about its packets.
Loops ==
  \A p \in Peers :
    /\ Running(p) \/ (initialized[p] /\ crashed[p] = "cur_or_next < 2")
    /\ start[p] <= checked[p] /\ checked[p] <= time
    /\ Running(p) /\ initialized[p] =>
         \/ 2 * (checked[p] - start[p]) < kDelta
         \/ ~waiting[p] /\ start[p] = 0 /\ init_time[p] = time

\* The clock of a peer is in the peer's round, or in the first quarter of the
\* next one if there has been no call in it.
Clocks ==
  \A p \in Peers : initialized[p] =>
    /\ Begin(Round(p)) <= Clock(p)
    /\ Running(p) =>
         /\ Clock(p) < Begin(Round(p) + 1) + kDelta
         /\ Clock(p) >= Begin(Round(p) + 1) => start[p] < init_time[p] + Begin(Round(p) + 1)

\* A packet is sent in the first quarter of its sender's round.
SentInTime(m) ==
  LET sent == init_time[m.from] + Begin(m.round - 1)
  IN  /\ initialized[m.from]
      /\ m.to \in Receivers[m.from]
      /\ m.round >= 1
      /\ m.round - 1 <= Round(m.from)
      /\ sent <= m.at /\ m.at < sent + kDelta

Packets ==
  \A m \in network : m.from # LoginServer => SentInTime(m) /\ m.at <= time

\* in[0] is for the round the peer is in, in[1] for the next one.
Buffered(p, k, m) ==
  /\ m.to = p /\ p \in Receivers[m.from]
  /\ m.round = Round(p) + k
  /\ m.round >= 1 /\ m.round - 1 <= Round(m.from)

Buffers == \A p \in Peers : \A k \in 0 .. 1 : \A m \in in[p][k] : Buffered(p, k, m)

RoundsInv ==
  /\ Types
  /\ Setup
  /\ Loops
  /\ Clocks
  /\ Packets
  /\ Buffers

-----------------------------------------------------------------------------
(* Arithmetic of rounds                                                    *)

\* The constants are numbers, and a round has four quarters.
LEMMA Lengths ==
  /\ kDelta \in Nat \ {0} /\ RoundLength = 4 * kDelta /\ RoundLength \in Nat \ {0}
  /\ Word \in Nat /\ MaxTime \in Nat /\ MaxTime + 2 < Word
  /\ MaxTurn \in Nat /\ MinDelay \in Nat /\ MaxDelay \in Nat /\ MaxSkew \in Nat
  BY TimingAssumption, RoundsAssumption DEF RoundLength

\* Rounds follow each other without a gap.
LEMMA BeginNext ==
  ASSUME NEW a \in Int
  PROVE  /\ Begin(a) \in Int
         /\ Begin(a + 1) = Begin(a) + RoundLength
         /\ Begin(a + 2) = Begin(a) + 2 * RoundLength
         /\ a >= 0 => Begin(a) >= a
  BY Lengths DEF Begin

\* What begins earlier is an earlier round.
LEMMA BeginOrder ==
  ASSUME NEW a \in Int, NEW b \in Int
  PROVE  /\ Begin(a) < Begin(b) => a < b
         /\ a <= b => Begin(a) <= Begin(b)
  <1> DEFINE d == b - a
  <1>1. d \in Int /\ b = a + d
    OBVIOUS
  <1>2. Begin(b) = Begin(a) + RoundLength * d /\ Begin(a) \in Int
    BY Lengths DEF Begin
  <1> HIDE DEF d
  <1>3. /\ RoundLength * d \in Int
        /\ d >= 0 => RoundLength * d >= 0
        /\ RoundLength * d > 0 => d > 0
    BY <1>1, Lengths
  <1> QED
    BY <1>1, <1>2, <1>3

\* A quotient is determined by its bounds.
LEMMA Quotient ==
  ASSUME NEW b \in Nat \ {0}, NEW a \in Nat, NEW q \in Nat, b * q <= a, a < b * q + b
  PROVE  a \div b = q
  OBVIOUS

\* Multiples of a quarter are ordered as their factors.
LEMMA QuarterOrder ==
  ASSUME NEW a \in Int, NEW b \in Int, kDelta * a < kDelta * b
  PROVE  a < b
  <1> DEFINE d == b - a
  <1>1. d \in Int /\ b = a + d
    OBVIOUS
  <1>2. kDelta * b = kDelta * a + kDelta * d
    BY Lengths
  <1> HIDE DEF d
  <1>3. kDelta * a \in Int /\ kDelta * d \in Int /\ (kDelta * d > 0 => d > 0)
    BY <1>1, Lengths
  <1> QED
    BY <1>1, <1>2, <1>3

\* A round begins with a quarter, the fourth after the one before.
LEMMA BeginQuarter ==
  ASSUME NEW l \in Nat
  PROVE  /\ Begin(l) = kDelta * (4 * l)
         /\ Begin(l + 1) = kDelta * (4 * l + 4)
         /\ Begin(l) \in Nat
  BY Lengths DEF Begin

\* In the first quarter of a round the subround is a multiple of four.
LEMMA FirstQuarter ==
  ASSUME NEW t \in Nat, NEW l \in Nat, Begin(l) <= t, t < Begin(l) + kDelta
  PROVE  /\ calculate_subround_from_t(t) % 4 = 0
         /\ calculate_subround_from_t(t) \div 4 = l
  <1> DEFINE q == 4 * l
  <1>1. q \in Nat /\ Begin(l) = kDelta * q
    BY BeginQuarter
  <1>2. q % 4 = 0 /\ q \div 4 = l
    OBVIOUS
  <1> HIDE DEF q
  <1>3. kDelta * q <= t /\ t < kDelta * q + kDelta
    BY <1>1
  <1>4. t \div kDelta = q
    BY <1>1, <1>3, Lengths, Quotient
  <1> QED
    BY <1>2, <1>4 DEF calculate_subround_from_t

\* A round consists of four subrounds.
LEMMA SubroundInRound ==
  ASSUME NEW t \in Nat, NEW l \in Nat, Begin(l) <= t, t < Begin(l + 1)
  PROVE  calculate_subround_from_t(t) \div 4 = l
  <1> DEFINE q == t \div kDelta
             first == 4 * l
             last == 4 * l + 4
  <1>1. q \in Nat /\ kDelta * q <= t /\ t < kDelta * (q + 1)
    BY Lengths
  <1>2. /\ first \in Nat /\ last \in Nat
        /\ Begin(l) = kDelta * first /\ Begin(l + 1) = kDelta * last
    BY BeginQuarter
  <1>3. ASSUME NEW n \in Nat, first < n + 1, n < last PROVE n \div 4 = l
    BY <1>3
  <1> HIDE DEF q, first, last
  <1>4. /\ kDelta * q \in Int /\ kDelta * (q + 1) \in Int
        /\ kDelta * first \in Int /\ kDelta * last \in Int
    BY <1>1, <1>2, Lengths
  <1>5. kDelta * first < kDelta * (q + 1) /\ kDelta * q < kDelta * last
    BY <1>1, <1>2, <1>4
  <1>6. first < q + 1 /\ q < last
    BY <1>1, <1>2, <1>5, QuarterOrder
  <1>7. q \div 4 = l
    BY <1>1, <1>3, <1>6
  <1> QED
    BY <1>7 DEF calculate_subround_from_t, q

\* The rounds of a typed state are integers.
LEMMA RoundType ==
  ASSUME Types, NEW p \in Peers
  PROVE  /\ Round(p) \in Int /\ Round(p) >= -1
         /\ Round(p) = -1 <=> cur_round[p] = Word - 1
         /\ Round(p) # -1 => cur_round[p] = Round(p)
  <1>1. cur_round[p] \in Words
    BY DEF Types
  <1>2. cur_round[p] \in Nat /\ cur_round[p] < Word
    BY <1>1, Lengths DEF Words
  <1> QED
    BY <1>2, Lengths DEF Round

\* A clock that has been started is a natural number, and bounds the round.
LEMMA ClockType ==
  ASSUME RoundsInv, NEW p \in Peers, initialized[p]
  PROVE  /\ Clock(p) \in Nat /\ Clock(p) < MaxTime
         /\ Round(p) < MaxTime
  <1>1. time \in Nat /\ time <= MaxTime /\ init_time[p] \in Nat
    <2>1. time \in 0 .. MaxTime /\ init_time[p] \in Nat
      BY DEF RoundsInv, Types
    <2> QED
      BY <2>1, Lengths
  <1>2. init_time[p] >= 1 /\ init_time[p] <= time
    BY Lengths DEF RoundsInv, Setup
  <1>3. Clock(p) \in Nat /\ Clock(p) < MaxTime
    BY <1>1, <1>2, Lengths DEF Clock
  <1>4. Round(p) \in Int /\ Begin(Round(p)) <= Clock(p)
    BY RoundType DEF RoundsInv, Clocks
  <1>5. Begin(Round(p)) \in Int /\ (Round(p) >= 0 => Begin(Round(p)) >= Round(p))
    BY <1>4, BeginNext
  <1> QED
    BY <1>3, <1>4, <1>5, Lengths

\* What the invariant says of a peer, ready for use
LEMMA PeerFacts ==
  ASSUME RoundsInv, NEW p \in Peers
  PROVE  /\ time \in Nat /\ time <= MaxTime
         /\ init_time[p] \in Nat /\ checked[p] \in Nat /\ start[p] \in Nat
         /\ start[p] <= checked[p] /\ checked[p] <= time
         /\ initialized[p] => /\ nm_initialized[p]
                              /\ init_time[p] >= 1 /\ init_time[p] <= 1 + MaxSkew
                              /\ init_time[p] <= time
         /\ ~initialized[p] => Running(p) /\ Round(p) = -1
  <1>1. time \in 0 .. MaxTime /\ init_time[p] \in Nat /\ checked[p] \in Nat /\ start[p] \in Nat
    BY DEF RoundsInv, Types
  <1>2. initialized[p] => nm_initialized[p] /\ init_time[p] \in 1 .. (1 + MaxSkew)
                          /\ init_time[p] <= time
    BY DEF RoundsInv, Setup
  <1>3. ~initialized[p] => cur_round[p] = Word - 1
    BY DEF RoundsInv, Setup
  <1>4. (Running(p) \/ initialized[p]) /\ start[p] <= checked[p] /\ checked[p] <= time
    BY DEF RoundsInv, Loops
  <1> QED
    BY <1>1, <1>2, <1>3, <1>4, Lengths DEF Round

\* ... and of a packet of a peer
LEMMA PacketFacts ==
  ASSUME RoundsInv, NEW m \in network, m.from # LoginServer
  PROVE  /\ m.from \in Peers /\ m.to \in Peers /\ m.to \in Receivers[m.from]
         /\ m \in [from : Peers, to : Peers, round : Nat, at : Nat]
         /\ m.round \in Nat /\ m.round >= 1 /\ m.at \in Nat
         /\ initialized[m.from]
         /\ m.round - 1 <= Round(m.from)
         /\ init_time[m.from] + Begin(m.round - 1) <= m.at
         /\ m.at < init_time[m.from] + Begin(m.round - 1) + kDelta
         /\ m.at <= time
  <1>1. m \in [from : Peers \cup {LoginServer}, to : Peers, round : Nat, at : Nat]
    BY DEF RoundsInv, Types
  <1>2. SentInTime(m) /\ m.at <= time
    BY DEF RoundsInv, Packets
  <1> QED
    BY <1>1, <1>2 DEF SentInTime

\* Where the receiver is when it takes a timely packet, whatever the delays of
\* all others
LEMMA PacketWindow ==
  ASSUME RoundsInv, NEW m \in network, m.from # LoginServer,
         initialized[m.to], Running(m.to), Timely(m)
  PROVE  Round(m.to) <= m.round /\ Round(m.to) >= m.round - 1
  <1> DEFINE p == m.to
             q == m.from
             l == m.round - 1
  <1>1. /\ q \in Peers /\ p \in Peers /\ l \in Nat /\ m.at \in Nat /\ m.round = l + 1
        /\ initialized[q]
        /\ init_time[q] + Begin(l) <= m.at /\ m.at < init_time[q] + Begin(l) + kDelta
    BY PacketFacts
  <1>2. /\ time \in Nat /\ init_time[p] \in Nat /\ init_time[q] \in Nat
        /\ init_time[q] >= 1 /\ init_time[q] <= 1 + MaxSkew
        /\ init_time[p] >= 1 /\ init_time[p] <= 1 + MaxSkew
    BY <1>1, PeerFacts
  <1>3. /\ Begin(l) \in Int /\ Begin(l) >= 0 /\ Begin(l + 2) = Begin(l) + 2 * RoundLength
    BY <1>1, BeginNext
  <1>4. Round(p) \in Int /\ Begin(Round(p)) \in Int /\ Begin(Round(p) + 1) \in Int
    BY <1>1, RoundType, BeginNext DEF RoundsInv
  <1>5. time >= m.at + MaxSkew + kDelta /\ time + MaxSkew + kDelta <= m.at + 2 * RoundLength
    BY DEF Timely
  <1>6. /\ Begin(Round(p)) <= time - init_time[p]
        /\ time - init_time[p] < Begin(Round(p) + 1) + kDelta
    BY <1>1 DEF RoundsInv, Clocks, Clock
  <1>7. Round(p) <= m.round
    <2>1. Begin(Round(p)) < Begin(l + 2)
      BY <1>1, <1>2, <1>3, <1>4, <1>5, <1>6, Lengths
    <2>2. Round(p) < l + 2
      BY <1>1, <1>4, <2>1, BeginOrder
    <2> QED
      BY <1>1, <1>4, <2>2
  <1>8. Round(p) >= l
    <2>1. Begin(l) < Begin(Round(p) + 1)
      BY <1>1, <1>2, <1>3, <1>4, <1>5, <1>6, Lengths
    <2>2. l < Round(p) + 1
      BY <1>1, <1>4, <2>1, BeginOrder
    <2> QED
      BY <1>1, <1>4, <2>2
  <1> QED
    BY <1>7, <1>8

\* A packet that is taken in is for the round of its receiver or the next one.
LEMMA TakenIn ==
  ASSUME RoundsInv, NEW m \in network, m.from # LoginServer, initialized[m.to],
         ~(m.round < cur_round[m.to]), ~(m.round >= cur_round[m.to] + 2)
  PROVE  /\ m.round - cur_round[m.to] \in 0 .. 1
         /\ cur_round[m.to] = Round(m.to) /\ Round(m.to) \in Nat
  <1> DEFINE p == m.to
  <1>1. /\ p \in Peers /\ m.round \in Nat /\ m.from \in Peers
        /\ initialized[m.from] /\ m.round - 1 <= Round(m.from)
    BY PacketFacts
  <1>2. Round(m.from) < MaxTime /\ Round(m.from) \in Int
    BY <1>1, ClockType, RoundType DEF RoundsInv
  <1>3. cur_round[p] \in Nat
    <2>1. cur_round[p] \in Words
      BY <1>1 DEF RoundsInv, Types
    <2> QED
      BY <2>1, Lengths DEF Words
  <1>4. cur_round[p] # Word - 1
    BY <1>1, <1>2, <1>3, Lengths
  <1>5. cur_round[p] = Round(p)
    BY <1>4 DEF Round
  <1> QED
    BY <1>1, <1>3, <1>5

-----------------------------------------------------------------------------
(* Every action preserves the invariant                                    *)

\* Initially nobody has been started, and the server's messages are on their
\* way.
LEMMA InitRounds == Init => RoundsInv
  <1> SUFFICES ASSUME Init PROVE RoundsInv
    OBVIOUS
  <1>1. /\ \A p \in Peers : /\ crashed[p] = "no" /\ nm_initialized[p] = FALSE
                            /\ initialized[p] = FALSE /\ init_time[p] = 0
                            /\ cur_round[p] = Word - 1 /\ used[p] = {}
                            /\ in[p][0] = {} /\ in[p][1] = {}
                            /\ checked[p] = 0 /\ start[p] = 0 /\ waiting[p] = TRUE
        /\ time = 0
        /\ \A m \in network : m.from = LoginServer /\ m.at = 0 /\ m.round = 0 /\ m.to \in Peers
    BY DEF Init
  <1>2. Types
    <2>1. Word - 1 \in Words
      BY Lengths DEF Words
    <2>2. time \in 0 .. MaxTime
      BY <1>1, Lengths
    <2> QED
      BY <2>1, <2>2 DEF Init, Types
  <1>3. Setup
    BY <1>1, Lengths DEF Setup
  <1>4. Loops
    <2>1. \A p \in Peers : Running(p) /\ ~initialized[p]
      BY <1>1 DEF Running
    <2>2. \A p \in Peers : start[p] <= checked[p] /\ checked[p] <= time
      BY <1>1
    <2> QED
      BY <2>1, <2>2 DEF Loops
  <1>5. Clocks /\ Packets
    BY <1>1 DEF Clocks, Packets
  <1>6. Buffers
    BY <1>1 DEF Buffers
  <1> QED
    BY <1>2, <1>3, <1>4, <1>5, <1>6 DEF RoundsInv

\* Time passes: the loop of every peer is back before its clock has passed the
\* first quarter of a round in which it has not called.
LEMMA TickRounds ==
  ASSUME LoopKeepsUp, RoundsInv, Tick
  PROVE  RoundsInv'
  <1>1. /\ time' = time + 1 /\ time < MaxTime
        /\ UNCHANGED <<crashed, nm_initialized, initialized, init_time, cur_round, in, used,
                       waiting, checked, start, network>>
    BY DEF Tick, enclaveVars, hostVars
  <1>2. \A p \in Peers : Running(p) => waiting[p] /\ time < checked[p] + MaxTurn
    BY DEF Tick
  <1>3. \A p \in Peers : Round(p)' = Round(p) /\ Running(p)' = Running(p)
    BY <1>1 DEF Round, Running
  <1>4. time \in Nat
    <2>1. time \in 0 .. MaxTime
      BY DEF RoundsInv, Types
    <2> QED
      BY <2>1, Lengths
  <1>5. Types'
    <2>1. time' \in 0 .. MaxTime
      BY <1>1, <1>4, Lengths
    <2> QED
      BY <1>1, <2>1 DEF RoundsInv, Types
  <1>6. Setup'
    <2>1. \A m \in network : m.from = LoginServer => time + 1 <= 1 + MaxSkew
      <3> SUFFICES ASSUME NEW m \in network, m.from = LoginServer
                   PROVE  time + 1 <= 1 + MaxSkew
        OBVIOUS
      <3>1. m.to \in Peers /\ m.at = 0 /\ ~initialized[m.to]
        BY DEF RoundsInv, Types, Setup
      <3>2. time < Latest(m)
        BY <3>1, PeerFacts DEF Tick
      <3> QED
        BY <1>4, <3>1, <3>2, Lengths DEF Latest
    <2>2. \A p \in Peers : initialized[p] => init_time[p] <= time + 1
      BY <1>4, PeerFacts
    <2> QED
      BY <1>1, <2>1, <2>2 DEF RoundsInv, Setup
  <1>7. Loops'
    <2> SUFFICES ASSUME NEW p \in Peers
                 PROVE  /\ Running(p) \/ (initialized[p] /\ crashed[p] = "cur_or_next < 2")
                        /\ start[p] <= checked[p] /\ checked[p] <= time + 1
                        /\ Running(p) /\ initialized[p] => 2 * (checked[p] - start[p]) < kDelta
      BY <1>1, <1>3 DEF Loops
    <2>1. Running(p) \/ (initialized[p] /\ crashed[p] = "cur_or_next < 2")
      BY DEF RoundsInv, Loops
    <2>2. Running(p) /\ initialized[p] => 2 * (checked[p] - start[p]) < kDelta
      BY <1>2 DEF RoundsInv, Loops
    <2>3. start[p] <= checked[p] /\ checked[p] <= time + 1
      BY <1>4, PeerFacts
    <2> QED
      BY <2>1, <2>2, <2>3
  <1>8. ASSUME NEW p \in Peers, initialized[p], Running(p)
        PROVE  /\ (time + 1) - init_time[p] < Begin(Round(p) + 1) + kDelta
               /\ (time + 1) - init_time[p] >= Begin(Round(p) + 1) =>
                    start[p] < init_time[p] + Begin(Round(p) + 1)
    <2> DEFINE next == Begin(Round(p) + 1)
    <2>1. Round(p) \in Int /\ next \in Int
      BY RoundType, BeginNext DEF RoundsInv
    <2>2. /\ time - init_time[p] < next + kDelta
          /\ time - init_time[p] >= next => start[p] < init_time[p] + next
      BY <1>8 DEF RoundsInv, Clocks, Clock
    <2>3. /\ time < checked[p] + MaxTurn /\ 2 * (checked[p] - start[p]) < kDelta
      BY <1>2, <1>8 DEF RoundsInv, Loops
    <2>4. start[p] \in Nat /\ checked[p] \in Nat /\ init_time[p] \in Nat
          /\ start[p] <= checked[p] /\ checked[p] <= time
      BY PeerFacts
    <2>5. checked[p] - start[p] <= (kDelta - 1) \div 2
      <3> DEFINE d == checked[p] - start[p]
      <3>1. d \in Nat /\ 2 * d < kDelta
        BY <2>3, <2>4
      <3> HIDE DEF d
      <3>2. d <= (kDelta - 1) \div 2
        BY <3>1, Lengths
      <3> QED
        BY <3>2 DEF d
    <2>6. time - start[p] < kDelta
      <3>1. (kDelta - 1) \div 2 \in Int /\ (kDelta - 1) \div 2 + MaxTurn <= kDelta
        BY Lengths DEF LoopKeepsUp, CallGap
      <3> QED
        BY <1>4, <2>3, <2>4, <2>5, <3>1, Lengths
    <2> HIDE DEF next
    <2>7. (time + 1) - init_time[p] >= next => start[p] < init_time[p] + next
      BY <1>4, <2>1, <2>2, <2>4, <2>6, Lengths
    <2>8. (time + 1) - init_time[p] < next + kDelta
      BY <1>4, <2>1, <2>2, <2>4, <2>6, <2>7, Lengths
    <2> QED
      BY <2>7, <2>8 DEF next
  <1>9. Clocks'
    <2>1. ASSUME NEW p \in Peers, initialized[p]
          PROVE  Begin(Round(p)) <= (time + 1) - init_time[p]
      <3>1. Begin(Round(p)) <= time - init_time[p]
        BY <2>1 DEF RoundsInv, Clocks, Clock
      <3>2. Round(p) \in Int /\ Begin(Round(p)) \in Int /\ init_time[p] \in Nat
        BY RoundType, BeginNext, PeerFacts DEF RoundsInv
      <3> QED
        BY <1>4, <3>1, <3>2
    <2> QED
      BY <1>1, <1>3, <1>8, <2>1 DEF Clocks, Clock, Begin
  <1>10. Packets'
    <2> SUFFICES ASSUME NEW m \in network, m.from # LoginServer
                 PROVE  SentInTime(m) /\ m.at <= time + 1
      BY <1>1, <1>3 DEF Packets, SentInTime, Begin, RoundLength, Round
    <2> QED
      BY <1>4, PacketFacts DEF RoundsInv, Packets
  <1>11. Buffers'
    BY <1>1, <1>3 DEF RoundsInv, Buffers, Buffered, Round
  <1> QED
    BY <1>5, <1>6, <1>7, <1>9, <1>10, <1>11 DEF RoundsInv

\* MainLoop returns without calling the enclave, or the enclave does nothing:
\* the loop goes on.
LEMMA IdleRounds ==
  ASSUME RoundsInv, NEW p \in Peers,
         UNCHANGED <<time, crashed, enclaveVars, checked, start>>,
         waiting' = [waiting EXCEPT ![p] = FALSE],
         nm_initialized' = nm_initialized \/ nm_initialized' = [nm_initialized EXCEPT ![p] = TRUE],
         network' \subseteq network
  PROVE  RoundsInv'
  <1>1. UNCHANGED <<time, crashed, initialized, init_time, cur_round, in, used, checked, start>>
    BY DEF enclaveVars
  <1>2. Types'
    BY <1>1 DEF RoundsInv, Types
  <1>3. \A q \in Peers : nm_initialized[q] => nm_initialized'[q]
    BY DEF RoundsInv, Types
  <1>4. Setup'
    BY <1>1, <1>3 DEF RoundsInv, Setup
  <1>5. \A q \in Peers : waiting'[q] \in BOOLEAN /\ (~waiting[q] => ~waiting'[q])
    BY DEF RoundsInv, Types
  <1>6. Loops'
    BY <1>1, <1>5 DEF RoundsInv, Loops, Running
  <1>7. Clocks'
    BY <1>1 DEF RoundsInv, Clocks, Clock, Round, Running
  <1>8. Packets'
    BY <1>1 DEF RoundsInv, Packets, SentInTime, Round
  <1>9. Buffers'
    BY <1>1 DEF RoundsInv, Buffers, Buffered, Round
  <1> QED
    BY <1>2, <1>4, <1>6, <1>7, <1>8, <1>9 DEF RoundsInv

\* The first packet a peer gets is the message of the server.
LEMMA ReceiveInitRounds ==
  ASSUME RoundsInv, NEW m \in network, Receive(m.to, m), m.from = LoginServer,
         ~nm_initialized[m.to]
  PROVE  RoundsInv'
  <1> DEFINE p == m.to
  <1>1. /\ m.to \in Peers /\ m.at = 0 /\ m.round = 0 /\ ~nm_initialized[p]
        /\ m = [from |-> LoginServer, to |-> p, round |-> 0, at |-> 0]
    BY DEF RoundsInv, Types, Setup
  <1>2. /\ network' = network \ {m}
        /\ nm_initialized' = [nm_initialized EXCEPT ![p] = TRUE]
        /\ initialized' = [initialized EXCEPT ![p] = TRUE]
        /\ init_time' = [init_time EXCEPT ![p] = time]
        /\ waiting' = [waiting EXCEPT ![p] = FALSE]
        /\ UNCHANGED <<time, crashed, cur_round, in, used, checked, start>>
    BY <1>1 DEF Receive, received_msg_from_server
  <1>3. time \in Nat /\ time >= 1 /\ time <= 1 + MaxSkew
    <2>1. time >= 1
      BY <1>1, Lengths DEF Receive, Earliest
    <2>2. time <= 1 + MaxSkew
      BY DEF RoundsInv, Setup
    <2> QED
      BY <1>1, <2>1, <2>2, PeerFacts
  <1>4. ~initialized[p] /\ cur_round[p] = Word - 1 /\ start[p] = 0
    BY <1>1 DEF RoundsInv, Setup
  <1>5. \A q \in Peers : Round(q)' = Round(q)
    BY <1>2 DEF Round
  <1>6. Types'
    BY <1>2, <1>3 DEF RoundsInv, Types
  <1>7. /\ initialized'[p] = TRUE /\ nm_initialized'[p] = TRUE
        /\ init_time'[p] = time /\ waiting'[p] = FALSE
        /\ \A q \in Peers \ {p} :
             /\ initialized'[q] = initialized[q] /\ nm_initialized'[q] = nm_initialized[q]
             /\ init_time'[q] = init_time[q] /\ waiting'[q] = waiting[q]
    BY <1>1, <1>2 DEF RoundsInv, Types
  <1> HIDE DEF p
  <1>8. Setup'
    <2>2. ASSUME NEW n \in network', n.from = LoginServer PROVE n.to \in Peers /\ n.to # p
      <3>1. n \in network /\ n # m
        BY <1>2
      <3>2. n.to \in Peers /\ n.at = 0 /\ n.round = 0
        BY <2>2, <3>1 DEF RoundsInv, Types, Setup
      <3>3. n = [from |-> LoginServer, to |-> n.to, round |-> 0, at |-> 0]
        BY <2>2, <3>1, <3>2 DEF RoundsInv, Types
      <3> QED
        BY <1>1, <3>1, <3>2, <3>3
    <2>3. \A n \in network' : n.from = LoginServer =>
            n.at = 0 /\ n.round = 0 /\ time <= 1 + MaxSkew /\ ~initialized'[n.to]
      BY <1>2, <1>7, <2>2 DEF RoundsInv, Setup
    <2>4. time \in 1 .. (1 + MaxSkew)
      BY <1>3, Lengths
    <2> QED
      BY <1>2, <1>7, <2>3, <2>4, PeerFacts DEF RoundsInv, Setup
  <1>9. Loops'
    BY <1>2, <1>4, <1>7 DEF RoundsInv, Loops, Running
  <1>10. Clocks'
    <2>1. Round(p) = -1
      BY <1>4 DEF Round
    <2>2. Begin(-1) <= 0 /\ Begin(0) = 0
      BY Lengths DEF Begin
    <2>3. /\ Begin(Round(p)) <= time - time
          /\ time - time < Begin(Round(p) + 1) + kDelta
          /\ start[p] < time + Begin(Round(p) + 1)
      BY <1>3, <1>4, <2>1, <2>2, Lengths
    <2> QED
      BY <1>2, <1>5, <1>7, <2>3 DEF RoundsInv, Clocks, Clock, Begin, Running
  <1>11. Packets'
    <2> SUFFICES ASSUME NEW n \in network, n.from # LoginServer
                 PROVE  SentInTime(n)' /\ n.at <= time
      BY <1>2 DEF Packets
    <2>1. SentInTime(n) /\ n.from \in Peers /\ n.from # p
      BY <1>4, PacketFacts DEF RoundsInv, Packets
    <2>2. SentInTime(n)'
      BY <1>2, <1>5, <1>7, <2>1 DEF SentInTime, Begin
    <2> QED
      BY <2>2 DEF RoundsInv, Packets
  <1>12. Buffers'
    BY <1>2, <1>5 DEF RoundsInv, Buffers, Buffered, Round
  <1> QED
    BY <1>6, <1>8, <1>9, <1>10, <1>11, <1>12 DEF RoundsInv

\* A packet for a round that is two ahead ends the peer, whose loop stops.
LEMMA FatalRounds ==
  ASSUME RoundsInv, NEW p \in Peers, initialized[p],
         UNCHANGED <<time, enclaveVars, checked, start, nm_initialized>>,
         crashed' = [crashed EXCEPT ![p] = "cur_or_next < 2"],
         waiting' = [waiting EXCEPT ![p] = FALSE],
         network' \subseteq network
  PROVE  RoundsInv'
  <1>1. UNCHANGED <<time, initialized, init_time, cur_round, in, used, checked, start>>
    BY DEF enclaveVars
  <1>2. Types'
    BY <1>1 DEF RoundsInv, Types
  <1>3. Setup'
    BY <1>1 DEF RoundsInv, Setup
  <1>4. /\ crashed'[p] = "cur_or_next < 2" /\ ~Running(p)'
        /\ \A q \in Peers \ {p} : /\ crashed'[q] = crashed[q] /\ waiting'[q] = waiting[q]
                                  /\ Running(q)' = Running(q)
    BY DEF RoundsInv, Types, Running
  <1>5. Loops'
    <2>1. ASSUME NEW q \in Peers
          PROVE  /\ Running(q)' \/ (initialized[q] /\ crashed'[q] = "cur_or_next < 2")
                 /\ start[q] <= checked[q] /\ checked[q] <= time
                 /\ Running(q)' /\ initialized[q] =>
                      \/ 2 * (checked[q] - start[q]) < kDelta
                      \/ ~waiting'[q] /\ start[q] = 0 /\ init_time[q] = time
      <3>1. CASE q = p
        BY <1>4, <3>1, PeerFacts
      <3>2. CASE q # p
        BY <1>4, <3>2 DEF RoundsInv, Loops
      <3> QED
        BY <3>1, <3>2
    <2> QED
      BY <1>1, <2>1 DEF Loops
  <1>6. Clocks'
    <2>1. \A q \in Peers : Running(q)' => Running(q)
      BY <1>4
    <2> QED
      BY <1>1, <2>1 DEF RoundsInv, Clocks, Clock, Round
  <1>7. Packets'
    BY <1>1 DEF RoundsInv, Packets, SentInTime, Round
  <1>8. Buffers'
    <2>1. \A q : Round(q)' = Round(q)
      BY <1>1 DEF Round
    <2>2. \A q, k, m : Buffered(q, k, m)' <=> Buffered(q, k, m)
      BY <2>1 DEF Buffered
    <2> QED
      BY <1>1, <2>2 DEF RoundsInv, Buffers
  <1> QED
    BY <1>2, <1>3, <1>5, <1>6, <1>7, <1>8 DEF RoundsInv

\* A packet for the round of its receiver, or for the next one, is buffered.
LEMMA BufferRounds ==
  ASSUME RoundsInv, NEW m \in network, m.from # LoginServer,
         NEW k \in 0 .. 1, m.round = Round(m.to) + k,
         in' = [in EXCEPT ![m.to][k] = @ \cup {m}],
         UNCHANGED <<time, crashed, initialized, init_time, cur_round, used,
                     nm_initialized, checked, start>>,
         waiting' = [waiting EXCEPT ![m.to] = FALSE],
         network' \subseteq network
  PROVE  RoundsInv'
  <1> DEFINE p == m.to
             Packet == [from : Peers, to : Peers, round : Nat, at : Nat]
  <1>1. /\ p \in Peers /\ p \in Receivers[m.from] /\ m \in Packet
        /\ m.round >= 1 /\ m.round - 1 <= Round(m.from)
    BY PacketFacts
  <1>2. \A q \in Peers : Round(q)' = Round(q) /\ Running(q)' = Running(q)
    BY DEF Round, Running
  <1>3. \A q \in Peers : waiting'[q] \in BOOLEAN /\ (~waiting[q] => ~waiting'[q])
    BY <1>1 DEF RoundsInv, Types
  <1>4. /\ \A q \in Peers \ {p} : in'[q] = in[q]
        /\ in'[p][k] = in[p][k] \cup {m}
        /\ \A j \in 0 .. 1 : j # k => in'[p][j] = in[p][j]
    BY <1>1 DEF RoundsInv, Types
  <1>5. Types'
    <2>1. in \in [Peers -> [0 .. 1 -> SUBSET Packet]]
      BY DEF RoundsInv, Types
    <2> HIDE DEF Packet, p
    <2>2. in[p][k] \cup {m} \in SUBSET Packet
      BY <1>1, <2>1
    <2>3. in' = [in EXCEPT ![p][k] = in[p][k] \cup {m}]
      BY DEF p
    <2>4. [in[p] EXCEPT ![k] = in[p][k] \cup {m}] \in [0 .. 1 -> SUBSET Packet]
      BY <1>1, <2>1, <2>2
    <2>5. in' = [in EXCEPT ![p] = [in[p] EXCEPT ![k] = in[p][k] \cup {m}]]
      BY <2>3
    <2>6. in' \in [Peers -> [0 .. 1 -> SUBSET Packet]]
      BY <1>1, <2>1, <2>4, <2>5
    <2> QED
      BY <2>6 DEF RoundsInv, Types, Packet
  <1> HIDE DEF p, Packet
  <1>6. Setup'
    BY DEF RoundsInv, Setup
  <1>7. Loops'
    BY <1>2, <1>3 DEF RoundsInv, Loops
  <1>8. Clocks'
    BY <1>2 DEF RoundsInv, Clocks, Clock, Begin
  <1>9. Packets'
    BY DEF RoundsInv, Packets, SentInTime, Begin, Round
  <1>10. Buffers'
    <2>1. m.from \in Peers
      BY PacketFacts
    <2>2. Buffered(p, k, m)
      BY <1>1 DEF Buffered, p
    <2>3. ASSUME NEW q \in Peers, NEW j \in 0 .. 1, NEW n \in in'[q][j]
          PROVE  Buffered(q, j, n)
      <3>1. CASE n \in in[q][j]
        BY <3>1 DEF RoundsInv, Buffers
      <3>2. CASE n \notin in[q][j]
        <4>1. q = p /\ j = k /\ n = m
          BY <1>4, <3>2
        <4> QED
          BY <2>2, <4>1
      <3> QED
        BY <3>1, <3>2
    <2> QED
      BY <2>3 DEF Buffers, Buffered, Round
  <1> QED
    BY <1>5, <1>6, <1>7, <1>8, <1>9, <1>10 DEF RoundsInv

\* What taking a packet can do, the server's message to a new peer aside
LEMMA TakeCases ==
  ASSUME RoundsInv, NEW m \in network, Receive(m.to, m),
         nm_initialized[m.to] \/ m.from # LoginServer
  PROVE  \/ /\ UNCHANGED <<crashed, enclaveVars>>
            /\ initialized[m.to] /\ m.from # LoginServer => m.round < cur_round[m.to]
         \/ /\ initialized[m.to] /\ m.from # LoginServer
            /\ m.round >= cur_round[m.to] + 2
            /\ crashed' = [crashed EXCEPT ![m.to] = "cur_or_next < 2"]
            /\ UNCHANGED enclaveVars
         \/ /\ initialized[m.to] /\ m.from # LoginServer
            /\ m.round - cur_round[m.to] \in 0 .. 1
            /\ cur_round[m.to] = Round(m.to) /\ Round(m.to) \in Nat
            /\ in' = [in EXCEPT ![m.to][m.round - cur_round[m.to]] = @ \cup {m}]
            /\ UNCHANGED <<crashed, initialized, init_time, cur_round, used>>
  <1> DEFINE p == m.to
  <1>1. p \in Peers
    BY DEF RoundsInv, Types
  <1>2. initialized[p] => nm_initialized[p] /\ m.from # LoginServer
    BY <1>1 DEF RoundsInv, Setup
  <1>3. CASE ~nm_initialized[p]
    BY <1>2, <1>3 DEF Receive, received_msg_from_server, enclaveVars
  <1>4. CASE nm_initialized[p]
    <2>1. traffic_in(p, m)
      BY <1>4 DEF Receive
    <2>2. CASE ~initialized[p] \/ m.round < cur_round[p]
      <3>1. m.round \in Nat /\ cur_round[p] \in Nat
        <4>1. m.round \in Nat /\ cur_round[p] \in Words
          BY <1>1 DEF RoundsInv, Types
        <4> QED
          BY <4>1, Lengths DEF Words
      <3>2. ~initialized[p] \/ ~(m.round >= cur_round[p] + 2 \/ m.round - cur_round[p] \in 0 .. 1)
        BY <2>2, <3>1
      <3>3. UNCHANGED <<crashed, enclaveVars>>
        BY <2>1, <3>2, Zenon DEF traffic_in
      <3> QED
        BY <2>2, <3>3
    <2>3. CASE initialized[p] /\ m.round >= cur_round[p] + 2
      <3>1. m.round \in Nat /\ cur_round[p] \in Nat
        <4>1. m.round \in Nat /\ cur_round[p] \in Words
          BY <1>1 DEF RoundsInv, Types
        <4> QED
          BY <4>1, Lengths DEF Words
      <3>2. ~(m.round < cur_round[p] \/ m.round - cur_round[p] \in 0 .. 1)
        BY <2>3, <3>1
      <3>3. crashed' = [crashed EXCEPT ![p] = "cur_or_next < 2"] /\ UNCHANGED enclaveVars
        BY <2>1, <2>3, <3>2, Zenon DEF traffic_in
      <3> QED
        BY <1>2, <2>3, <3>3
    <2>4. CASE initialized[p] /\ ~(m.round < cur_round[p]) /\ ~(m.round >= cur_round[p] + 2)
      BY <1>2, <2>1, <2>4, TakenIn DEF traffic_in
    <2> QED
      BY <2>2, <2>3, <2>4
  <1> QED
    BY <1>3, <1>4

\* However fast or slow a packet was, taking it preserves the invariant.
LEMMA ReceiveRounds ==
  ASSUME RoundsInv, NEW m \in network, Receive(m.to, m),
         nm_initialized[m.to] \/ m.from # LoginServer
  PROVE  RoundsInv'
  <1>1. /\ network' = network \ {m}
        /\ nm_initialized' = [nm_initialized EXCEPT ![m.to] = TRUE]
        /\ waiting' = [waiting EXCEPT ![m.to] = FALSE]
        /\ UNCHANGED <<time, checked, start>>
        /\ m.to \in Peers
    BY DEF Receive, RoundsInv, Types
  <1>2. initialized[m.to] => nm_initialized' = nm_initialized
    BY <1>1 DEF RoundsInv, Types, Setup
  <1>3. CASE UNCHANGED <<crashed, enclaveVars>>
    BY <1>1, <1>3, IdleRounds
  <1>4. CASE /\ initialized[m.to]
             /\ crashed' = [crashed EXCEPT ![m.to] = "cur_or_next < 2"]
             /\ UNCHANGED enclaveVars
    BY <1>1, <1>2, <1>4, FatalRounds
  <1>5. CASE /\ initialized[m.to] /\ m.from # LoginServer
             /\ m.round - cur_round[m.to] \in 0 .. 1
             /\ cur_round[m.to] = Round(m.to) /\ Round(m.to) \in Nat
             /\ in' = [in EXCEPT ![m.to][m.round - cur_round[m.to]] = @ \cup {m}]
             /\ UNCHANGED <<crashed, initialized, init_time, cur_round, used>>
    <2> DEFINE k == m.round - cur_round[m.to]
    <2>1. k \in 0 .. 1 /\ m.round = Round(m.to) + k
      BY <1>5, PacketFacts
    <2>2. in' = [in EXCEPT ![m.to][k] = @ \cup {m}]
      BY <1>5
    <2> HIDE DEF k
    <2> QED
      BY <1>1, <1>2, <1>5, <2>1, <2>2, BufferRounds
  <1> QED
    BY <1>3, <1>4, <1>5, TakeCases

\* A call of traffic_out enters the next round if the clock has reached it, and
\* does nothing otherwise.
LEMMA CallRounds ==
  ASSUME RoundsInv, NEW p \in Peers, Running(p), initialized[p], traffic_out(p)
  PROVE  \/ /\ Clock(p) < Begin(Round(p) + 1)
            /\ UNCHANGED <<crashed, enclaveVars, network>>
         \/ /\ Clock(p) >= Begin(Round(p) + 1)
            /\ EnterRound(p, Round(p) + 1)
            /\ UNCHANGED <<crashed, initialized, init_time>>
  <1> DEFINE r == Round(p)
  <1>1. /\ r \in Int /\ r >= -1 /\ r + 1 < Word - 1
        /\ cur_round[p] = IF r = -1 THEN Word - 1 ELSE r
    BY RoundType, ClockType, Lengths DEF RoundsInv, Round
  <1>2. Clock(p) \in Nat /\ Begin(r) <= Clock(p) /\ Clock(p) < Begin(r + 1) + kDelta
    BY ClockType DEF RoundsInv, Clocks
  <1>3. Begin(r + 1) \in Int /\ Begin(0) = 0
    BY <1>1, Lengths, BeginNext DEF Begin
  <1>4. subround(p) = calculate_subround_from_t(Clock(p))
    BY DEF subround, Clock
  <1>5. CASE Clock(p) < Begin(r + 1)
    <2>1. r >= 0
      BY <1>1, <1>2, <1>3, <1>5
    <2>2. subround(p) \div 4 = cur_round[p]
      BY <1>1, <1>2, <1>4, <1>5, <2>1, SubroundInRound
    <2> QED
      BY <1>5, <2>2 DEF traffic_out
  <1>6. CASE Clock(p) >= Begin(r + 1)
    <2>1. subround(p) % 4 = 0 /\ subround(p) \div 4 = r + 1
      BY <1>1, <1>2, <1>4, <1>6, FirstQuarter
    <2>2. r + 1 # cur_round[p] /\ cur_round[p] = WSub(r + 1, 1)
      BY <1>1, Lengths DEF WSub
    <2> QED
      BY <1>6, <2>1, <2>2 DEF traffic_out
  <1> QED
    BY <1>2, <1>3, <1>5, <1>6

\* A turn that enters no round: there was no call, or it was not yet time.
LEMMA IdleTurnRounds ==
  ASSUME RoundsInv, NEW p \in Peers, FinishTurn(p),
         UNCHANGED <<crashed, enclaveVars, network>>,
         initialized[p] => \/ 2 * (time - start[p]) < kDelta /\ start' = start
                           \/ /\ Clock(p) < Begin(Round(p) + 1)
                              /\ start' = [start EXCEPT ![p] = time],
         ~nm_initialized[p] => start' = start
  PROVE  RoundsInv'
  <1>1. /\ waiting' = [waiting EXCEPT ![p] = TRUE]
        /\ checked' = [checked EXCEPT ![p] = time]
        /\ UNCHANGED <<time, crashed, nm_initialized, initialized, init_time, cur_round, in, used,
                       network>>
    BY DEF FinishTurn, enclaveVars
  <1>2. start' = start \/ start' = [start EXCEPT ![p] = time]
    BY DEF FinishTurn
  <1>3. /\ time \in Nat /\ checked'[p] = time /\ waiting'[p] = TRUE /\ ~waiting[p]
        /\ start[p] \in Nat /\ start[p] <= time
        /\ \A q \in Peers \ {p} : /\ checked'[q] = checked[q] /\ start'[q] = start[q]
                                  /\ waiting'[q] = waiting[q]
    <2>1. time \in Nat /\ start[p] \in Nat /\ start[p] <= time
      BY PeerFacts
    <2>2. ~waiting[p]
      BY DEF FinishTurn
    <2>3. checked'[p] = time /\ waiting'[p] = TRUE
      BY <1>1 DEF RoundsInv, Types
    <2>4. \A q \in Peers \ {p} : checked'[q] = checked[q] /\ waiting'[q] = waiting[q]
      BY <1>1 DEF RoundsInv, Types
    <2>5. \A q \in Peers \ {p} : start'[q] = start[q]
      BY <1>2 DEF RoundsInv, Types
    <2> QED
      BY <2>1, <2>2, <2>3, <2>4, <2>5
  <1>4. start'[p] = start[p] \/ start'[p] = time
    BY <1>2 DEF RoundsInv, Types
  <1>5. initialized[p] => \/ 2 * (time - start[p]) < kDelta /\ start'[p] = start[p]
                          \/ Clock(p) < Begin(Round(p) + 1) /\ start'[p] = time
    BY DEF RoundsInv, Types
  <1>6. Types'
    BY <1>1, <1>2, <1>3 DEF RoundsInv, Types
  <1>7. Setup'
    <2>1. \A q \in Peers : ~nm_initialized[q] => start'[q] = start[q]
      BY <1>3
    <2> QED
      BY <1>1, <2>1 DEF RoundsInv, Setup
  <1>8. Loops'
    <2> USE DEF Running
    <2>1. initialized[p] => 2 * (time - start'[p]) < kDelta
      BY <1>3, <1>5, Lengths
    <2>2. start'[p] <= time
      BY <1>3, <1>4, Lengths
    <2>3. ASSUME NEW q \in Peers
          PROVE  /\ Running(q) \/ (initialized[q] /\ crashed[q] = "cur_or_next < 2")
                 /\ start'[q] <= checked'[q] /\ checked'[q] <= time
                 /\ Running(q) /\ initialized[q] =>
                      \/ 2 * (checked'[q] - start'[q]) < kDelta
                      \/ ~waiting'[q] /\ start'[q] = 0 /\ init_time[q] = time
      <3>1. CASE q = p
        <4>1. Running(p)
          BY DEF FinishTurn
        <4> QED
          BY <1>3, <2>1, <2>2, <3>1, <4>1
      <3>2. CASE q # p
        BY <1>3, <3>2 DEF RoundsInv, Loops
      <3> QED
        BY <3>1, <3>2
    <2> QED
      BY <1>1, <2>3 DEF Loops
  <1>9. Clocks'
    <2>1. /\ Round(p) \in Int /\ Begin(Round(p) + 1) \in Int
          /\ initialized[p] => Clock(p) \in Nat
          /\ Running(p)
      BY RoundType, BeginNext, ClockType DEF RoundsInv, FinishTurn
    <2>2. initialized[p] /\ Clock(p) >= Begin(Round(p) + 1) =>
            start'[p] < init_time[p] + Begin(Round(p) + 1)
      BY <1>5, <2>1 DEF RoundsInv, Clocks
    <2> QED
      BY <1>1, <1>3, <2>2 DEF RoundsInv, Clocks, Clock, Begin, Round, Running
  <1>10. Packets'
    BY <1>1 DEF RoundsInv, Packets, SentInTime, Begin, Round
  <1>11. Buffers'
    BY <1>1 DEF RoundsInv, Buffers, Buffered, Round
  <1> QED
    BY <1>6, <1>7, <1>8, <1>9, <1>10, <1>11 DEF RoundsInv

\* What entering the next round does to the state
LEMMA EnterFacts ==
  ASSUME RoundsInv, NEW p \in Peers, EnterRound(p, Round(p) + 1), initialized[p]
  PROVE  /\ Round(p)' = Round(p) + 1
         /\ Round(p) + 1 \in Nat /\ Round(p) + 1 \in Words
         /\ used'[p] = in[p][0] /\ in'[p][0] = in[p][1] /\ in'[p][1] = {}
         /\ \A q \in Peers \ {p} : Round(q)' = Round(q) /\ used'[q] = used[q] /\ in'[q] = in[q]
         /\ \A n : n \in network' <=>
              \/ n \in network
              \/ \E q \in Receivers[p] :
                   n = [from |-> p, to |-> q, round |-> Round(p) + 2, at |-> time]
  <1> DEFINE r == Round(p)
  <1>1. r \in Int /\ r + 1 \in Nat /\ r + 1 < Word - 1
    BY RoundType, ClockType, Lengths DEF RoundsInv
  <1>2. r + 1 \in Words /\ r + 1 # Word - 1
    BY <1>1, Lengths DEF Words
  <1>3. cur_round' = [cur_round EXCEPT ![p] = r + 1]
    BY DEF EnterRound
  <1>4. cur_round'[p] = r + 1 /\ \A q \in Peers \ {p} : cur_round'[q] = cur_round[q]
    BY <1>3 DEF RoundsInv, Types
  <1>5. Round(p)' = r + 1 /\ \A q \in Peers \ {p} : Round(q)' = Round(q)
    BY <1>2, <1>4 DEF Round
  <1>6. used'[p] = in[p][0] /\ \A q \in Peers \ {p} : used'[q] = used[q]
    BY DEF EnterRound, RoundsInv, Types
  <1>7. /\ in'[p] = [k \in 0 .. 1 |-> IF k = 0 THEN in[p][1] ELSE {}]
        /\ \A q \in Peers \ {p} : in'[q] = in[q]
    BY DEF EnterRound, RoundsInv, Types
  <1>8. in'[p][0] = in[p][1] /\ in'[p][1] = {}
    BY <1>7
  <1>9. (r + 1) + 1 = r + 2
    BY <1>1
  <1>10. network' = network \cup {[from |-> p, to |-> q, round |-> r + 2, at |-> time] : q \in Receivers[p]}
    BY <1>9 DEF EnterRound
  <1> QED
    BY <1>1, <1>2, <1>5, <1>6, <1>7, <1>8, <1>10

\* A turn that enters the next round
LEMMA EnterTurnRounds ==
  ASSUME RoundsInv, NEW p \in Peers, FinishTurn(p), initialized[p],
         Clock(p) >= Begin(Round(p) + 1), EnterRound(p, Round(p) + 1),
         UNCHANGED <<crashed, initialized, init_time>>,
         start' = [start EXCEPT ![p] = time]
  PROVE  RoundsInv'
  <1> DEFINE r == Round(p)
             Packed(q) == [from |-> p, to |-> q, round |-> r + 2, at |-> time]
             Packet == [from : Peers, to : Peers, round : Nat, at : Nat]
  <1>1. /\ waiting' = [waiting EXCEPT ![p] = TRUE]
        /\ checked' = [checked EXCEPT ![p] = time]
        /\ UNCHANGED <<time, crashed, nm_initialized, initialized, init_time>>
    BY DEF FinishTurn
  <1>2. /\ r \in Int /\ r + 1 \in Nat /\ r + 1 \in Words /\ Round(p)' = r + 1
        /\ used'[p] = in[p][0] /\ in'[p][0] = in[p][1] /\ in'[p][1] = {}
        /\ \A q \in Peers \ {p} : Round(q)' = Round(q) /\ used'[q] = used[q] /\ in'[q] = in[q]
        /\ \A n : n \in network' <=> n \in network \/ \E q \in Receivers[p] : n = Packed(q)
    BY EnterFacts, RoundType DEF RoundsInv
  <1>3. /\ time \in Nat /\ init_time[p] \in Nat /\ time - init_time[p] \in Nat
        /\ init_time[p] + Begin(r + 1) <= time
        /\ time < init_time[p] + Begin(r + 1) + kDelta
        /\ Begin(r + 1) \in Int /\ Begin(r + 2) = Begin(r + 1) + RoundLength
    <2>1. time \in Nat /\ init_time[p] \in Nat /\ init_time[p] <= time
      BY PeerFacts
    <2>2. Begin(r + 1) \in Int /\ Begin(r + 2) = Begin(r + 1) + RoundLength
      <3>1. Begin(r + 1) \in Int /\ Begin((r + 1) + 1) = Begin(r + 1) + RoundLength
        BY <1>2, BeginNext
      <3>2. (r + 1) + 1 = r + 2
        BY <1>2
      <3> QED
        BY <3>1, <3>2
    <2>3. Begin(r + 1) <= time - init_time[p] /\ time - init_time[p] < Begin(r + 1) + kDelta
      BY DEF RoundsInv, Clocks, Clock, FinishTurn
    <2> QED
      BY <2>1, <2>2, <2>3, Lengths
  <1>4. /\ checked'[p] = time /\ waiting'[p] = TRUE /\ start'[p] = time
        /\ \A q \in Peers \ {p} : /\ checked'[q] = checked[q] /\ start'[q] = start[q]
                                  /\ waiting'[q] = waiting[q]
    BY <1>1 DEF RoundsInv, Types
  <1>5. \A q \in Receivers[p] : q \in Peers
    BY RoundsAssumption
  <1>6. Types'
    <2>1. cur_round' \in [Peers -> Words] /\ used' \in [Peers -> SUBSET Packet]
      <3>1. /\ cur_round \in [Peers -> Words] /\ used \in [Peers -> SUBSET Packet]
            /\ in \in [Peers -> [0 .. 1 -> SUBSET Packet]]
        BY DEF RoundsInv, Types
      <3>2. /\ cur_round' = [cur_round EXCEPT ![p] = r + 1]
            /\ used' = [used EXCEPT ![p] = in[p][0]]
        BY DEF EnterRound
      <3> HIDE DEF Packet, r
      <3> QED
        BY <1>2, <3>1, <3>2
    <2>2. in' \in [Peers -> [0 .. 1 -> SUBSET Packet]]
      <3>1. in \in [Peers -> [0 .. 1 -> SUBSET Packet]]
        BY DEF RoundsInv, Types
      <3>2. in' = [in EXCEPT ![p] = [k \in 0 .. 1 |-> IF k = 0 THEN in[p][1] ELSE {}]]
        BY DEF EnterRound
      <3> HIDE DEF Packet
      <3>3. [k \in 0 .. 1 |-> IF k = 0 THEN in[p][1] ELSE {}] \in [0 .. 1 -> SUBSET Packet]
        BY <3>1
      <3> QED
        BY <3>1, <3>2, <3>3
    <2>3. network' \subseteq
            [from : Peers \cup {LoginServer}, to : Peers, round : Nat, at : Nat]
      <3> SUFFICES ASSUME NEW n \in network'
                   PROVE  n \in [from : Peers \cup {LoginServer}, to : Peers, round : Nat, at : Nat]
        OBVIOUS
      <3>1. CASE n \in network
        BY <3>1 DEF RoundsInv, Types
      <3>2. CASE \E q \in Receivers[p] : n = Packed(q)
        BY <1>2, <1>3, <1>5, <3>2
      <3> QED
        BY <1>2, <3>1, <3>2
    <2>4. /\ waiting' \in [Peers -> BOOLEAN] /\ checked' \in [Peers -> Nat]
          /\ start' \in [Peers -> Nat]
      BY <1>1, <1>3 DEF RoundsInv, Types
    <2> QED
      BY <1>1, <2>1, <2>2, <2>3, <2>4 DEF RoundsInv, Types
  <1>7. Setup'
    <2>1. \A q \in Peers : ~initialized[q] => cur_round'[q] = cur_round[q]
      BY DEF EnterRound, RoundsInv, Types
    <2>2. nm_initialized[p] /\ \A q \in Peers : ~nm_initialized[q] => start'[q] = start[q]
      BY <1>4 DEF RoundsInv, Setup
    <2>3. \A m \in network' : m.from = LoginServer => m \in network
      BY <1>2, RoundsAssumption
    <2> QED
      BY <1>1, <2>1, <2>2, <2>3 DEF RoundsInv, Setup
  <1>8. Loops'
    <2> USE DEF Running
    <2>1. 2 * (time - time) < kDelta /\ time <= time
      BY <1>3, Lengths
    <2>2. ASSUME NEW q \in Peers
          PROVE  /\ Running(q) \/ (initialized[q] /\ crashed[q] = "cur_or_next < 2")
                 /\ start'[q] <= checked'[q] /\ checked'[q] <= time
                 /\ Running(q) /\ initialized[q] =>
                      \/ 2 * (checked'[q] - start'[q]) < kDelta
                      \/ ~waiting'[q] /\ start'[q] = 0 /\ init_time[q] = time
      <3>1. CASE q = p
        BY <1>4, <2>1, <3>1 DEF RoundsInv, Loops
      <3>2. CASE q # p
        BY <1>4, <3>2 DEF RoundsInv, Loops
      <3> QED
        BY <3>1, <3>2
    <2> QED
      BY <1>1, <2>2 DEF Loops
  <1>9. Clocks'
    <2>1. /\ Begin(r + 1) <= time - init_time[p]
          /\ time - init_time[p] < Begin(r + 2) + kDelta
          /\ ~(time - init_time[p] >= Begin(r + 2))
      BY <1>3, Lengths
    <2>2. (r + 1) + 1 = r + 2
      BY <1>2
    <2>3. ASSUME NEW q \in Peers, initialized[q]
          PROVE  /\ Begin(Round(q)') <= time - init_time[q]
                 /\ Running(q) =>
                      /\ time - init_time[q] < Begin(Round(q)' + 1) + kDelta
                      /\ time - init_time[q] >= Begin(Round(q)' + 1) =>
                           start'[q] < init_time[q] + Begin(Round(q)' + 1)
      <3>1. CASE q = p
        BY <1>2, <2>1, <2>2, <3>1
      <3>2. CASE q # p
        BY <1>2, <1>4, <2>3, <3>2 DEF RoundsInv, Clocks, Clock
      <3> QED
        BY <3>1, <3>2
    <2> QED
      BY <1>1, <2>3 DEF Clocks, Clock, Begin, Running
  <1>10. Packets'
    <2>1. ASSUME NEW m \in network, m.from # LoginServer
          PROVE  SentInTime(m)' /\ m.at <= time
      <3>1. /\ SentInTime(m) /\ m.at <= time
            /\ m.from \in Peers /\ m.round \in Nat /\ m.round - 1 <= Round(m.from)
        <4>1. SentInTime(m) /\ m.at <= time
          BY <2>1 DEF RoundsInv, Packets
        <4> QED
          BY <2>1, <4>1, PacketFacts
      <3>2. m.round - 1 <= Round(m.from)'
        BY <1>2, <3>1, RoundType DEF RoundsInv
      <3> QED
        BY <1>1, <3>1, <3>2 DEF SentInTime, Begin
    <2>2. ASSUME NEW m, NEW q \in Receivers[p], m = Packed(q)
          PROVE  SentInTime(m)' /\ m.at <= time
      <3>1. /\ m.from = p /\ m.to = q /\ m.at = time /\ m.round = r + 2
            /\ m.round - 1 = r + 1 /\ m.round >= 1
        BY <1>2, <2>2
      <3>2. /\ init_time[p] + Begin(m.round - 1) <= m.at
            /\ m.at < init_time[p] + Begin(m.round - 1) + kDelta
            /\ m.round - 1 <= Round(p)'
        BY <1>2, <1>3, <3>1
      <3>3. SentInTime(m)'
        BY <1>1, <3>1, <3>2 DEF SentInTime, Begin
      <3> QED
        BY <1>3, <3>1, <3>3, Lengths
    <2> QED
      BY <1>1, <1>2, <2>1, <2>2 DEF Packets
  <1> HIDE DEF Packed, Packet
  <1>11. Buffers'
    <2>1. \A q \in Peers : Round(q) <= Round(q)' /\ Round(q) \in Int
      BY <1>2, RoundType DEF RoundsInv
    <2>2. ASSUME NEW q \in Peers, NEW k \in 0 .. 1, NEW m \in in'[q][k]
          PROVE  Buffered(q, k, m)'
      <3>1. PICK j \in 0 .. 1 : m \in in[q][j] /\ Round(q) + j = Round(q)' + k
        <4>1. CASE q = p
          <5>1. k = 0 /\ m \in in[p][1]
            BY <1>2, <2>2, <4>1
          <5> QED
            BY <1>2, <4>1, <5>1
        <4>2. CASE q # p
          BY <1>2, <2>2, <4>2
        <4> QED
          BY <4>1, <4>2
      <3>2. Buffered(q, j, m) /\ m.from \in Peers /\ m.round \in Nat
        <4>1. in \in [Peers -> [0 .. 1 -> SUBSET Packet]]
          BY DEF RoundsInv, Types, Packet
        <4>2. m \in Packet
          BY <3>1, <4>1
        <4>3. Buffered(q, j, m)
          BY <3>1 DEF RoundsInv, Buffers
        <4> QED
          BY <4>2, <4>3 DEF Packet
      <3>3. /\ m.to = q /\ q \in Receivers[m.from] /\ m.round = Round(q) + j
            /\ m.round >= 1 /\ m.round - 1 <= Round(m.from)
        BY <3>2 DEF Buffered
      <3>4. m.round = Round(q)' + k
        BY <3>1, <3>3
      <3>5. m.round - 1 <= Round(m.from)'
        <4>1. Round(m.from) <= Round(m.from)' /\ Round(m.from) \in Int /\ Round(m.from)' \in Int
          BY <1>2, <3>2, RoundType DEF RoundsInv
        <4> QED
          BY <3>2, <3>3, <4>1
      <3> QED
        BY <3>3, <3>4, <3>5 DEF Buffered
    <2> QED
      BY <2>2 DEF Buffers
  <1> QED
    BY <1>6, <1>7, <1>8, <1>9, <1>10, <1>11 DEF RoundsInv

\* The rest of a turn either leaves the enclave alone or enters a round.
LEMMA TurnCases ==
  ASSUME RoundsInv, NEW p \in Peers, FinishTurn(p)
  PROVE  \/ /\ UNCHANGED <<crashed, enclaveVars, network>>
            /\ initialized[p] => \/ 2 * (time - start[p]) < kDelta /\ start' = start
                                 \/ /\ Clock(p) < Begin(Round(p) + 1)
                                    /\ start' = [start EXCEPT ![p] = time]
            /\ ~nm_initialized[p] => start' = start
         \/ /\ initialized[p]
            /\ Clock(p) >= Begin(Round(p) + 1) /\ EnterRound(p, Round(p) + 1)
            /\ UNCHANGED <<crashed, initialized, init_time>>
            /\ start' = [start EXCEPT ![p] = time]
  <1>1. time \in Nat /\ start[p] \in Nat /\ (initialized[p] => nm_initialized[p])
    BY PeerFacts
  <1>2. CASE nm_initialized[p] /\ DueForCall(p)
    <2>1. start' = [start EXCEPT ![p] = time] /\ traffic_out(p)
      BY <1>2 DEF FinishTurn
    <2>2. Running(p)
      BY DEF FinishTurn
    <2>3. CASE initialized[p]
      BY <1>2, <2>1, <2>2, <2>3, CallRounds
    <2>4. CASE ~initialized[p]
      BY <1>2, <2>1, <2>4 DEF traffic_out
    <2> QED
      BY <2>3, <2>4
  <1>3. CASE ~(nm_initialized[p] /\ DueForCall(p))
    <2>1. UNCHANGED <<start, crashed, enclaveVars, network>>
      BY <1>3 DEF FinishTurn
    <2>2. initialized[p] => 2 * (time - start[p]) < kDelta
      BY <1>1, <1>3, Lengths DEF DueForCall
    <2> QED
      BY <2>1, <2>2
  <1> QED
    BY <1>2, <1>3

\* The end of a turn, with its round if one is due, keeps the invariant.
LEMMA FinishTurnRounds ==
  ASSUME RoundsInv, NEW p \in Peers, FinishTurn(p)
  PROVE  RoundsInv'
  BY TurnCases, IdleTurnRounds, EnterTurnRounds

\* Every step preserves the invariant.
LEMMA StepRounds ==
  ASSUME LoopKeepsUp, RoundsInv, [Next]_vars
  PROVE  RoundsInv'
  <1>1. CASE Tick
    BY <1>1, TickRounds
  <1>2. ASSUME NEW m \in network, Receive(m.to, m) PROVE RoundsInv'
    BY <1>2, ReceiveInitRounds, ReceiveRounds
  <1>3. ASSUME NEW p \in Peers, Timeout(p) PROVE RoundsInv'
    BY <1>3, IdleRounds DEF Timeout
  <1>4. ASSUME NEW p \in Peers, FinishTurn(p) PROVE RoundsInv'
    BY <1>4, FinishTurnRounds
  <1>5. CASE UNCHANGED vars
    <2>1. UNCHANGED <<time, crashed, nm_initialized, initialized, init_time, cur_round, in, used,
                     waiting, checked, start, network>>
      BY <1>5 DEF vars, enclaveVars, hostVars
    <2>2. Types' /\ Setup'
      BY <2>1 DEF RoundsInv, Types, Setup
    <2>3. Loops' /\ Clocks'
      BY <2>1 DEF RoundsInv, Loops, Clocks, Clock, Round, Running
    <2>4. Packets' /\ Buffers'
      BY <2>1 DEF RoundsInv, Packets, SentInTime, Buffers, Buffered, Round
    <2> QED
      BY <2>2, <2>3, <2>4 DEF RoundsInv
  <1> QED
    BY <1>1, <1>2, <1>3, <1>4, <1>5 DEF Next

-----------------------------------------------------------------------------
(* Theorems                                                                *)

\* The invariant above holds in every reachable state, for any number of peers,
\* whatever the delays of packets and the skew of the clocks.
THEOREM RoundsInvariant ==
  ASSUME LoopKeepsUp
  PROVE  Spec => []RoundsInv
  <1>1. RoundsInv /\ [Next]_vars => RoundsInv'
    BY StepRounds
  <1> QED
    BY <1>1, InitRounds, PTL DEF Spec

\* Every state has the types of Rounds: in particular the rounds of the peers
\* stay words (client_enclave.h:58).
THEOREM RoundsTypeCorrect ==
  ASSUME LoopKeepsUp
  PROVE  Spec => []TypeOK
  <1>1. RoundsInv => TypeOK
    <2> SUFFICES ASSUME RoundsInv PROVE TypeOK
      OBVIOUS
    <2>1. ASSUME NEW m \in network PROVE m.to \in Peers /\ m.round \in Nat /\ m.at \in 0 .. time
      <3>1. m.to \in Peers /\ m.round \in Nat /\ m.at \in Nat
        BY DEF RoundsInv, Types
      <3>2. CASE m.from = LoginServer
        <4>1. m.at = 0 /\ time \in Nat
          BY <3>1, <3>2, PeerFacts DEF RoundsInv, Setup
        <4> QED
          BY <3>1, <4>1
      <3>3. CASE m.from # LoginServer
        BY <3>1, <3>3, PacketFacts, PeerFacts
      <3> QED
        BY <3>2, <3>3
    <2> QED
      BY <2>1 DEF RoundsInv, Types, TypeOK
  <1> QED
    BY <1>1, RoundsInvariant, PTL

\* No peer misses the first quarter of a round: the assert of
\* client_enclave.cpp:212 holds as long as a turn of the host loop and half a
\* quarter fit into a quarter.
THEOREM NoRoundIsMissed ==
  ASSUME LoopKeepsUp
  PROVE  Spec => []NoRoundMissed
  <1>1. RoundsInv => NoRoundMissed
    BY DEF RoundsInv, Loops, Running, NoRoundMissed
  <1> QED
    BY <1>1, RoundsInvariant, PTL

\* A packet that takes longer than the skew of the clocks and a quarter of a
\* round, and less than two rounds without as much, is neither fatal at the
\* assert of client_enclave.cpp:527 nor dropped as too late, in any execution:
\* all other packets may be as fast or slow as they like.
THEOREM TimelyPacketsKept ==
  ASSUME LoopKeepsUp
  PROVE  Spec => TimelyKept
  <1> DEFINE Kept ==
        \A m \in network \ network' :
          m.from # LoginServer /\ initialized[m.to] /\ Timely(m) =>
            /\ crashed'[m.to] = "no"
            /\ m \in in'[m.to][0] \cup in'[m.to][1]
  <1>1. RoundsInv /\ [Next]_vars => [Kept]_vars
    <2> SUFFICES ASSUME RoundsInv, Next, NEW m \in network \ network',
                        m.from # LoginServer, initialized[m.to], Timely(m)
                 PROVE  /\ crashed'[m.to] = "no"
                        /\ m \in in'[m.to][0] \cup in'[m.to][1]
      OBVIOUS
    <2>1. CASE Tick
      BY <2>1 DEF Tick
    <2>2. ASSUME NEW n \in network, Receive(n.to, n)
          PROVE  /\ crashed'[m.to] = "no"
                 /\ m \in in'[m.to][0] \cup in'[m.to][1]
      <3>1. n = m /\ Running(m.to) /\ m.to \in Peers
        BY <2>2, PacketFacts DEF Receive
      <3>2. /\ m.round \in Nat /\ m.round >= 1
            /\ Round(m.to) <= m.round /\ Round(m.to) >= m.round - 1
            /\ cur_round[m.to] = Round(m.to) /\ Round(m.to) \in Int
        <4>1. m.round \in Nat /\ m.round >= 1
          BY PacketFacts
        <4>2. Round(m.to) <= m.round /\ Round(m.to) >= m.round - 1 /\ Round(m.to) \in Int
          BY <3>1, PacketWindow, RoundType DEF RoundsInv
        <4>3. cur_round[m.to] = Round(m.to)
          BY <3>1, <4>1, <4>2, RoundType DEF RoundsInv
        <4> QED
          BY <4>1, <4>2, <4>3
      <3>3. /\ in' = [in EXCEPT ![m.to][m.round - cur_round[m.to]] = @ \cup {m}]
            /\ m.round - cur_round[m.to] \in 0 .. 1 /\ UNCHANGED crashed
        <4>1. Receive(m.to, m)
          BY <2>2, <3>1
        <4>2. ~(m.round < cur_round[m.to]) /\ ~(m.round >= cur_round[m.to] + 2)
          BY <3>2
        <4> QED
          BY <4>1, <4>2, TakeCases
      <3>4. m \in in'[m.to][m.round - cur_round[m.to]]
        BY <3>1, <3>3 DEF RoundsInv, Types
      <3> QED
        BY <3>1, <3>3, <3>4 DEF Running
    <2>3. ASSUME NEW p \in Peers, Timeout(p) PROVE FALSE
      BY <2>3 DEF Timeout
    <2>4. ASSUME NEW p \in Peers, FinishTurn(p) PROVE FALSE
      <3>1. network \subseteq network'
        BY <2>4, TurnCases DEF EnterRound
      <3> QED
        BY <3>1
    <2> QED
      BY <2>1, <2>2, <2>3, <2>4 DEF Next
  <1>2. RoundsInv /\ [Next]_vars => [Kept]_vars
    BY <1>1
  <1> QED
    BY <1>2, RoundsInvariant, PTL DEF Spec, TimelyKept

\* The round a clock has reached is within the bound on the rounds.
LEMMA WithinLastRound ==
  ASSUME RoundsInv, NEW p \in Peers, initialized[p], NEW l \in Nat, Clock(p) >= Begin(l)
  PROVE  l <= LastRound
  <1> DEFINE top == (MaxTime - 1) \div RoundLength
  <1>1. l \in Nat /\ Clock(p) \in Nat /\ Clock(p) <= MaxTime - 1 /\ MaxTime - 1 \in Nat
    BY RoundType, ClockType, Lengths DEF RoundsInv
  <1>2. top \in Int /\ MaxTime - 1 < Begin(top + 1)
    BY <1>1, Lengths DEF Begin
  <1> HIDE DEF top
  <1>3. Begin(l) < Begin(top + 1)
    <2>1. Begin(l) \in Int /\ Begin(top + 1) \in Int
      BY <1>1, <1>2, BeginNext
    <2> QED
      BY <1>1, <1>2, <2>1
  <1>4. l < top + 1
    BY <1>1, <1>2, <1>3, BeginOrder
  <1>5. l <= top
    BY <1>1, <1>2, <1>4
  <1> QED
    BY <1>5 DEF LastRound, top

\* Entering a round is an entering of the mailbox.
LEMMA EnterMaps ==
  ASSUME RoundsInv, NEW p \in Peers, initialized[p],
         Clock(p) >= Begin(Round(p) + 1), EnterRound(p, Round(p) + 1)
  PROVE  Mailbox!Enter(p)
  <1> DEFINE Arrived(q) == Sent(in[q][0] \cup in[q][1])
             now == {x \in Arrived(p) : x[2] = Round(p) - 1}
  <1>1. /\ Round(p)' = Round(p) + 1 /\ Round(p) + 1 \in Nat
        /\ used'[p] = in[p][0] /\ in'[p][0] = in[p][1] /\ in'[p][1] = {}
        /\ \A q \in Peers \ {p} : Round(q)' = Round(q) /\ used'[q] = used[q] /\ in'[q] = in[q]
    BY EnterFacts
  <1>2. Round(p) < LastRound
    <2>1. Round(p) \in Int /\ Round(p) + 1 <= LastRound /\ LastRound \in Int
      BY <1>1, WithinLastRound, RoundType, Lengths DEF RoundsInv, LastRound
    <2> QED
      BY <2>1
  <1>3. /\ \A m \in in[p][0] : m.round \in Nat /\ m.round - 1 = Round(p) - 1
        /\ \A m \in in[p][1] : m.round \in Nat /\ m.round - 1 # Round(p) - 1
    <2>1. /\ \A m \in in[p][0] : m.round = Round(p) + 0
          /\ \A m \in in[p][1] : m.round = Round(p) + 1
      BY DEF RoundsInv, Buffers, Buffered
    <2>2. \A m \in in[p][0] \cup in[p][1] : m.round \in Nat
      <3> DEFINE Packet == [from : Peers, to : Peers, round : Nat, at : Nat]
      <3>1. in \in [Peers -> [0 .. 1 -> SUBSET Packet]]
        BY DEF RoundsInv, Types
      <3>2. \A m \in Packet : m.round \in Nat
        OBVIOUS
      <3> HIDE DEF Packet
      <3> QED
        BY <3>1, <3>2
    <2> QED
      BY <2>1, <2>2, RoundType DEF RoundsInv
  <1>4. now = Sent(in[p][0]) /\ Arrived(p) \ now = Sent(in[p][1])
    <2>1. \A x : x \in Sent(in[p][0]) => x \in Arrived(p) /\ x[2] = Round(p) - 1
      BY <1>3 DEF Sent
    <2>2. \A x : x \in Sent(in[p][1]) => x \in Arrived(p) /\ x[2] # Round(p) - 1
      BY <1>3 DEF Sent
    <2>3. Arrived(p) = Sent(in[p][0]) \cup Sent(in[p][1])
      BY DEF Sent
    <2> DEFINE A == Arrived(p)
               A0 == Sent(in[p][0])
               A1 == Sent(in[p][1])
               r == Round(p) - 1
    <2>4. now = {x \in A : x[2] = r}
      OBVIOUS
    <2> HIDE DEF A, A0, A1, r, now
    <2>5. /\ \A x : x \in A0 => x \in A /\ x[2] = r
          /\ \A x : x \in A1 => x \in A /\ x[2] # r
          /\ A = A0 \cup A1
      BY <2>1, <2>2, <2>3 DEF A, A0, A1, r
    <2>6. now = A0 /\ A \ now = A1
      BY <2>4, <2>5
    <2> QED
      BY <2>6 DEF A, A0, A1
  <1>5. Sent(used'[p]) = now /\ Sent(in'[p][0] \cup in'[p][1]) = Arrived(p) \ now
    BY <1>1, <1>4
  <1> HIDE DEF now
  <1>6. [q \in Peers |-> Round(q)]' = [[q \in Peers |-> Round(q)] EXCEPT ![p] = Round(p) + 1]
    <2>1. \A q \in Peers : Round(q)' = IF q = p THEN Round(p) + 1 ELSE Round(q)
      BY <1>1
    <2> QED
      BY <2>1, Zenon
  <1>7. [q \in Peers |-> Sent(used'[q])] = [[q \in Peers |-> Sent(used[q])] EXCEPT ![p] = now]
    <2>1. \A q \in Peers : Sent(used'[q]) = IF q = p THEN now ELSE Sent(used[q])
      BY <1>1, <1>5
    <2> QED
      BY <2>1
  <1>8. [q \in Peers |-> Sent(in'[q][0] \cup in'[q][1])] =
          [[q \in Peers |-> Arrived(q)] EXCEPT ![p] = Arrived(p) \ now]
    <2>1. \A q \in Peers : Sent(in'[q][0] \cup in'[q][1]) =
                           IF q = p THEN Arrived(p) \ now ELSE Arrived(q)
      BY <1>1, <1>5
    <2> HIDE DEF Arrived
    <2> QED
      BY <2>1
  <1> QED
    BY <1>2, <1>6, <1>7, <1>8 DEF Mailbox!Enter, now, Sent

\* A packet that is buffered arrives in the mailbox.
LEMMA ArriveMaps ==
  ASSUME RoundsInv, NEW m \in network, m.from # LoginServer,
         NEW k \in 0 .. 1, m.round = Round(m.to) + k,
         in' = [in EXCEPT ![m.to][k] = @ \cup {m}],
         UNCHANGED <<cur_round, used>>
  PROVE  \E l \in 0 .. LastRound : Mailbox!Arrive(m.to, m.from, l)
  <1> DEFINE p == m.to
             q == m.from
             l == m.round - 1
             Arrived(r) == Sent(in[r][0] \cup in[r][1])
  <1>1. /\ p \in Peers /\ q \in Peers /\ p \in Receivers[q] /\ initialized[q]
        /\ m.round \in Nat /\ l \in Nat /\ l <= Round(q)
    BY PacketFacts
  <1>2. Round(q) \in Nat /\ l \in 0 .. Round(q) /\ Round(p) \in Int /\ l + 1 >= Round(p)
    BY <1>1, RoundType DEF RoundsInv
  <1>3. l \in 0 .. LastRound
    <2>1. Clock(q) >= Begin(Round(q))
      <3>1. Begin(Round(q)) <= Clock(q)
        BY <1>1 DEF RoundsInv, Clocks
      <3>2. Clock(q) \in Nat /\ Begin(Round(q)) \in Int
        BY <1>1, <1>2, ClockType, BeginNext
      <3> QED
        BY <3>1, <3>2
    <2>2. Round(q) <= LastRound /\ LastRound \in Int
      BY <1>1, <1>2, <2>1, WithinLastRound, Lengths DEF LastRound
    <2> QED
      BY <1>1, <1>2, <2>2
  <1>4. /\ \A r \in Peers \ {p} : in'[r] = in[r]
        /\ in'[p][0] \cup in'[p][1] = (in[p][0] \cup in[p][1]) \cup {m}
    <2>1. /\ \A r \in Peers \ {p} : in'[r] = in[r]
          /\ in'[p][k] = in[p][k] \cup {m}
          /\ \A j \in 0 .. 1 : j # k => in'[p][j] = in[p][j]
      BY <1>1 DEF RoundsInv, Types
    <2> HIDE DEF p
    <2>2. CASE k = 0
      BY <2>1, <2>2
    <2>3. CASE k = 1
      BY <2>1, <2>3
    <2> QED
      BY <2>2, <2>3
  <1>5. [r \in Peers |-> Sent(in'[r][0] \cup in'[r][1])] =
          [[r \in Peers |-> Arrived(r)] EXCEPT ![p] = Arrived(p) \cup {<<q, l>>}]
    <2>1. Sent(in'[p][0] \cup in'[p][1]) = Arrived(p) \cup {<<q, l>>}
      BY <1>4 DEF Sent
    <2>2. \A r \in Peers : Sent(in'[r][0] \cup in'[r][1]) =
                           IF r = p THEN Arrived(p) \cup {<<q, l>>} ELSE Arrived(r)
      <3> SUFFICES ASSUME NEW r \in Peers, r # p
                   PROVE  Sent(in'[r][0] \cup in'[r][1]) = Arrived(r)
        BY <2>1
      <3>1. in'[r] = in[r]
        BY <1>4
      <3> QED
        BY <3>1
    <2> HIDE DEF Arrived, p, q, l
    <2> QED
      BY <2>2
  <1>6. \A r \in Peers : Round(r)' = Round(r)
    BY DEF Round
  <1> QED
    BY <1>1, <1>2, <1>3, <1>5, <1>6 DEF Mailbox!Arrive, Sent

\* Steps that change neither rounds nor buffers are stutters.
LEMMA MailboxStutter ==
  ASSUME UNCHANGED <<cur_round, in, used>>
  PROVE  UNCHANGED Mailbox!vars
  BY DEF Mailbox!vars, Round, Sent

\* The stamps and buffers of the peers are a mailbox of rounds: a packet that is
\* taken in is used two rounds after the one it was sent in, and no other is.
THEOREM RoundsImplementMailbox ==
  ASSUME LoopKeepsUp
  PROVE  Spec => UsedInTheirRound
  <1>1. Init => Mailbox!Init
    <2> SUFFICES ASSUME Init PROVE Mailbox!Init
      OBVIOUS
    <2>1. \A p \in Peers : /\ Round(p) = -1 /\ used[p] = {}
                           /\ in[p][0] = {} /\ in[p][1] = {}
      BY DEF Init, Round
    <2>2. \A p \in Peers : Sent(used[p]) = {} /\ Sent(in[p][0] \cup in[p][1]) = {}
      BY <2>1 DEF Sent
    <2> QED
      BY <2>1, <2>2 DEF Mailbox!Init
  <1>2. RoundsInv /\ [Next]_vars => [Mailbox!Next]_Mailbox!vars
    <2> SUFFICES ASSUME RoundsInv, [Next]_vars
                 PROVE  Mailbox!Next \/ UNCHANGED Mailbox!vars
      OBVIOUS
    <2>1. CASE Tick
      BY <2>1, MailboxStutter DEF Tick, enclaveVars
    <2>2. ASSUME NEW m \in network, Receive(m.to, m)
          PROVE  Mailbox!Next \/ UNCHANGED Mailbox!vars
      <3>1. CASE m.from = LoginServer /\ ~nm_initialized[m.to]
        BY <2>2, <3>1, MailboxStutter DEF Receive, received_msg_from_server
      <3>2. CASE nm_initialized[m.to] \/ m.from # LoginServer
        <4>1. CASE UNCHANGED enclaveVars
          BY <4>1, MailboxStutter DEF enclaveVars
        <4>2. CASE /\ m.from # LoginServer
                   /\ m.round - cur_round[m.to] \in 0 .. 1
                   /\ cur_round[m.to] = Round(m.to) /\ Round(m.to) \in Nat
                   /\ in' = [in EXCEPT ![m.to][m.round - cur_round[m.to]] = @ \cup {m}]
                   /\ UNCHANGED <<crashed, initialized, init_time, cur_round, used>>
          <5> DEFINE k == m.round - cur_round[m.to]
          <5>1. k \in 0 .. 1 /\ m.round = Round(m.to) + k
            BY <4>2, PacketFacts
          <5>2. in' = [in EXCEPT ![m.to][k] = @ \cup {m}]
            BY <4>2
          <5> HIDE DEF k
          <5>3. \E l \in 0 .. LastRound : Mailbox!Arrive(m.to, m.from, l)
            BY <4>2, <5>1, <5>2, ArriveMaps
          <5>4. m.to \in Peers /\ m.from \in Peers
            BY <4>2, PacketFacts
          <5> QED
            BY <5>3, <5>4 DEF Mailbox!Next
        <4> QED
          BY <2>2, <3>2, <4>1, <4>2, TakeCases
      <3> QED
        BY <3>1, <3>2
    <2>3. ASSUME NEW p \in Peers, Timeout(p) PROVE UNCHANGED Mailbox!vars
      BY <2>3, MailboxStutter DEF Timeout, enclaveVars
    <2>4. ASSUME NEW p \in Peers, FinishTurn(p)
          PROVE  Mailbox!Enter(p) \/ UNCHANGED Mailbox!vars
      <3>1. CASE UNCHANGED <<crashed, enclaveVars, network>>
        BY <3>1, MailboxStutter DEF enclaveVars
      <3>2. CASE /\ initialized[p]
                 /\ Clock(p) >= Begin(Round(p) + 1) /\ EnterRound(p, Round(p) + 1)
        BY <3>2, EnterMaps
      <3> QED
        BY <2>4, <3>1, <3>2, TurnCases
    <2>5. CASE UNCHANGED vars
      BY <2>5, MailboxStutter DEF vars, enclaveVars
    <2> QED
      BY <2>1, <2>2, <2>3, <2>4, <2>5 DEF Next, Mailbox!Next
  <1> QED
    BY <1>1, <1>2, RoundsInvariant, PTL DEF Spec, UsedInTheirRound, Mailbox!Spec
=============================================================================
