-------------------------------- MODULE Rounds --------------------------------
(***************************************************************************)
(* The rounds of several peers: each has a clock that starts with its own  *)
(* init message, and a host loop (Client::run, network_manager::MainLoop)  *)
(* that waits for packets and calls traffic_out from time to time.  What   *)
(* happens in a round is module ClientEnclave; here a round only moves the *)
(* buffers on and sends its packets.                                       *)
(*                                                                         *)
(* Time is explicit.  It passes in steps of a second, the resolution of    *)
(* the platform's clock, and not beyond the latest moment at which a loop  *)
(* has to be back or a packet has to be taken from its socket.             *)
(***************************************************************************)
EXTENDS Timing, FiniteSets

CONSTANTS
  Peers,
  Receivers,            \* whom each peer sends a packet to in every round
  HEARTBEAT_INTERVAL,   \* how long MainLoop waits for a packet
  MaxTurn,              \* longest turn of the host loop
  MinDelay, MaxDelay,   \* from the sending of a packet to its traffic_in
  MaxSkew,              \* between the first and the last init message
  MaxTime               \* bound on the time

LoginServer == "login server"

ASSUME RoundsAssumption ==
  /\ LoginServer \notin Peers
  /\ Receivers \in [Peers -> SUBSET Peers]
  /\ HEARTBEAT_INTERVAL \in Nat \ {0}
  /\ MaxTurn \in Nat /\ HEARTBEAT_INTERVAL <= MaxTurn
  /\ MinDelay \in Nat /\ MaxDelay \in Nat /\ MinDelay <= MaxDelay
  /\ MaxSkew \in Nat
  /\ MaxTime \in Nat
  /\ MaxTime + 2 < Word

VARIABLES
  time,             \* seconds since the clients were started
  crashed,          \* per peer "no", or the assert that ended it
  nm_initialized,   \* network_manager::initialized
  initialized,      \* ClientEnclave::initialized_
  init_time,        \* when that happened
  cur_round,
  in,               \* the packets buffered for this and for the next round
  used,             \* the packets the current round was entered with
  waiting,          \* whether the peer is in MainLoop or behind it
  checked,          \* when its loop last compared "start" with the time
  start,            \* when it last called traffic_out
  network           \* packets under way or in the receiver's socket

enclaveVars == <<initialized, init_time, cur_round, in, used>>
hostVars == <<nm_initialized, waiting, checked, start>>
vars == <<time, crashed, enclaveVars, hostVars, network>>

Running(p) == crashed[p] = "no"
-----------------------------------------------------------------------------
\* The init messages are sent at about the same time, a second or more after
\* the last client has joined.
Earliest(m) == IF m.from = LoginServer THEN m.at + 1 ELSE m.at + MinDelay
Latest(m) == IF m.from = LoginServer THEN m.at + 1 + MaxSkew ELSE m.at + MaxDelay

Init ==
  /\ time = 0
  /\ crashed = [p \in Peers |-> "no"]
  /\ nm_initialized = [p \in Peers |-> FALSE]
  /\ initialized = [p \in Peers |-> FALSE]
  /\ init_time = [p \in Peers |-> 0]
  /\ cur_round = [p \in Peers |-> Word - 1]
  /\ in = [p \in Peers |-> [k \in 0 .. 1 |-> {}]]
  /\ used = [p \in Peers |-> {}]
  /\ waiting = [p \in Peers |-> TRUE]
  /\ checked = [p \in Peers |-> 0]
  /\ start = [p \in Peers |-> 0]
  /\ network = {[from |-> LoginServer, to |-> p, round |-> 0, at |-> 0] : p \in Peers}

\* Turns, apart from waiting in MainLoop, take no time of their own: how long
\* one really takes is part of MaxTurn.
Tick ==
  /\ time < MaxTime
  /\ \A p \in Peers : Running(p) => waiting[p] /\ time < checked[p] + MaxTurn
  /\ \A m \in network : Running(m.to) => time < Latest(m)
  /\ time' = time + 1
  /\ UNCHANGED <<crashed, enclaveVars, hostVars, network>>
-----------------------------------------------------------------------------
(* The enclave                                                             *)

received_msg_from_server(p, m) ==
  /\ IF m.from = LoginServer
     THEN /\ initialized' = [initialized EXCEPT ![p] = TRUE]
          /\ init_time' = [init_time EXCEPT ![p] = time]
     ELSE UNCHANGED <<initialized, init_time>>
  /\ UNCHANGED <<crashed, cur_round, in, used>>

\* Mutant: "current or next" has room for one round only.
traffic_in_without_next(p, m) ==
  \/ /\ ~initialized[p] \/ m.round < cur_round[p]
     /\ UNCHANGED <<crashed, enclaveVars>>
  \/ /\ initialized[p]
     /\ m.round >= cur_round[p] + 1
     /\ crashed' = [crashed EXCEPT ![p] = "cur_or_next < 2"]
     /\ UNCHANGED enclaveVars
  \/ /\ initialized[p]
     /\ m.round = cur_round[p]
     /\ in' = [in EXCEPT ![p][0] = @ \cup {m}]
     /\ UNCHANGED <<crashed, initialized, init_time, cur_round, used>>

\* A packet of a round that is over is dropped, one of a round that is too
\* far ahead ends the enclave.
traffic_in(p, m) ==
  \/ /\ ~initialized[p] \/ m.round < cur_round[p]
     /\ UNCHANGED <<crashed, enclaveVars>>
  \/ /\ initialized[p]
     /\ m.round >= cur_round[p] + 2
     /\ crashed' = [crashed EXCEPT ![p] = "cur_or_next < 2"]
     /\ UNCHANGED enclaveVars
  \/ /\ initialized[p]
     /\ m.round - cur_round[p] \in 0 .. 1
     /\ in' = [in EXCEPT ![p][m.round - cur_round[p]] = @ \cup {m}]
     /\ UNCHANGED <<crashed, initialized, init_time, cur_round, used>>

subround(p) == calculate_subround_from_t(time - init_time[p])

\* Mutant: the packets are stamped with the round before.
EnterRoundStale(p, l) ==
  /\ cur_round' = [cur_round EXCEPT ![p] = l]
  /\ used' = [used EXCEPT ![p] = in[p][0]]
  /\ in' = [in EXCEPT ![p] = [k \in 0 .. 1 |-> IF k = 0 THEN in[p][1] ELSE {}]]
  /\ network' = network \cup
       {[from |-> p, to |-> q, round |-> l - 1, at |-> time] : q \in Receivers[p]}

\* Mutant: the buffers are shifted before in[0] is used.
EnterRoundShifted(p, l) ==
  /\ cur_round' = [cur_round EXCEPT ![p] = l]
  /\ used' = [used EXCEPT ![p] = in[p][1]]
  /\ in' = [in EXCEPT ![p] = [k \in 0 .. 1 |-> IF k = 0 THEN in[p][1] ELSE {}]]
  /\ network' = network \cup
       {[from |-> p, to |-> q, round |-> l + 1, at |-> time] : q \in Receivers[p]}

\* in[0] is used and in[1] takes its place; the packets are stamped with the
\* next round.
EnterRound(p, l) ==
  /\ cur_round' = [cur_round EXCEPT ![p] = l]
  /\ used' = [used EXCEPT ![p] = in[p][0]]
  /\ in' = [in EXCEPT ![p] = [k \in 0 .. 1 |-> IF k = 0 THEN in[p][1] ELSE {}]]
  /\ network' = network \cup
       {[from |-> p, to |-> q, round |-> l + 1, at |-> time] : q \in Receivers[p]}

traffic_out(p) ==
  LET l == subround(p) \div 4
  IN  \/ /\ ~initialized[p] \/ subround(p) % 4 # 0 \/ l = cur_round[p]
         /\ UNCHANGED <<crashed, enclaveVars, network>>
      \/ /\ initialized[p]
         /\ subround(p) % 4 = 0
         /\ l # cur_round[p]
         /\ cur_round[p] # WSub(l, 1)
         /\ crashed' = [crashed EXCEPT ![p] = "cur_round_ == (subround / 4) - 1"]
         /\ UNCHANGED <<enclaveVars, network>>
      \/ /\ initialized[p]
         /\ subround(p) % 4 = 0
         /\ l # cur_round[p]
         /\ cur_round[p] = WSub(l, 1)
         /\ EnterRound(p, l)
         /\ UNCHANGED <<crashed, initialized, init_time>>
-----------------------------------------------------------------------------
(* The host loop                                                           *)

\* MainLoop returns with a packet: the first one goes to the entry point for
\* the server's message, whoever sent it.
Receive(p, m) ==
  /\ Running(p)
  /\ waiting[p]
  /\ m.to = p
  /\ time >= Earliest(m)
  /\ network' = network \ {m}
  /\ IF nm_initialized[p] THEN traffic_in(p, m) ELSE received_msg_from_server(p, m)
  /\ nm_initialized' = [nm_initialized EXCEPT ![p] = TRUE]
  /\ waiting' = [waiting EXCEPT ![p] = FALSE]
  /\ UNCHANGED <<time, checked, start>>

\* MainLoop returns without one.
Timeout(p) ==
  /\ Running(p)
  /\ waiting[p]
  /\ time >= checked[p] + HEARTBEAT_INTERVAL
  /\ waiting' = [waiting EXCEPT ![p] = FALSE]
  /\ UNCHANGED <<time, crashed, enclaveVars, nm_initialized, checked, start, network>>

\* Mutant: at least a whole quarter lies between two calls of traffic_out.
DueEachQuarter(p) == time - start[p] > kDelta

\* time_diff.count() >= kDelta / 2.0
DueForCall(p) == 2 * (time - start[p]) >= kDelta

\* The rest of the turn.  The call counts as made even if it did nothing.
FinishTurn(p) ==
  /\ Running(p)
  /\ ~waiting[p]
  /\ waiting' = [waiting EXCEPT ![p] = TRUE]
  /\ checked' = [checked EXCEPT ![p] = time]
  /\ IF nm_initialized[p] /\ DueForCall(p)
     THEN /\ start' = [start EXCEPT ![p] = time]
          /\ traffic_out(p)
     ELSE UNCHANGED <<start, crashed, enclaveVars, network>>
  /\ UNCHANGED <<time, nm_initialized>>

Next ==
  \/ Tick
  \/ \E m \in network : Receive(m.to, m)
  \/ \E p \in Peers : Timeout(p)
  \/ \E p \in Peers : FinishTurn(p)

\* Time passes, and the loops run for ever.
Fairness ==
  /\ WF_vars(Tick)
  /\ \A p \in Peers : WF_vars(Timeout(p)) /\ WF_vars(FinishTurn(p))
  /\ WF_vars(\E m \in network : Receive(m.to, m))

Spec == Init /\ [][Next]_vars /\ Fairness
=============================================================================
