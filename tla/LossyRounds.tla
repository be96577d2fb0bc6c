------------------------------ MODULE LossyRounds ------------------------------
(***************************************************************************)
(* What the enclaves' buffers promise whatever clocks and network do: a    *)
(* mailbox with the rounds as its index.  A packet may be lost, but one    *)
(* that is taken in is used exactly two rounds after the one it was sent   *)
(* in, once, and nothing else is ever used.                                *)
(*                                                                         *)
(* There is no time, no stamp and no array of two buffers here.  Module    *)
(* Rounds implements this specification.                                   *)
(***************************************************************************)
EXTENDS Integers

CONSTANTS
  Peers,
  Receivers,    \* whom each peer sends a packet to in every round
  LastRound     \* bound on the rounds

VARIABLES
  round,        \* the round each peer is in; -1 before the first
  arrived,      \* whose packets of which rounds it has, and has not yet used
  heard         \* the same of those it used on entering its round

vars == <<round, arrived, heard>>

Init ==
  /\ round = [p \in Peers |-> -1]
  /\ arrived = [p \in Peers |-> {}]
  /\ heard = [p \in Peers |-> {}]

\* p takes in the packet that q sent to it on entering round l.
Arrive(p, q, l) ==
  /\ p \in Receivers[q]
  /\ l \in 0 .. round[q]
  /\ l + 1 >= round[p]
  /\ arrived' = [arrived EXCEPT ![p] = @ \cup {<<q, l>>}]
  /\ UNCHANGED <<round, heard>>

Enter(p) ==
  LET used == {x \in arrived[p] : x[2] = round[p] - 1}
  IN  /\ round[p] < LastRound
      /\ round' = [round EXCEPT ![p] = @ + 1]
      /\ heard' = [heard EXCEPT ![p] = used]
      /\ arrived' = [arrived EXCEPT ![p] = @ \ used]

Next ==
  \E p \in Peers :
    \/ Enter(p)
    \/ \E q \in Peers, l \in 0 .. LastRound : Arrive(p, q, l)

Spec == Init /\ [][Next]_vars
=============================================================================
