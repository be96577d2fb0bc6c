------------------------------ MODULE MCEnvelope ------------------------------
(***************************************************************************)
(* Small messages for module Envelope.                                     *)
(***************************************************************************)
EXTENDS Envelope

Uri(port) == [ip |-> <<127, 0, 0, 1>>, port |-> port]
a == [id |-> 0, uri |-> Uri(5001)]
b == [id |-> 1, uri |-> Uri(5002)]
c == [id |-> 2, uri |-> [ip |-> <<10, 0, 0, 7>>, port |-> 5001]]
MCPeers == {a, b, c}

Tables == {<<>>, <<a>>, <<c, b>>}
InitRoutes ==
  {<<>>} \union {0 :> t : t \in Tables} \union {(1 :> t) @@ (3 :> u) : t, u \in Tables}

MCInitMessages ==
  {[receiver_id |-> 2, num_total_nodes |-> 3, overlay_dimension |-> 1, onid_assoc |-> 1,
    onid_emul |-> 0, gamma_send |-> s, gamma_receive |-> r, gamma_route |-> g,
    sk_pseud |-> "k1", sk_enc |-> "k2", sk_routing |-> "k3"] :
     s \in Tables, r \in Tables, g \in InitRoutes}

RequestRoutes == {<<>>, (0 :> <<b>>) @@ (3 :> <<>>), 2 :> <<a, c>>}
MCRoutes == InitRoutes \union RequestRoutes

Requests ==
  {<<>>}
  \union {<<[t |-> "tEmulateRequestMsg", onid |-> 1, peer |-> [c EXCEPT !.id = 0],
             gamma_route |-> g, gamma_receive |-> <<>>]>> : g \in {<<>>, (0 :> <<b>>) @@ (3 :> <<>>)}}
  \union {<<[t |-> "tHandOverMsg", onid |-> 0, peer |-> b, gamma_route |-> 2 :> <<a, c>>,
             gamma_receive |-> <<c>>],
            [t |-> "tSelfIntroduceMsg", onid |-> 3, peer |-> c, gamma_route |-> <<>>,
             gamma_receive |-> <<>>]>>}

\* Opaque here, their layout is module Wire.
MCPlaintexts == {Opaque(3, "p")}
MCKeyNames == {"k1", "k2", "k3"}

Packets ==
  {[receiver |-> i, round |-> r, p |-> p, p_structure |-> s] :
     i \in MCPeers, r \in {2}, p \in MCPlaintexts, s \in Requests}

\* No call lists a peer twice: the pairs are made for the set of all receivers.
MCOutputs ==
  {<<>>} \union {<<p>> : p \in Packets}
  \union {<<p, q>> : p \in {o \in Packets : o.receiver = b}, q \in {o \in Packets : o.receiver = c}}
=============================================================================
