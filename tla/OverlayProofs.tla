---------------------------- MODULE OverlayProofs ----------------------------
(***************************************************************************)
(* What becomes of the overlay, for every dimension, every number of peers *)
(* and every assignment of the login server.                               *)
(*                                                                         *)
(* The argument: what a peer prepares for its next quorum is filled by     *)
(* structure messages only, and structure messages are sent to peers of    *)
(* tables only.  Before round 1 nothing is prepared and nothing is sent;   *)
(* round 1 puts the empty preparations into the tables, and with empty     *)
(* tables nothing is ever sent.                                            *)
(***************************************************************************)
EXTENDS Overlay, DataLemmas

Fields ==
  {"onid_emul", "onid_emul_prev", "onid_emul_new", "gamma_agree", "gamma_send",
   "gamma_receive", "gamma_route", "gamma_agree_prev", "gamma_send_new",
   "gamma_receive_new", "gamma_route_new", "gamma_route_succ", "gamma_route_prev", "own_id"}

IsScheme(s) == s = [f \in Fields |-> s[f]]

Unlisted(map) == \A o \in DOMAIN map : map[o] = {}

\* Nothing is prepared for the next quorum, and no earlier one is remembered.
Unprepared(s) ==
  /\ IsScheme(s)
  /\ s.gamma_send_new = {} /\ s.gamma_receive_new = {}
  /\ Unlisted(s.gamma_route_new) /\ Unlisted(s.gamma_route_succ)
  /\ Unlisted(s.gamma_agree_prev) /\ Unlisted(s.gamma_route_prev)

\* The tables in use are empty.
Bare(s) == s.gamma_send = {} /\ s.gamma_agree = {} /\ Unlisted(s.gamma_route)

SameMap(a, b) == DOMAIN b = DOMAIN a /\ \A o \in DOMAIN a : b[o] = a[o]

\* The tables that a round before the first reconfiguration uses
SameTables(s, t) ==
  /\ t.onid_emul = s.onid_emul
  /\ t.gamma_agree = s.gamma_agree
  /\ t.gamma_send = s.gamma_send
  /\ t.gamma_receive = s.gamma_receive
  /\ SameMap(s.gamma_route, t.gamma_route)
-----------------------------------------------------------------------------
(* Maps                                                                    *)

\* A map that lists nobody has nobody at any quorum.
LEMMA AtUnlisted ==
  ASSUME NEW map, Unlisted(map), NEW onid
  PROVE  At(map, onid) = {}
BY DEF At, Unlisted

\* Adding nobody to such a map lists nobody.
LEMMA AddAtUnlisted ==
  ASSUME NEW map, Unlisted(map), NEW onid
  PROVE  Unlisted(AddAt(map, onid, {}))
BY DEF At, Unlisted, AddAt

\* The empty map of a request lists nobody.
LEMMA NoRouteUnlisted == Unlisted(NoRoute)
BY DEF Unlisted, NoRoute

\* There are no peers to take from such a map.
LEMMA ListedUnlisted ==
  ASSUME NEW map, Unlisted(map)
  PROVE  Listed(map) = {}
BY DEF Unlisted, Listed

\* Merging such a map in changes no table.
LEMMA MergeUnlisted ==
  ASSUME NEW map, NEW other, Unlisted(other)
  PROVE  SameMap(map, Merge(map, other))
<1>1. {p \in DOMAIN other : other[p] # {}} = {}
  BY DEF Unlisted
<1>2. \A o : At(other, o) = {}
  BY AtUnlisted
<1> QED
  BY <1>1, <1>2 DEF Merge, At, SameMap
-----------------------------------------------------------------------------
(* Phases                                                                  *)

\* Rounds 0 and 1 have phases 0 and 1; the phases of the handover are never met.
LEMMA Phases ==
  /\ Phase(0) = 0 /\ Phase(1) = 1
  /\ \A l \in Nat : Phase(l) # calculate_agreement_time(Dimension) + 1
  /\ \A l \in Nat : Phase(l) # Dimension + 3
  /\ Dimension >= 2 => \A l \in Nat : Phase(l) # Dimension + 2
<1> DEFINE half == reconfiguration_time \div 2
<1>1. half \in Nat /\ half >= 3 /\ half <= Dimension + 3
  BY DimensionAssumption DEF reconfiguration_time
<1>2. Dimension >= 2 => half <= Dimension + 2
  BY DimensionAssumption DEF reconfiguration_time
<1>3. \A l : Phase(l) = l % half
  BY DEF Phase
<1> HIDE DEF half
<1>4. \A l \in Nat : l % half \in 0 .. (half - 1)
  BY <1>1
<1>5. 0 % half = 0 /\ 1 % half = 1
  BY <1>1
<1> QED
  BY <1>1, <1>2, <1>3, <1>4, <1>5, DimensionAssumption DEF calculate_agreement_time
-----------------------------------------------------------------------------
(* The steps of update()                                                   *)

\* A reconfiguration for which nothing is prepared empties the tables.
LEMMA ReconfigureBare ==
  ASSUME NEW s, NEW random, Unprepared(s)
  PROVE  LET t == Reconfigure(s, random)
         IN  Unprepared(t) /\ Bare(t) /\ t.gamma_receive = s.gamma_receive
<1> DEFINE t == Reconfigure(s, random)
<1> USE DEF Unprepared
<1>1. At(s.gamma_route_succ, s.onid_emul) = {} /\ At(s.gamma_route_new, s.onid_emul_new) = {}
  BY AtUnlisted
<1>2. Unlisted(AddAt(s.gamma_route_new, s.onid_emul_new, {}))
  BY AddAtUnlisted
<1>3. t = [s EXCEPT
        !.onid_emul_prev   = s.onid_emul,
        !.onid_emul        = s.onid_emul_new,
        !.gamma_agree      = {},
        !.gamma_send       = {},
        !.gamma_route      = AddAt(s.gamma_route_new, s.onid_emul_new, {}),
        !.onid_emul_new    = random,
        !.gamma_send_new   = {},
        !.gamma_route_new  = NoRoute,
        !.gamma_agree_prev = @,
        !.gamma_route_prev = NoRoute,
        !.gamma_route_succ = NoRoute]
  BY <1>1 DEF Reconfigure
<1> HIDE DEF t
<1>4. DOMAIN s = Fields
  BY DEF IsScheme
<1>5. IsScheme(t)
  BY <1>3, <1>4 DEF IsScheme
<1>6. /\ t.gamma_agree = {} /\ t.gamma_send = {}
      /\ t.gamma_route = AddAt(s.gamma_route_new, s.onid_emul_new, {})
      /\ t.gamma_send_new = {} /\ t.gamma_route_new = NoRoute
      /\ t.gamma_route_prev = NoRoute /\ t.gamma_route_succ = NoRoute
      /\ t.gamma_agree_prev = s.gamma_agree_prev
      /\ t.gamma_receive = s.gamma_receive
      /\ t.gamma_receive_new = s.gamma_receive_new
  BY <1>3, <1>4 DEF Fields
<1>7. Unprepared(t) /\ Bare(t)
  BY <1>2, <1>5, <1>6, NoRouteUnlisted DEF Bare
<1> QED
  BY <1>6, <1>7 DEF t

\* Whoever has empty tables has nobody to introduce itself to.
LEMMA AfterReconfigurationBare ==
  ASSUME NEW s, Unprepared(s), Bare(s)
  PROVE  LET t == AfterReconfiguration(s)
         IN  Unprepared(t) /\ Bare(t) /\ t.gamma_receive = s.gamma_receive
<1> DEFINE t == AfterReconfiguration(s)
<1> USE DEF Unprepared, Bare
<1>1. At(s.gamma_route, s.onid_emul) = {}
  BY AtUnlisted
<1>2. Unlisted(AddAt(s.gamma_route, s.onid_emul, {}))
  BY AddAtUnlisted
<1>3. t = [s EXCEPT !.gamma_receive_new = {},
                    !.gamma_route = AddAt(s.gamma_route, s.onid_emul, {}),
                    !.gamma_route_prev = @]
  BY <1>1 DEF AfterReconfiguration
<1> HIDE DEF t
<1>4. DOMAIN s = Fields
  BY DEF IsScheme
<1>5. IsScheme(t)
  BY <1>3, <1>4 DEF IsScheme
<1>6. /\ t.gamma_route = AddAt(s.gamma_route, s.onid_emul, {})
      /\ t.gamma_receive_new = {} /\ t.gamma_route_prev = s.gamma_route_prev
      /\ t.gamma_agree = s.gamma_agree /\ t.gamma_send = s.gamma_send
      /\ t.gamma_send_new = s.gamma_send_new /\ t.gamma_route_new = s.gamma_route_new
      /\ t.gamma_route_succ = s.gamma_route_succ
      /\ t.gamma_agree_prev = s.gamma_agree_prev
      /\ t.gamma_receive = s.gamma_receive
  BY <1>3, <1>4 DEF Fields
<1>7. Unprepared(t) /\ Bare(t)
  BY <1>2, <1>5, <1>6
<1> QED
  BY <1>6, <1>7 DEF t

\* Handling no message changes nothing that matters.
LEMMA HandleNothing ==
  ASSUME NEW s, Unprepared(s)
  PROVE  LET t == HandleMessages(s, {})
         IN  Unprepared(t) /\ SameTables(s, t)
<1> DEFINE t == HandleMessages(s, {})
<1> USE DEF Unprepared
<1>1. \A kind : OfType({}, kind) = {}
  BY DEF OfType
<1>2. DOMAIN s = Fields
  BY DEF IsScheme
<1> DEFINE received   == OfType({}, "tEmulateRequestReceivedMsg")
           handovers  == OfType({}, "tHandOverMsg")
           introduced == OfType({}, "tSelfIntroduceMsg")
           succ == [o \in DOMAIN s.gamma_route_succ \cup {x.onid : x \in received} |->
                      At(s.gamma_route_succ, o)
                        \cup {x.peer : x \in {y \in received : y.onid = o}}]
           new  == [o \in DOMAIN s.gamma_route_new
                        \cup UNION {{p \in DOMAIN x.gamma_route : x.gamma_route[p] # {}}
                                      : x \in handovers} |->
                      At(s.gamma_route_new, o) \cup UNION {At(x.gamma_route, o) : x \in handovers}]
           receive == s.gamma_receive_new \cup UNION {x.gamma_receive : x \in handovers}
           send    == s.gamma_send_new \cup {x.peer : x \in introduced}
<1>3. t = [s EXCEPT !.gamma_route_succ = succ, !.gamma_route_new = new,
                    !.gamma_receive_new = receive, !.gamma_send_new = send]
  BY DEF HandleMessages
<1>4. succ = [o \in DOMAIN s.gamma_route_succ |-> At(s.gamma_route_succ, o)]
  BY <1>1
<1>5. new = [o \in DOMAIN s.gamma_route_new |-> At(s.gamma_route_new, o)]
  BY <1>1
<1>6. receive = {} /\ send = {}
  BY <1>1
<1> HIDE DEF received, handovers, introduced, succ, new, receive, send
<1> HIDE DEF t
<1>7. IsScheme(t)
  BY <1>2, <1>3 DEF IsScheme
<1>8. /\ t.gamma_route_succ = succ /\ t.gamma_route_new = new
      /\ t.gamma_receive_new = receive /\ t.gamma_send_new = send
      /\ t.gamma_agree_prev = s.gamma_agree_prev
      /\ t.gamma_route_prev = s.gamma_route_prev
  BY <1>2, <1>3 DEF Fields
<1>9. SameTables(s, t)
  BY <1>2, <1>3 DEF Fields, SameTables, SameMap
<1>10. Unprepared(t)
  BY <1>7, <1>8, <1>4, <1>5, <1>6 DEF Unlisted, At
<1> QED
  BY <1>9, <1>10 DEF t

\* Steps (6) to (10): with nothing received and nothing prepared, nothing is
\* sent unless there is a request of the peer's own and somebody to route to.
LEMMA UpdateEnd ==
  ASSUME NEW s, NEW l \in Nat, NEW random,
         Unprepared(Reconfigured(s, l, random)),
         Phase(l) # 1 \/ Bare(Reconfigured(s, l, random))
  PROVE  LET t  == Reconfigured(s, l, random)
             ov == OverlayUpdate(s, l, {}, random, NoPeer)
         IN  /\ Unprepared(ov.st)
             /\ ov.s_prime = {}
             /\ ov.st.gamma_receive = t.gamma_receive
             /\ Phase(l) # 1 => SameTables(t, ov.st) /\ SameMap(t.gamma_route, ov.gamma_route)
             /\ Bare(t) => Bare(ov.st) /\ Unlisted(ov.gamma_route)
<1> DEFINE t      == Reconfigured(s, l, random)
           st6    == Handled(s, l, {}, random)
           st7    == Maintained(s, l, {}, random)
           queued == Queued(st7, l, {}, random)
           st9    == [st7 EXCEPT !.gamma_route =
                        [o \in DOMAIN st7.gamma_route \cup Hops(st7, queued) |->
                           At(st7.gamma_route, o)]]
           ov     == OverlayUpdate(s, l, {}, random, NoPeer)
<1>1. Unprepared(st6) /\ SameTables(t, st6)
  BY HandleNothing DEF Handled
<1>2. /\ Unprepared(st7) /\ SameTables(t, st7)
  <2>1. Unlisted(AddAt(st6.gamma_route_succ, st6.onid_emul, {}))
    BY <1>1, AddAtUnlisted DEF Unprepared
  <2>2. DOMAIN st6 = Fields
    BY <1>1 DEF Unprepared, IsScheme
  <2>3. CASE Phase(l) # Dimension + 2
    BY <1>1, <2>3 DEF Maintained
  <2>4. CASE Phase(l) = Dimension + 2
    <3>1. st7 = [st6 EXCEPT !.gamma_route_succ = AddAt(st6.gamma_route_succ, st6.onid_emul, {})]
      BY <2>4 DEF Maintained
    <3> HIDE DEF st6, st7
    <3>2. IsScheme(st7)
      BY <2>2, <3>1 DEF IsScheme
    <3>3. \A f \in Fields : f # "gamma_route_succ" => st7[f] = st6[f]
      BY <2>2, <3>1
    <3>4. st7.gamma_route_succ = AddAt(st6.gamma_route_succ, st6.onid_emul, {})
      BY <2>2, <3>1 DEF Fields
    <3> QED
      BY <1>1, <2>1, <3>2, <3>3, <3>4 DEF Unprepared, SameTables, Fields
  <2> QED
    BY <2>3, <2>4
<1>3. Phase(l) # 1 => queued = {}
  <2>1. Requested(st7, {}) = {}
    BY DEF Requested, OfType
  <2> QED
    BY <2>1 DEF Queued
<1>4. Bare(t) => Bare(st7)
  BY <1>2 DEF SameTables, SameMap, Bare, Unlisted
<1>5. Relayed(st7, queued) = {}
  <2>1. CASE Phase(l) # 1
    BY <1>3, <2>1 DEF Relayed
  <2>2. CASE Bare(t)
    <3>1. \A o : At(st7.gamma_route, o) = {}
      BY <1>4, <2>2, AtUnlisted DEF Bare
    <3> HIDE DEF st7, queued
    <3> QED
      BY <3>1 DEF Relayed
  <2> QED
    BY <2>1, <2>2
<1>6. HandedOver(st6, l, NoPeer) = {}
  <2>1. At(st6.gamma_route_succ, st6.onid_emul) = {}
    BY <1>1, AtUnlisted DEF Unprepared
  <2> HIDE DEF st6
  <2> QED
    BY <2>1 DEF HandedOver
<1>7. Introduced(st6, l) = {}
  BY Phases DEF Introduced
<1>8. /\ ov.st = st9
      /\ ov.s_prime = HandedOver(st6, l, NoPeer) \cup Introduced(st6, l) \cup Relayed(st7, queued)
      /\ ov.gamma_route = Merge(Merge(st9.gamma_route, st9.gamma_agree_prev), st9.gamma_route_prev)
  BY DEF OverlayUpdate
<1> DEFINE map == [o \in DOMAIN st7.gamma_route \cup Hops(st7, queued) |-> At(st7.gamma_route, o)]
<1>9. st9 = [st7 EXCEPT !.gamma_route = map]
  OBVIOUS
<1>10. Phase(l) # 1 => SameMap(st7.gamma_route, map)
  <2>1. SUFFICES ASSUME Phase(l) # 1 PROVE SameMap(st7.gamma_route, map)
    OBVIOUS
  <2>2. Hops(st7, queued) = {}
    BY <1>3, <2>1 DEF Hops
  <2> HIDE DEF st7, queued
  <2> QED
    BY <2>2 DEF SameMap, At
<1>11. Bare(t) => Unlisted(map)
  <2> HIDE DEF t, queued, st7
  <2> QED
    BY <1>4, AtUnlisted DEF Bare, Unlisted
<1> HIDE DEF t, st6, st7, queued, st9, ov, map
<1>12. /\ DOMAIN st9 = Fields
       /\ \A f \in Fields : f # "gamma_route" => st9[f] = st7[f]
       /\ st9.gamma_route = map
  BY <1>2, <1>9 DEF Unprepared, IsScheme, Fields
<1>13. Unprepared(st9)
  <2>1. IsScheme(st9)
    BY <1>2, <1>9 DEF Unprepared, IsScheme
  <2> QED
    BY <1>2, <1>12, <2>1 DEF Unprepared, Fields
<1>14. SameMap(st9.gamma_route, ov.gamma_route)
  <2>1. SameMap(st9.gamma_route, Merge(st9.gamma_route, st9.gamma_agree_prev))
    BY <1>13, MergeUnlisted DEF Unprepared
  <2>2. SameMap(Merge(st9.gamma_route, st9.gamma_agree_prev), ov.gamma_route)
    BY <1>8, <1>13, MergeUnlisted DEF Unprepared
  <2> QED
    BY <2>1, <2>2 DEF SameMap
<1>15. Phase(l) # 1 => SameTables(t, st9) /\ SameMap(t.gamma_route, ov.gamma_route)
  BY <1>2, <1>10, <1>12, <1>14 DEF SameTables, SameMap, Fields
<1>16. Bare(t) => Bare(st9) /\ Unlisted(ov.gamma_route)
  BY <1>4, <1>11, <1>12, <1>14 DEF Bare, SameMap, Unlisted, Fields
<1>17. st9.gamma_receive = t.gamma_receive
  BY <1>2, <1>12 DEF SameTables, Fields
<1> QED
  BY <1>5, <1>6, <1>7, <1>8, <1>13, <1>15, <1>16, <1>17 DEF t, ov

\* The update of round 0 leaves the tables of the init message as they are.
LEMMA FirstUpdate ==
  ASSUME NEW s, NEW random, Unprepared(s)
  PROVE  LET ov == OverlayUpdate(s, 0, {}, random, NoPeer)
         IN  /\ Unprepared(ov.st) /\ ov.s_prime = {}
             /\ SameTables(s, ov.st) /\ SameMap(s.gamma_route, ov.gamma_route)
<1>1. Phase(0) # 1 /\ Phase(0) # 2 /\ Phase(0) # calculate_agreement_time(Dimension) + 1
  BY Phases
<1>2. Reconfigured(s, 0, random) = s
  BY <1>1 DEF Reconfigured
<1> QED
  BY <1>1, <1>2, UpdateEnd

\* Whether before, in or after round 1, step (3) to (5) prepare nothing.
LEMMA ReconfiguredUnprepared ==
  ASSUME NEW s, NEW l \in Nat, NEW random, Unprepared(s), l >= 1 => l = 1 \/ Bare(s)
  PROVE  Unprepared(Reconfigured(s, l, random))
<1>1. Phase(l) # calculate_agreement_time(Dimension) + 1
  BY Phases
<1>2. CASE Phase(l) = 1
  BY <1>1, <1>2, ReconfigureBare DEF Reconfigured
<1>3. CASE Phase(l) = 2
  <2>1. Bare(s)
    BY <1>3, Phases
  <2> QED
    BY <1>1, <1>3, <2>1, AfterReconfigurationBare DEF Reconfigured
<1>4. CASE Phase(l) # 1 /\ Phase(l) # 2
  BY <1>1, <1>4 DEF Reconfigured
<1> QED
  BY <1>2, <1>3, <1>4

\* From the update of round 1 on the tables are empty.
LEMMA LaterUpdate ==
  ASSUME NEW s, NEW l \in Nat, l >= 1, NEW random, Unprepared(s), l = 1 \/ Bare(s)
  PROVE  LET ov == OverlayUpdate(s, l, {}, random, NoPeer)
         IN  /\ Unprepared(ov.st) /\ ov.s_prime = {}
             /\ ov.st.gamma_receive = s.gamma_receive
             /\ Bare(ov.st) /\ Unlisted(ov.gamma_route)
<1> DEFINE t == Reconfigured(s, l, random)
<1>1. Phase(l) # calculate_agreement_time(Dimension) + 1 /\ (l = 1 => Phase(l) = 1)
  BY Phases
<1>2. CASE Phase(l) = 1
  <2>1. t = Reconfigure(s, random)
    BY <1>1, <1>2 DEF Reconfigured
  <2>2. Unprepared(t) /\ Bare(t) /\ t.gamma_receive = s.gamma_receive
    BY <2>1, ReconfigureBare
  <2> QED
    BY <2>2, UpdateEnd
<1>3. CASE Phase(l) # 1
  <2>1. Bare(s)
    BY <1>1, <1>3
  <2>2. Unprepared(t) /\ Bare(t) /\ t.gamma_receive = s.gamma_receive
    <3>1. CASE Phase(l) = 2
      <4>1. t = AfterReconfiguration(s)
        BY <1>1, <1>3, <3>1 DEF Reconfigured
      <4> QED
        BY <2>1, <4>1, AfterReconfigurationBare
    <3>2. CASE Phase(l) # 2
      BY <1>1, <1>3, <2>1, <3>2 DEF Reconfigured
    <3> QED
      BY <3>1, <3>2
  <2> QED
    BY <2>2, UpdateEnd
<1> QED
  BY <1>2, <1>3
-----------------------------------------------------------------------------
(* The invariant                                                           *)

\* p has the tables of its init message.
HasInitialTables(p, emulated) ==
  /\ st[p].onid_emul = emulated[p]
  /\ st[p].gamma_agree = Emulating(emulated, emulated[p])
  /\ \A o \in DOMAIN st[p].gamma_route : st[p].gamma_route[o] = Emulating(emulated, o)

RouteOnce(map) == \A o1, o2 \in DOMAIN map : o1 # o2 => map[o1] \cap map[o2] = {}

OverlayInv ==
  /\ round \in [Peers -> Int] /\ \A p \in Peers : round[p] >= -1
  /\ DOMAIN st = Peers /\ DOMAIN routes = Peers
  /\ mail = {}
  /\ \A p \in Peers : Unprepared(st[p]) /\ RouteOnce(routes[p])
  /\ \A p \in Peers : round[p] >= 1 => Bare(st[p]) /\ Unlisted(routes[p])
  /\ \E emulated \in [Peers -> Quorums] :
       \A p \in Peers : round[p] <= 0 => HasInitialTables(p, emulated)

\* A quorum is a neighbour of its own.
LEMMA OwnQuorum == \A q : q \in Neighbors(q)
BY DEF Neighbors

\* The server's tables satisfy the invariant.
LEMMA InitOverlay == Init => OverlayInv
<1>1. SUFFICES ASSUME Init PROVE OverlayInv
  OBVIOUS
<1>2. PICK associated \in [Peers -> Quorums], emulated \in [Peers -> Quorums] :
        st = [p \in Peers |-> InitialTables(p, associated, emulated)]
  BY <1>1 DEF Init
<1>3. ASSUME NEW p \in Peers
      PROVE  Unprepared(st[p]) /\ HasInitialTables(p, emulated)
  <2> DEFINE gamma_route == [o \in Neighbors(emulated[p]) |-> Emulating(emulated, o)]
  <2>1. st[p] = OverlayInit(emulated[p], Emulating(emulated, associated[p]),
                            {q \in Peers : associated[q] = emulated[p]},
                            gamma_route, Unnumbered(p))
    BY <1>2 DEF InitialTables
  <2>2. gamma_route[emulated[p]] = Emulating(emulated, emulated[p])
    BY OwnQuorum
  <2>3. \A o \in DOMAIN gamma_route : gamma_route[o] = Emulating(emulated, o)
    OBVIOUS
  <2> HIDE DEF gamma_route
  <2>4. HasInitialTables(p, emulated)
    BY <2>1, <2>2, <2>3 DEF OverlayInit, HasInitialTables
  <2>5. IsScheme(st[p])
    BY <2>1 DEF OverlayInit, IsScheme, Fields
  <2> QED
    BY <2>1, <2>4, <2>5, NoRouteUnlisted DEF OverlayInit, Unprepared
<1>4. round = [p \in Peers |-> -1] /\ routes = [p \in Peers |-> NoRoute] /\ mail = {}
  BY <1>1 DEF Init
<1>5. RouteOnce(NoRoute)
  BY DEF RouteOnce, NoRoute
<1> QED
  BY <1>2, <1>3, <1>4, <1>5 DEF OverlayInv

\* What a step does, given that no structure message is on its way
LEMMA EnterFacts ==
  ASSUME OverlayInv, NEW p \in Peers, NEW random,
         NEW received \in SUBSET Received(p), Enter(p, random, received)
  PROVE  LET ov == OverlayUpdate(st[p], round[p] + 1, {}, random, NoPeer)
         IN  /\ st' = [st EXCEPT ![p] = ov.st]
             /\ routes' = [routes EXCEPT ![p] = ov.gamma_route]
             /\ round' = [round EXCEPT ![p] = round[p] + 1]
             /\ ov.s_prime = {} /\ mail' = {}
             /\ Unprepared(ov.st)
             /\ ov.st.gamma_receive = st[p].gamma_receive
             /\ round[p] = -1 => /\ SameTables(st[p], ov.st)
                                 /\ SameMap(st[p].gamma_route, ov.gamma_route)
             /\ round[p] # -1 => Bare(ov.st) /\ Unlisted(ov.gamma_route)
<1> DEFINE ov == OverlayUpdate(st[p], round[p] + 1, {}, random, NoPeer)
<1>1. received = {}
  BY DEF OverlayInv, Received
<1>2. /\ st' = [st EXCEPT ![p] = ov.st]
      /\ routes' = [routes EXCEPT ![p] = ov.gamma_route]
      /\ mail' = mail \cup {[to |-> x[1], msg |-> x[2], round |-> round[p] + 1] : x \in ov.s_prime}
  BY <1>1 DEF Enter
<1>3. round' = [round EXCEPT ![p] = round[p] + 1]
  BY DEF Enter
<1>4. Unprepared(st[p]) /\ round[p] \in Int /\ round[p] >= -1
  BY DEF OverlayInv
<1>5. CASE round[p] = -1
  <2>1. round[p] + 1 = 0
    BY <1>5
  <2>2. /\ Unprepared(ov.st) /\ ov.s_prime = {}
        /\ SameTables(st[p], ov.st) /\ SameMap(st[p].gamma_route, ov.gamma_route)
    BY <1>4, <2>1, FirstUpdate
  <2> HIDE DEF ov
  <2>3. mail' = {}
    BY <1>2, <2>2 DEF OverlayInv
  <2> QED
    BY <1>2, <1>3, <1>5, <2>2, <2>3 DEF SameTables, ov
<1>6. CASE round[p] # -1
  <2>1. round[p] + 1 \in Nat /\ round[p] + 1 >= 1
    BY <1>4, <1>6
  <2>2. round[p] + 1 = 1 \/ Bare(st[p])
    BY <1>4, <1>6 DEF OverlayInv
  <2>3. /\ Unprepared(ov.st) /\ ov.s_prime = {}
        /\ ov.st.gamma_receive = st[p].gamma_receive
        /\ Bare(ov.st) /\ Unlisted(ov.gamma_route)
    BY <1>4, <2>1, <2>2, LaterUpdate
  <2> HIDE DEF ov
  <2>4. mail' = {}
    BY <1>2, <2>3 DEF OverlayInv
  <2> QED
    BY <1>2, <1>3, <1>6, <2>3, <2>4 DEF ov
<1> QED
  BY <1>5, <1>6

\* A peer that enters a round keeps the invariant of all peers.
LEMMA StepOverlay == OverlayInv /\ [Next]_vars => OverlayInv'
<1> SUFFICES ASSUME OverlayInv, [Next]_vars PROVE OverlayInv'
  OBVIOUS
<1>1. CASE UNCHANGED vars
  BY <1>1 DEF OverlayInv, vars, HasInitialTables
<1>2. CASE Next
  <2>1. PICK p \in Peers, random \in Quorums :
          \E received \in SUBSET Received(p) : Enter(p, random, received)
    BY <1>2 DEF Next
  <2> DEFINE ov == OverlayUpdate(st[p], round[p] + 1, {}, random, NoPeer)
  <2>2. /\ st' = [st EXCEPT ![p] = ov.st]
        /\ routes' = [routes EXCEPT ![p] = ov.gamma_route]
        /\ round' = [round EXCEPT ![p] = round[p] + 1]
        /\ mail' = {}
        /\ Unprepared(ov.st)
        /\ round[p] = -1 => /\ SameTables(st[p], ov.st)
                            /\ SameMap(st[p].gamma_route, ov.gamma_route)
        /\ round[p] # -1 => Bare(ov.st) /\ Unlisted(ov.gamma_route)
    BY <2>1, EnterFacts
  <2> HIDE DEF ov
  <2>3. /\ round \in [Peers -> Int] /\ \A q \in Peers : round[q] >= -1
        /\ DOMAIN st = Peers /\ DOMAIN routes = Peers
    BY DEF OverlayInv
  <2>4. /\ round' \in [Peers -> Int] /\ \A q \in Peers : round'[q] >= -1
        /\ DOMAIN st' = Peers /\ DOMAIN routes' = Peers
    BY <2>2, <2>3
  <2>5. PICK emulated \in [Peers -> Quorums] :
          \A q \in Peers : round[q] <= 0 => HasInitialTables(q, emulated)
    BY DEF OverlayInv
  <2>6. /\ st'[p] = ov.st /\ routes'[p] = ov.gamma_route /\ round'[p] = round[p] + 1
        /\ \A q \in Peers : q # p => st'[q] = st[q] /\ routes'[q] = routes[q] /\ round'[q] = round[q]
    BY <2>2, <2>3
  <2>7. ASSUME NEW q \in Peers
        PROVE  /\ Unprepared(st'[q]) /\ RouteOnce(routes'[q])
               /\ round'[q] >= 1 => Bare(st'[q]) /\ Unlisted(routes'[q])
               /\ round'[q] <= 0 => HasInitialTables(q, emulated)'
    <3>1. CASE q # p
      BY <2>5, <2>6, <3>1 DEF OverlayInv, HasInitialTables
    <3>2. CASE q = p /\ round[p] = -1
      <4>1. HasInitialTables(p, emulated) /\ round'[p] = 0
        BY <2>3, <2>5, <2>6, <3>2
      <4>2. HasInitialTables(p, emulated)'
        BY <2>2, <2>6, <3>2, <4>1 DEF HasInitialTables, SameTables, SameMap
      <4>3. RouteOnce(ov.gamma_route)
        <5>1. \A o1, o2 \in DOMAIN st[p].gamma_route :
                o1 # o2 => st[p].gamma_route[o1] \cap st[p].gamma_route[o2] = {}
          BY <4>1 DEF HasInitialTables, Emulating
        <5> QED
          BY <2>2, <3>2, <5>1 DEF RouteOnce, SameMap
      <4> QED
        BY <2>2, <2>6, <3>2, <4>1, <4>2, <4>3
    <3>3. CASE q = p /\ round[p] # -1
      <4>1. Bare(ov.st) /\ Unlisted(ov.gamma_route) /\ round'[p] >= 1
        BY <2>2, <2>3, <2>6, <3>3
      <4>2. RouteOnce(ov.gamma_route)
        BY <4>1 DEF RouteOnce, Unlisted
      <4> QED
        BY <2>2, <2>4, <2>6, <3>3, <4>1, <4>2
    <3> QED
      BY <3>1, <3>2, <3>3
  <2> QED
    BY <2>2, <2>4, <2>7 DEF OverlayInv
<1> QED
  BY <1>1, <1>2
-----------------------------------------------------------------------------
(* Before round 1 the tables are the login server's, from then on they are *)
(* empty; nothing is ever prepared for the next quorum and nothing is sent *)
(* (overlay_structure_scheme.cpp:31-214).                                  *)
THEOREM OverlayInvariant == Spec => []OverlayInv
<1> QED
  BY InitOverlay, StepOverlay, PTL DEF Spec

(* For every dimension and every assignment of the login server, the       *)
(* overlay ends with the reconfiguration of round 1                        *)
(* (overlay_structure_scheme.cpp:60-95).                                   *)
THEOREM OverlayEndsInRoundOne == Spec => []Isolated
<1>1. OverlayInv => Isolated
  BY ListedUnlisted DEF OverlayInv, Isolated, Alone, Bare
<1> QED
  BY <1>1, OverlayInvariant, PTL

(* No slot of out_routing is assigned twice (client_enclave.cpp:362).      *)
THEOREM NoSlotAssignedTwice == Spec => []NoRouteClash
<1>1. OverlayInv => NoRouteClash
  BY DEF OverlayInv, NoRouteClash, RouteOnce
<1> QED
  BY <1>1, OverlayInvariant, PTL

(* In every round the peers of a quorum have the same participants         *)
(* (overlay_structure_scheme.cpp:22, 68-71).                               *)
THEOREM SameParticipants == Spec => []ParticipantsAgree
<1>1. OverlayInv => ParticipantsAgree
  <2>1. SUFFICES ASSUME OverlayInv, NEW p \in Peers, NEW q \in Peers,
                        round[p] = round[q], st[p].onid_emul = st[q].onid_emul
                 PROVE  st[p].gamma_agree = st[q].gamma_agree
    BY DEF ParticipantsAgree
  <2>2. round[p] \in Int
    BY <2>1 DEF OverlayInv
  <2>3. CASE round[p] >= 1
    BY <2>1, <2>3 DEF OverlayInv, Bare
  <2>4. CASE round[p] <= 0
    BY <2>1, <2>4 DEF OverlayInv, HasInitialTables
  <2> QED
    BY <2>2, <2>3, <2>4
<1> QED
  BY <1>1, OverlayInvariant, PTL

-----------------------------------------------------------------------------
(* Types: the quorum ids that update() computes with are ids of quorums    *)

InQuorums(s) ==
  /\ s.onid_emul \in Quorums /\ s.onid_emul_new \in Quorums
  /\ DOMAIN s.gamma_route \subseteq Quorums
  /\ DOMAIN s.gamma_route_new \subseteq Quorums

\* Flipping a bit of a quorum's id yields the id of a quorum.
LEMMA NeighborsAreQuorums ==
  ASSUME NEW o \in Quorums
  PROVE  Neighbors(o) \subseteq Quorums
<1>1. \A i \in 0 .. (Dimension - 1) : FlipBit(o, i) \in Quorums
  BY Flipping, DimensionAssumption DEF Quorums, NumQuorums
<1> QED
  BY <1>1 DEF Neighbors

\* Step (9) never leaves the overlay.
LEMMA HopsAreQuorums ==
  ASSUME NEW from \in Quorums, NEW onid
  PROVE  NextHop(from, onid) \in Quorums
<1> DEFINE differing == {i \in 0 .. (Dimension - 1) : Bit(from, i) # Bit(onid, i)}
           low == CHOOSE i \in differing : \A j \in differing : i <= j
<1>1. NextHop(from, onid) = IF differing = {} THEN from ELSE FlipBit(from, low)
  BY DEF NextHop
<1>2. CASE differing = {}
  BY <1>1, <1>2
<1>3. CASE differing # {}
  <2>1. differing \in SUBSET Nat /\ differing \subseteq 0 .. (Dimension - 1)
    OBVIOUS
  <2> HIDE DEF differing
  <2>2. low \in differing
    BY <1>3, <2>1, LeastNatural
  <2>3. low \in 0 .. (Dimension - 1)
    BY <2>1, <2>2
  <2>4. FlipBit(from, low) \in Quorums
    BY <2>3, Flipping, DimensionAssumption DEF Quorums, NumQuorums
  <2> QED
    BY <1>1, <1>3, <2>4
<1> QED
  BY <1>2, <1>3

\* A reconfigured peer names quorums only.
LEMMA ReconfiguredInQuorums ==
  ASSUME NEW s, Unprepared(s), InQuorums(s), NEW l \in Nat, NEW random \in Quorums
  PROVE  InQuorums(Reconfigured(s, l, random))
<1> USE DEF InQuorums
<1>1. DOMAIN s = Fields
  BY DEF Unprepared, IsScheme
<1>2. ASSUME NEW map, DOMAIN map \subseteq Quorums, NEW o \in Quorums
      PROVE  DOMAIN AddAt(map, o, {}) \subseteq Quorums
  BY <1>2 DEF AddAt
<1>3. InQuorums(Reconfigure(s, random))
  <2> DEFINE t == Reconfigure(s, random)
             succ == At(s.gamma_route_succ, s.onid_emul)
             agree == s.gamma_agree
  <2>1. /\ t.onid_emul = s.onid_emul_new /\ t.onid_emul_new = random
        /\ t.gamma_route = AddAt(s.gamma_route_new, s.onid_emul_new, {})
        /\ t.gamma_route_new = NoRoute
    BY <1>1 DEF Reconfigure, Fields
  <2>2. DOMAIN NoRoute = {}
    BY DEF NoRoute
  <2> HIDE DEF t
  <2>3. DOMAIN t.gamma_route \subseteq Quorums
    BY <1>2, <2>1
  <2> QED
    BY <2>1, <2>2, <2>3 DEF t
<1>4. InQuorums(AfterReconfiguration(s))
  <2> DEFINE t == AfterReconfiguration(s)
  <2>1. /\ t.onid_emul = s.onid_emul /\ t.onid_emul_new = s.onid_emul_new
        /\ t.gamma_route = AddAt(s.gamma_route, s.onid_emul, {})
        /\ t.gamma_route_new = s.gamma_route_new
    BY <1>1 DEF AfterReconfiguration, Fields
  <2> HIDE DEF t
  <2>2. DOMAIN t.gamma_route \subseteq Quorums
    BY <1>2, <2>1
  <2> QED
    BY <2>1, <2>2 DEF t
<1>5. Phase(l) # calculate_agreement_time(Dimension) + 1
  BY Phases
<1> QED
  BY <1>3, <1>4, <1>5 DEF Reconfigured

\* What update() leaves and returns names quorums only.
LEMMA UpdateInQuorums ==
  ASSUME NEW s, NEW l \in Nat, NEW random \in Quorums, Unprepared(s), InQuorums(s),
         Unprepared(Reconfigured(s, l, random)),
         Unprepared(OverlayUpdate(s, l, {}, random, NoPeer).st)
  PROVE  LET ov == OverlayUpdate(s, l, {}, random, NoPeer)
         IN  InQuorums(ov.st) /\ DOMAIN ov.gamma_route \subseteq Quorums
<1> DEFINE t      == Reconfigured(s, l, random)
           st6    == Handled(s, l, {}, random)
           st7    == Maintained(s, l, {}, random)
           queued == Queued(st7, l, {}, random)
           map    == [o \in DOMAIN st7.gamma_route \cup Hops(st7, queued) |->
                        At(st7.gamma_route, o)]
           st9    == [st7 EXCEPT !.gamma_route = map]
           ov     == OverlayUpdate(s, l, {}, random, NoPeer)
<1>1. InQuorums(t) /\ DOMAIN t = Fields
  BY ReconfiguredInQuorums DEF Unprepared, IsScheme
<1>2. InQuorums(st6) /\ DOMAIN st6 = Fields
  <2>1. \A kind : OfType({}, kind) = {}
    BY DEF OfType
  <2>2. st6 = HandleMessages(t, {})
    BY DEF Handled
  <2>3. /\ DOMAIN st6 = DOMAIN t
        /\ st6.onid_emul = t.onid_emul /\ st6.onid_emul_new = t.onid_emul_new
        /\ st6.gamma_route = t.gamma_route
        /\ DOMAIN st6.gamma_route_new = DOMAIN t.gamma_route_new
    <3> HIDE DEF t, st6
    <3> QED
      BY <1>1, <2>1, <2>2 DEF HandleMessages, Fields
  <2> HIDE DEF t, st6
  <2> QED
    BY <1>1, <2>3 DEF InQuorums
<1>3. InQuorums(st7) /\ DOMAIN st7 = Fields
  <2>1. st7 = st6 \/ st7 = [st6 EXCEPT !.gamma_route_succ = AddAt(@, st6.onid_emul, {})]
    BY DEF Maintained
  <2> HIDE DEF st6, st7
  <2> QED
    BY <1>2, <2>1 DEF InQuorums, Fields
<1>4. Hops(st7, queued) \subseteq Quorums
  <2>1. st7.onid_emul \in Quorums
    BY <1>3 DEF InQuorums
  <2> HIDE DEF st7, queued
  <2> QED
    BY <2>1, HopsAreQuorums DEF Hops
<1>5. ov.st = st9 /\ ov.gamma_route =
        Merge(Merge(st9.gamma_route, st9.gamma_agree_prev), st9.gamma_route_prev)
  BY DEF OverlayUpdate
<1>6. DOMAIN map \subseteq Quorums
  BY <1>3, <1>4 DEF InQuorums
<1>7. InQuorums(st9) /\ DOMAIN st9.gamma_route \subseteq Quorums
  <2> HIDE DEF st7, map
  <2> QED
    BY <1>3, <1>6 DEF InQuorums, Fields
<1>8. Unprepared(st9)
  BY <1>5
<1> HIDE DEF st9, ov
<1>9. DOMAIN ov.gamma_route \subseteq Quorums
  <2>1. SameMap(st9.gamma_route, Merge(st9.gamma_route, st9.gamma_agree_prev))
    BY <1>8, MergeUnlisted DEF Unprepared
  <2>2. SameMap(Merge(st9.gamma_route, st9.gamma_agree_prev), ov.gamma_route)
    BY <1>5, <1>8, MergeUnlisted DEF Unprepared
  <2> QED
    BY <1>7, <2>1, <2>2 DEF SameMap
<1> QED
  BY <1>5, <1>7, <1>9 DEF ov

OverlayTypeInv ==
  /\ OverlayInv
  /\ TypeOK
  /\ \A p \in Peers : InQuorums(st[p])

\* The server's tables have their types.
LEMMA InitTypes == Init => OverlayTypeInv
<1> SUFFICES ASSUME Init PROVE OverlayTypeInv
  OBVIOUS
<1>1. PICK associated \in [Peers -> Quorums], emulated \in [Peers -> Quorums] :
        st = [p \in Peers |-> InitialTables(p, associated, emulated)]
  BY DEF Init
<1>2. 0 \in Quorums
  BY Powers, DimensionAssumption DEF Quorums, NumQuorums
<1>3. ASSUME NEW p \in Peers
      PROVE  /\ InQuorums(st[p])
             /\ st[p].gamma_send \subseteq Peers /\ st[p].gamma_receive \subseteq Peers
             /\ Listed(st[p].gamma_route) \subseteq Peers
  <2> DEFINE gamma_route == [o \in Neighbors(emulated[p]) |-> Emulating(emulated, o)]
  <2>1. st[p] = OverlayInit(emulated[p], Emulating(emulated, associated[p]),
                            {q \in Peers : associated[q] = emulated[p]},
                            gamma_route, Unnumbered(p))
    BY <1>1 DEF InitialTables
  <2>2. DOMAIN gamma_route \subseteq Quorums /\ Listed(gamma_route) \subseteq Peers
    BY NeighborsAreQuorums DEF Listed, Emulating
  <2> HIDE DEF gamma_route
  <2>3. /\ st[p].onid_emul = emulated[p] /\ st[p].onid_emul_new = 0
        /\ st[p].gamma_route = gamma_route /\ st[p].gamma_route_new = NoRoute
        /\ st[p].gamma_send = Emulating(emulated, associated[p])
        /\ st[p].gamma_receive = {q \in Peers : associated[q] = emulated[p]}
    BY <2>1 DEF OverlayInit
  <2>4. DOMAIN NoRoute = {}
    BY DEF NoRoute
  <2>5. InQuorums(st[p])
    BY <1>2, <2>2, <2>3, <2>4 DEF InQuorums
  <2> QED
    BY <2>2, <2>3, <2>5 DEF Emulating
<1>4. ASSUME NEW p \in Peers
      PROVE  DOMAIN routes[p] \subseteq Quorums /\ Listed(routes[p]) \subseteq Peers
  BY DEF Init, NoRoute, Listed
<1>5. round \in [Peers -> -1 .. LastRound]
  BY OverlayAssumption DEF Init
<1>7. TypeOK
  BY <1>3, <1>4, <1>5 DEF TypeOK, InQuorums
<1> QED
  BY <1>3, <1>7, InitOverlay DEF OverlayTypeInv

\* Entering a round keeps the types of all peers.
LEMMA StepTypes == OverlayTypeInv /\ [Next]_vars => OverlayTypeInv'
<1> SUFFICES ASSUME OverlayTypeInv, [Next]_vars PROVE OverlayTypeInv'
  OBVIOUS
<1>1. OverlayInv /\ OverlayInv'
  BY StepOverlay DEF OverlayTypeInv
<1>2. CASE UNCHANGED vars
  BY <1>1, <1>2 DEF OverlayTypeInv, TypeOK, vars
<1>3. CASE Next
  <2>1. PICK p \in Peers, random \in Quorums :
          \E received \in SUBSET Received(p) : Enter(p, random, received)
    BY <1>3 DEF Next
  <2> DEFINE ov == OverlayUpdate(st[p], round[p] + 1, {}, random, NoPeer)
  <2>2. /\ st' = [st EXCEPT ![p] = ov.st]
        /\ routes' = [routes EXCEPT ![p] = ov.gamma_route]
        /\ round' = [round EXCEPT ![p] = round[p] + 1]
        /\ Unprepared(ov.st)
        /\ ov.st.gamma_receive = st[p].gamma_receive
        /\ round[p] = -1 => /\ SameTables(st[p], ov.st)
                            /\ SameMap(st[p].gamma_route, ov.gamma_route)
        /\ round[p] # -1 => Bare(ov.st) /\ Unlisted(ov.gamma_route)
    BY <1>1, <2>1, EnterFacts
  <2>3. /\ Unprepared(st[p]) /\ InQuorums(st[p])
        /\ round[p] \in Int /\ round[p] >= -1
        /\ round[p] + 1 >= 1 => round[p] + 1 = 1 \/ Bare(st[p])
    BY <1>1 DEF OverlayTypeInv, OverlayInv
  <2>4. Unprepared(Reconfigured(st[p], round[p] + 1, random))
    BY <2>3, ReconfiguredUnprepared
  <2>5. InQuorums(ov.st) /\ DOMAIN ov.gamma_route \subseteq Quorums
    BY <2>2, <2>3, <2>4, UpdateInQuorums
  <2> HIDE DEF ov
  <2>6. /\ ov.st.gamma_send \subseteq Peers
        /\ Listed(ov.st.gamma_route) \subseteq Peers
        /\ Listed(ov.gamma_route) \subseteq Peers
    <3>1. st[p].gamma_send \subseteq Peers /\ Listed(st[p].gamma_route) \subseteq Peers
      BY DEF OverlayTypeInv, TypeOK
    <3>2. CASE round[p] = -1
      <4>1. ASSUME NEW a, NEW b, SameMap(a, b)
            PROVE  Listed(b) = Listed(a)
        BY <4>1 DEF SameMap, Listed
      <4> QED
        BY <2>2, <3>1, <3>2, <4>1 DEF SameTables
    <3>3. CASE round[p] # -1
      BY <2>2, <3>3, ListedUnlisted DEF Bare
    <3> QED
      BY <3>2, <3>3
  <2>7. /\ DOMAIN st = Peers /\ DOMAIN routes = Peers /\ round \in [Peers -> -1 .. LastRound]
    BY <1>1 DEF OverlayTypeInv, OverlayInv, TypeOK
  <2>8. /\ st'[p] = ov.st /\ routes'[p] = ov.gamma_route
        /\ \A q \in Peers : q # p => st'[q] = st[q] /\ routes'[q] = routes[q]
    BY <2>2, <2>7
  <2>9. round' \in [Peers -> -1 .. LastRound]
    <3>1. round[p] < LastRound
      BY <2>1 DEF Enter
    <3>2. round[p] + 1 \in -1 .. LastRound
      BY <2>3, <3>1, OverlayAssumption
    <3> QED
      BY <2>2, <2>7, <3>2
  <2>10. ASSUME NEW q \in Peers
         PROVE  /\ InQuorums(st'[q])
                /\ st'[q].gamma_send \subseteq Peers /\ st'[q].gamma_receive \subseteq Peers
                /\ Listed(st'[q].gamma_route) \subseteq Peers
                /\ DOMAIN routes'[q] \subseteq Quorums /\ Listed(routes'[q]) \subseteq Peers
    <3>1. CASE q = p
      BY <2>2, <2>5, <2>6, <2>8, <3>1 DEF OverlayTypeInv, TypeOK
    <3>2. CASE q # p
      BY <2>8, <3>2 DEF OverlayTypeInv, TypeOK
    <3> QED
      BY <3>1, <3>2
  <2>11. TypeOK'
    BY <2>9, <2>10 DEF TypeOK, InQuorums
  <2> QED
    BY <1>1, <2>10, <2>11 DEF OverlayTypeInv
<1> QED
  BY <1>2, <1>3

(* Tables name peers only, and the quorum ids that the neighbours and hops *)
(* of a quorum are computed to be are those of quorums, for every          *)
(* dimension (shared_functions.h:15-21,                                    *)
(* overlay_structure_scheme.cpp:173-191).                                  *)
THEOREM OverlayTypes == Spec => []TypeOK
<1>1. Spec => []OverlayTypeInv
  BY InitTypes, StepTypes, PTL DEF Spec
<1>2. OverlayTypeInv => TypeOK
  BY DEF OverlayTypeInv
<1> QED
  BY <1>1, <1>2, PTL
=============================================================================
