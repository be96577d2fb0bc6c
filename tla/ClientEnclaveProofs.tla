------------------------- MODULE ClientEnclaveProofs -------------------------
(***************************************************************************)
(* Theorems about the sending side of the enclave, for every value of the  *)
(* constants: its state has its type, the announcements of a round never   *)
(* exceed their fixed number, no message that was handed in with its lead  *)
(* misses the round it is due in, and none leaves the queue before it.     *)
(***************************************************************************)
EXTENDS ClientEnclaveProps, DataLemmas

-----------------------------------------------------------------------------
(* Arithmetic of rounds *)

\* The lengths of helpers.h are naturals, and a round is not empty.
LEMMA TimingTypes ==
  /\ kDelta \in Nat \ {0}
  /\ Word \in Nat \ {0}
  /\ IntWord \in Nat \ {0} /\ IntWord <= Word
  /\ RoundLength \in Nat \ {0}
  /\ calculate_agreement_time(Dimension) \in Nat
  /\ calculate_routing_time(Dimension) \in Nat
  BY TimingAssumption, DimensionAssumption
     DEF RoundLength, calculate_agreement_time, calculate_routing_time

\* The key of a round in num_q_out_entries_for_round_for_pseudonym_ is a word.
LEMMA IntKeyType ==
  ASSUME NEW round \in Nat
  PROVE  IntKey(round) \in Words
  <1> DEFINE low == round % IntWord
  <1>1. low \in Nat /\ low < IntWord
    BY TimingTypes
  <1>2. IntWord <= Word /\ IntWord \in Nat /\ Word \in Nat
    BY TimingTypes
  <1> HIDE DEF low
  <1>3. (IF 2 * low < IntWord THEN low ELSE low + Word - IntWord) \in 0 .. (Word - 1)
    BY <1>1, <1>2
  <1> QED
    BY <1>3 DEF IntKey, Words, low

\* Two times that are due in the same round lie in the same round.
LEMMA DueInOneRound ==
  ASSUME NEW s \in Nat, NEW t \in Nat, NEW l \in Nat,
         is_due(s, l, Dimension), is_due(t, l, Dimension)
  PROVE  calculate_round_from_t(s) = calculate_round_from_t(t)
  <1> DEFINE q == l + calculate_agreement_time(Dimension)
                    + calculate_routing_time(Dimension) + 3
  <1>1. q \in Nat /\ RoundLength \in Nat \ {0}
    BY TimingTypes
  <1>2. DueFrom(l, Dimension) = RoundLength * q
    BY <1>1 DEF DueFrom
  <1> HIDE DEF q
  <1>3. s \div RoundLength = q
    BY <1>1, <1>2, DivUnique DEF is_due
  <1>4. t \div RoundLength = q
    BY <1>1, <1>2, DivUnique DEF is_due
  <1> QED
    BY <1>3, <1>4 DEF calculate_round_from_t

\* The round of a subround is a word as long as the clock is in its bounds.
LEMMA RoundOfNow ==
  ASSUME NEW t \in 0 .. MaxTime
  PROVE  /\ calculate_subround_from_t(t) \div 4 \in Words
         /\ (calculate_subround_from_t(t) \div 4) * RoundLength <= t
  <1> DEFINE sub == t \div kDelta
  <1>1. /\ sub \in Nat /\ kDelta * sub <= t /\ sub <= t
    BY DivBounds, TimingTypes, ClockAssumption
  <1>2. /\ sub \div 4 \in Nat /\ 4 * (sub \div 4) <= sub /\ sub \div 4 <= sub
    BY <1>1, DivBounds
  <1>3. MaxTime < Word /\ MaxTime \in Nat
    <2>1. Lead(Dimension) + RoundLength \in Nat
      BY TimingTypes DEF Lead
    <2>2. Lead(Dimension) \in Nat
      BY TimingTypes DEF Lead
    <2> QED
      BY <2>1, <2>2, ClockAssumption, TimingTypes
  <1> DEFINE r == sub \div 4
  <1>4. r \in Nat /\ r <= t /\ 4 * r <= sub
    BY <1>1, <1>2
  <1> HIDE DEF r, sub
  <1>5. kDelta * (4 * r) <= kDelta * sub
    BY <1>1, <1>4, TimingTypes
  <1>6. r * (4 * kDelta) <= t
    BY <1>1, <1>4, <1>5, TimingTypes
  <1> QED
    BY <1>3, <1>4, <1>6, TimingTypes DEF Words, RoundLength, calculate_subround_from_t, r, sub

-----------------------------------------------------------------------------
(* Types.  TypeOK is strengthened with what TLC cannot enumerate: the      *)
(* vectors indexed by local_num are sequences, and the blobs users hold    *)
(* are encryptions of this peer's pseudonyms.                              *)

Counters == UNION {[S -> 1 .. kSend] : S \in SUBSET Words}

OwnBlobs == [key : {"sk_pseud", "zeros"}, onid : Nat, peer : {Self, Self0}, num : Nat]

TypeInv ==
  /\ TypeOK
  /\ num_entries \in Seq(Counters)
  /\ q_in = [n \in 1 .. Len(pseudonyms) |-> q_in[n]]
  /\ issued \subseteq OwnBlobs

\* The state as the constructor leaves it has its type.
LEMMA InitTypeInv == Init => TypeInv
  <1> SUFFICES ASSUME Init PROVE TypeInv
    OBVIOUS
  <1>1. MaxTime \in Nat /\ Word - 1 \in Words
    BY ClockAssumption, TimingTypes DEF Words
  <1>2. pseudonyms = <<>> /\ num_entries = <<>> /\ q_in = <<>> /\ issued = {} /\ q_out = {}
    BY DEF Init
  <1>3. /\ pseudonyms \in Seq([onid : Nat, peer : {Self, Self0}, num : Nat])
        /\ Len(pseudonyms) <= kAMax
        /\ \A i \in DOMAIN pseudonyms : pseudonyms[i].num = i - 1
    BY <1>2, QuotaAssumption
  <1>4. TypeOK
    <2>1. /\ crashed \in Places
          /\ nm_initialized \in BOOLEAN /\ initialized \in BOOLEAN
          /\ now \in 0 .. MaxTime /\ cur_round \in Words
          /\ onid_repr \in Nat /\ own_id \in {Self, Self0}
      <3>1. /\ crashed = "no" /\ nm_initialized = FALSE /\ initialized = FALSE
            /\ now = 0 /\ cur_round = Word - 1 /\ onid_repr = 0 /\ own_id = Self0
        BY DEF Init
      <3>2. crashed \in Places
        BY <3>1 DEF Places
      <3>3. nm_initialized \in BOOLEAN /\ initialized \in BOOLEAN
        BY <3>1
      <3>4. now \in 0 .. MaxTime /\ cur_round \in Words /\ onid_repr \in Nat
        BY <1>1, <3>1
      <3> QED
        BY <3>1, <3>2, <3>3, <3>4
    <2>2. /\ DOMAIN num_entries = DOMAIN pseudonyms /\ DOMAIN q_in = DOMAIN pseudonyms
          /\ \A n \in DOMAIN num_entries : \A l \in DOMAIN num_entries[n] :
               l \in Words /\ num_entries[n][l] \in 1 .. kSend
          /\ q_out \subseteq QueueEntries
      BY <1>2
    <2> QED
      BY <1>3, <2>1, <2>2 DEF TypeOK
  <1> QED
    BY <1>2, <1>4 DEF TypeInv

\* The end of the enclave disturbs no type.
LEMMA CrashTypeInv ==
  ASSUME TypeInv, NEW place \in Places, Crash(place)
  PROVE  TypeInv'
  BY DEF TypeInv, TypeOK, Crash, memory, setupVars, queueVars, roundVars

\* generate_pseudonym lets the three vectors grow together.
LEMMA GenerateTypeInv ==
  ASSUME TypeInv, generate_pseudonym
  PROVE  TypeInv'
  <1> DEFINE pseud == [onid |-> onid_repr, peer |-> own_id, num |-> Len(pseudonyms)]
             key   == IF initialized THEN "sk_pseud" ELSE "zeros"
             len   == Len(pseudonyms)
  <1> USE DEF TypeInv, TypeOK
  <1>1. /\ pseudonyms' = Append(pseudonyms, pseud)
        /\ issued' = issued \cup {Blob(key, pseud)}
        /\ num_entries' = Append(num_entries, [l \in {} |-> 0])
        /\ q_in' = Append(q_in, EmptyBag)
        /\ len < kAMax
        /\ UNCHANGED <<crashed, setupVars, now, cur_round, q_out>>
    BY DEF generate_pseudonym
  <1>2. pseud \in [onid : Nat, peer : {Self, Self0}, num : Nat]
    OBVIOUS
  <1>3. /\ pseudonyms' \in Seq([onid : Nat, peer : {Self, Self0}, num : Nat])
        /\ Len(pseudonyms') = len + 1
        /\ Len(pseudonyms') <= kAMax
        /\ \A i \in DOMAIN pseudonyms' : pseudonyms'[i].num = i - 1
    BY <1>1, <1>2, QuotaAssumption
  <1>4. issued' \subseteq OwnBlobs
    BY <1>1 DEF Blob, OwnBlobs
  <1>5. [l \in {} |-> 0] \in Counters
    <2>1. [l \in {} |-> 0] \in [{} -> 1 .. kSend] /\ {} \in SUBSET Words
      OBVIOUS
    <2> QED
      BY <2>1 DEF Counters
  <1>6. num_entries' \in Seq(Counters) /\ DOMAIN num_entries' = DOMAIN pseudonyms'
    BY <1>1, <1>3, <1>5
  <1>7. \A n \in DOMAIN num_entries' : \A l \in DOMAIN num_entries'[n] :
          l \in Words /\ num_entries'[n][l] \in 1 .. kSend
    BY <1>6 DEF Counters
  <1>8. q_in \in Seq({q_in[n] : n \in 1 .. len} \cup {EmptyBag})
    OBVIOUS
  <1>9. q_in' = [n \in 1 .. (len + 1) |-> q_in'[n]]
    BY <1>1, <1>8
  <1> QED
    BY <1>1, <1>3, <1>4, <1>6, <1>7, <1>9 DEF setupVars

\* The actions that change neither a queue nor a pseudonym
LEMMA SetupTypeInv ==
  ASSUME TypeInv,
         \/ Tick
         \/ \E msg \in InitMessages : received_msg_from_server(msg)
         \/ first_packet_from_peer
  PROVE  TypeInv'
  <1> USE DEF TypeInv, TypeOK, setupVars, queueVars, roundVars
  <1>1. CASE Tick
    BY <1>1, ClockAssumption DEF Tick
  <1>2. CASE \E msg \in InitMessages : received_msg_from_server(msg)
    <2> PICK msg \in InitMessages : received_msg_from_server(msg)
      BY <1>2
    <2>1. msg.onid_assoc \in Nat
      BY EnvironmentAssumption DEF Quorums
    <2>2. nm_initialized' \in BOOLEAN /\ initialized' \in BOOLEAN
      BY DEF received_msg_from_server
    <2>3. /\ onid_repr' \in Nat /\ own_id' \in {Self, Self0}
          /\ UNCHANGED <<crashed, now, cur_round, pseudonyms, issued, num_entries, q_out, q_in>>
      BY <2>1 DEF received_msg_from_server
    <2> QED
      BY <2>2, <2>3
  <1>3. CASE first_packet_from_peer
    <2>1. nm_initialized' \in BOOLEAN
      BY <1>3 DEF first_packet_from_peer
    <2>2. UNCHANGED <<crashed, initialized, onid_repr, own_id, now, cur_round, pseudonyms,
                      issued, num_entries, q_out, q_in>>
      BY <1>3 DEF first_packet_from_peer
    <2> QED
      BY <2>1, <2>2
  <1> QED
    BY <1>1, <1>2, <1>3

\* A blob that decrypts to one of this peer's pseudonyms is a record with
\* the local number of that pseudonym.
LEMMA OwnedBlob ==
  ASSUME TypeInv, NEW blob \in Blobs, Decrypts(blob), Owned(blob)
  PROVE  /\ blob \in [key : {"sk_pseud"}, onid : Nat, peer : {Self, Self0}, num : 0 .. (kAMax - 1)]
         /\ blob.num + 1 \in DOMAIN pseudonyms
  <1>1. PICK i \in DOMAIN pseudonyms : pseudonyms[i] = decrypt_pseudonym(blob)
    BY DEF Owned
  <1>2. /\ pseudonyms[i] \in [onid : Nat, peer : {Self, Self0}, num : Nat]
        /\ pseudonyms[i].num = i - 1
        /\ i \in 1 .. kAMax
    <2>1. /\ pseudonyms \in Seq([onid : Nat, peer : {Self, Self0}, num : Nat])
          /\ Len(pseudonyms) <= kAMax
          /\ \A j \in DOMAIN pseudonyms : pseudonyms[j].num = j - 1
      BY DEF TypeInv, TypeOK
    <2> DEFINE T == [onid : Nat, peer : {Self, Self0}, num : Nat]
    <2> HIDE DEF T
    <2>2. /\ pseudonyms \in Seq(T)
          /\ i \in 1 .. Len(pseudonyms) /\ Len(pseudonyms) \in Nat
      BY <1>1, <2>1 DEF T
    <2>3. pseudonyms[i] \in T
      BY <2>2
    <2> QED
      BY <1>1, <2>1, <2>2, <2>3, QuotaAssumption DEF T
  <1>3. /\ blob.num = i - 1
        /\ blob.onid \in Nat
        /\ blob.peer \in {Self, Self0}
    BY <1>1, <1>2 DEF decrypt_pseudonym
  <1>4. blob \in OwnBlobs \cup BlobType
    BY EnvironmentAssumption DEF Decrypts, Blobs, TypeInv
  <1>5. blob = [key |-> blob.key, onid |-> blob.onid, peer |-> blob.peer, num |-> blob.num]
    BY <1>4 DEF OwnBlobs, BlobType
  <1>6. blob.key = "sk_pseud"
    BY DEF Decrypts
  <1> QED
    BY <1>1, <1>2, <1>3, <1>5, <1>6, QuotaAssumption

\* An accepted message, and what its acceptance does
LEMMA SendStep ==
  ASSUME TypeInv,
         NEW n_src \in Blobs, NEW msg \in Msgs, NEW n_dst \in Destinations,
         NEW t_dst \in SendTimes,
         send_message(n_src, msg, n_dst, t_dst), crashed' = "no"
  PROVE  LET key == IntKey(calculate_round_from_t(t_dst))
             n   == n_src.num + 1
             nth == Entries(n, key) + 1
             q   == [n_src |-> n_src, m |-> msg, n_dst |-> n_dst, t_dst |-> t_dst, nth |-> nth]
         IN  /\ n \in DOMAIN num_entries
             /\ key \in Words
             /\ nth \in 1 .. kSend
             /\ q \in QueueEntries
             /\ ~TooLate(t_dst)
             /\ q_out' = q_out \cup {q}
             /\ num_entries' = [num_entries EXCEPT
                  ![n] = [l \in DOMAIN @ \cup {key} |-> IF l = key THEN nth ELSE @[l]]]
             /\ UNCHANGED <<crashed, setupVars, now, cur_round, pseudonyms, issued, q_in>>
  <1> DEFINE key == IntKey(calculate_round_from_t(t_dst))
             n   == n_src.num + 1
             nth == Entries(n, key) + 1
  <1>1. /\ Decrypts(n_src) /\ Owned(n_src) /\ ~TooLate(t_dst) /\ nth <= kSend
        /\ q_out' = q_out \cup {[n_src |-> n_src, m |-> msg, n_dst |-> n_dst,
                                 t_dst |-> t_dst, nth |-> nth]}
        /\ num_entries' = [num_entries EXCEPT
             ![n] = [l \in DOMAIN @ \cup {key} |-> IF l = key THEN nth ELSE @[l]]]
        /\ UNCHANGED <<crashed, setupVars, now, cur_round, pseudonyms, issued, q_in>>
    BY DEF send_message, Crash
  <1>2. /\ n_src \in [key : {"sk_pseud"}, onid : Nat, peer : {Self, Self0}, num : 0 .. (kAMax - 1)]
        /\ n \in DOMAIN num_entries
    BY <1>1, OwnedBlob DEF TypeInv, TypeOK
  <1>3. t_dst \in Words /\ t_dst \in Nat
    BY ClockAssumption, TimingTypes DEF Words
  <1>4. calculate_round_from_t(t_dst) \in Nat
    BY <1>3, TimingTypes, DivBounds DEF calculate_round_from_t
  <1>5. key \in Words
    BY <1>4, IntKeyType
  <1>6. Entries(n, key) \in Nat
    BY <1>2, QuotaAssumption DEF Entries, TypeInv, TypeOK
  <1>7. nth \in 1 .. kSend
    BY <1>1, <1>6, QuotaAssumption
  <1> QED
    BY <1>1, <1>2, <1>3, <1>5, <1>7 DEF QueueEntries

\* send_message adds an entry of the right type to q_out_ and counts it.
LEMMA SendTypeInv ==
  ASSUME TypeInv,
         NEW n_src \in Blobs, NEW msg \in Msgs, NEW n_dst \in Destinations,
         NEW t_dst \in SendTimes, send_message(n_src, msg, n_dst, t_dst)
  PROVE  TypeInv'
  <1>1. CASE Crash("send_message")
    BY <1>1, CrashTypeInv DEF Places
  <1>2. CASE ~Crash("send_message")
    <2> DEFINE key == IntKey(calculate_round_from_t(t_dst))
               n   == n_src.num + 1
               nth == Entries(n, key) + 1
               counter == [l \in DOMAIN num_entries[n] \cup {key} |->
                             IF l = key THEN nth ELSE num_entries[n][l]]
    <2>1. crashed' = "no"
      BY <1>2 DEF send_message, Running
    <2> DEFINE q == [n_src |-> n_src, m |-> msg, n_dst |-> n_dst, t_dst |-> t_dst, nth |-> nth]
    <2>7. /\ n \in DOMAIN num_entries /\ key \in Words
          /\ nth \in 1 .. kSend
          /\ q \in QueueEntries
          /\ q_out' = q_out \cup {q}
          /\ num_entries' = [num_entries EXCEPT
               ![n] = [l \in DOMAIN @ \cup {key} |-> IF l = key THEN nth ELSE @[l]]]
          /\ UNCHANGED <<crashed, setupVars, now, cur_round, pseudonyms, issued, q_in>>
      BY <2>1, SendStep
    <2> HIDE DEF q, key, n, nth
    <2>2. /\ n \in DOMAIN num_entries /\ key \in Words
          /\ nth \in 1 .. kSend
          /\ q_out' \subseteq QueueEntries
          /\ num_entries' = [num_entries EXCEPT ![n] = counter]
          /\ UNCHANGED <<crashed, setupVars, now, cur_round, pseudonyms, issued, q_in>>
      BY <2>7 DEF TypeInv, TypeOK
    <2>3. num_entries[n] \in Counters
      BY <2>2 DEF TypeInv
    <2>4. counter \in Counters
      <3>1. PICK S \in SUBSET Words : num_entries[n] \in [S -> 1 .. kSend]
        BY <2>3 DEF Counters
      <3>2. counter \in [S \cup {key} -> 1 .. kSend] /\ S \cup {key} \in SUBSET Words
        BY <3>1, <2>2
      <3> QED
        BY <3>2 DEF Counters
    <2> HIDE DEF counter
    <2>5. num_entries' \in Seq(Counters) /\ DOMAIN num_entries' = DOMAIN num_entries
      BY <2>2, <2>4 DEF TypeInv
    <2>6. \A k \in DOMAIN num_entries' : \A l \in DOMAIN num_entries'[k] :
            l \in Words /\ num_entries'[k][l] \in 1 .. kSend
      BY <2>5 DEF Counters
    <2> QED
      BY <2>2, <2>5, <2>6 DEF TypeInv, TypeOK, setupVars
  <1> QED
    BY <1>1, <1>2

\* receive_message takes from one of the queues and leaves their number.
LEMMA ReceiveTypeInv ==
  ASSUME TypeInv, NEW n_dst \in Blobs, receive_message(n_dst)
  PROVE  TypeInv'
  <1>1. CASE Crash("receive_message") \/ Crash("undefined")
    BY <1>1, CrashTypeInv DEF Places
  <1>2. CASE ~Crash("receive_message") /\ ~Crash("undefined")
    <2>1. /\ UNCHANGED <<crashed, nm_initialized, initialized, onid_repr, own_id, now,
                         cur_round, pseudonyms, issued, num_entries, q_out>>
          /\ DOMAIN q_in' = DOMAIN q_in
          /\ q_in' = [n \in DOMAIN q_in |-> q_in'[n]]
      BY <1>2 DEF receive_message, setupVars, queueVars, TypeInv
    <2> QED
      BY <2>1 DEF TypeInv, TypeOK
  <1> QED
    BY <1>1, <1>2

\* traffic_in adds to the queues and leaves their number.
LEMMA TrafficInTypeInv ==
  ASSUME TypeInv, NEW sender, NEW round, NEW p, traffic_in(sender, round, p)
  PROVE  TypeInv'
  <1>1. CASE Crash("cur_or_next < 2") \/ Crash("traffic_in")
    BY <1>1, CrashTypeInv DEF Places
  <1>2. CASE ~Crash("cur_or_next < 2") /\ ~Crash("traffic_in")
    <2> DEFINE arrived(n) ==
                 {m \in Deliverable(Buffered(round - cur_round, sender, p)) :
                    m.n_dst.num + 1 = n}
               filled(n) == q_in[n] (+) SetToBag(arrived(n))
    <2>1. /\ UNCHANGED <<crashed, setupVars, now, cur_round, queueVars, roundVars>>
          /\ q_in' = [n \in DOMAIN q_in |-> filled(n)]
      BY <1>2, Zenon DEF traffic_in
    <2> HIDE DEF filled
    <2>2. DOMAIN q_in' = DOMAIN q_in /\ q_in' = [n \in DOMAIN q_in |-> q_in'[n]]
      BY <2>1
    <2>3. UNCHANGED <<crashed, nm_initialized, initialized, onid_repr, own_id, now,
                      cur_round, pseudonyms, issued, num_entries, q_out>>
      BY <2>1 DEF setupVars, queueVars
    <2> QED
      BY <2>2, <2>3 DEF TypeInv, TypeOK
  <1> QED
    BY <1>1, <1>2

\* Every fault of a round has its place.
LEMMA FaultPlace ==
  ASSUME NEW ov, NEW agree, NEW l
  PROVE  FirstFault(ov, agree, l) \in Places
  BY DEF FirstFault, Places

\* traffic_out enters a round the clock has reached and takes entries from
\* q_out_.
LEMMA TrafficOutStep ==
  ASSUME TypeInv, traffic_out, crashed' = "no"
  PROVE  \E l \in Words :
           /\ l * RoundLength <= now
           /\ cur_round = WSub(l, 1)
           /\ cur_round' = l
           /\ q_out' = q_out \ Popped(l)
           /\ UNCHANGED <<crashed, setupVars, now, pseudonyms, issued, num_entries, q_in>>
  <1> DEFINE l == calculate_subround_from_t(now) \div 4
  <1>1. l \in Words /\ l * RoundLength <= now
    BY RoundOfNow DEF TypeInv, TypeOK
  <1>2. PICK random \in Quorums : RunRound(l, random) /\ cur_round = WSub(l, 1)
    BY DEF traffic_out, Crash
  <1> HIDE DEF l
  <1>3. /\ cur_round' = l
        /\ q_out' = q_out \ Popped(l)
        /\ UNCHANGED <<crashed, setupVars, now, pseudonyms, issued, num_entries, q_in>>
    BY <1>2 DEF RunRound, Crash
  <1> QED
    BY <1>1, <1>2, <1>3

\* A round keeps the type of the sending side.
LEMMA TrafficOutTypeInv ==
  ASSUME TypeInv, traffic_out
  PROVE  TypeInv'
  <1>1. CASE \E place \in Places : Crash(place)
    BY <1>1, CrashTypeInv
  <1>2. CASE ~\E place \in Places : Crash(place)
    <2>1. crashed' = "no"
      <3> DEFINE l == calculate_subround_from_t(now) \div 4
      <3>1. ~Crash("cur_round_ == (subround / 4) - 1")
        BY <1>2 DEF Places
      <3>2. PICK random \in Quorums : RunRound(l, random) /\ crashed = "no"
        BY <3>1 DEF traffic_out, Running
      <3> HIDE DEF l
      <3> DEFINE ov == OverlayUpdate(overlay, l, in[0].structure, random, NoPeer)
                 fault == FirstFault(ov, PushAgree(ov), l)
      <3>3. fault \in Places
        BY FaultPlace
      <3>4. ~Crash(fault)
        BY <1>2, <3>3
      <3> QED
        BY <3>2, <3>4 DEF RunRound
    <2>2. PICK l \in Words :
            /\ cur_round' = l
            /\ q_out' \subseteq q_out
            /\ UNCHANGED <<crashed, setupVars, now, pseudonyms, issued, num_entries, q_in>>
      BY <2>1, TrafficOutStep
    <2> QED
      BY <2>2 DEF TypeInv, TypeOK, setupVars
  <1> QED
    BY <1>1, <1>2

\* Every step keeps the types.
LEMMA NextTypeInv == TypeInv /\ [Next]_vars => TypeInv'
  <1> SUFFICES ASSUME TypeInv, [Next]_vars PROVE TypeInv'
    OBVIOUS
  <1>1. CASE UNCHANGED vars
    BY <1>1 DEF vars, TypeInv, TypeOK, setupVars, queueVars, roundVars
  <1>2. CASE Tick \/ ServerPacket \/ first_packet_from_peer
    BY <1>2, SetupTypeInv DEF ServerPacket
  <1>3. CASE generate_pseudonym
    BY <1>3, GenerateTypeInv
  <1>4. CASE SendMessage
    BY <1>4, SendTypeInv DEF SendMessage
  <1>5. CASE ReceiveMessage
    BY <1>5, ReceiveTypeInv DEF ReceiveMessage
  <1>6. CASE TrafficIn
    BY <1>6, TrafficInTypeInv DEF TrafficIn
  <1>7. CASE traffic_out
    BY <1>7, TrafficOutTypeInv
  <1> QED
    BY <1>1, <1>2, <1>3, <1>4, <1>5, <1>6, <1>7 DEF Next

(* The state of the sending side always has its type, and the vectors that *)
(* generate_pseudonym, send_message and receive_message index by local_num *)
(* have the same length (client_enclave.cpp:94-187).                       *)
THEOREM TypeCorrect == Spec => []TypeOK
  <1>1. Spec => []TypeInv
    BY InitTypeInv, NextTypeInv, PTL DEF Spec
  <1>2. TypeInv => TypeOK
    BY DEF TypeInv
  <1> QED
    BY <1>1, <1>2, PTL
-----------------------------------------------------------------------------
(* The announcements of a round.  No two waiting entries share pseudonym,  *)
(* counter key and position, and a position is at most its counter: so the *)
(* entries due in one round fit into kAMax pseudonyms times kSend          *)
(* positions.                                                              *)

KeyOf(q) == IntKey(calculate_round_from_t(q.t_dst))

Distinct ==
  \A a, b \in q_out :
    a.n_src.num = b.n_src.num /\ KeyOf(a) = KeyOf(b) /\ a.nth = b.nth => a = b

Counted ==
  \A q \in q_out : /\ q.n_src.num + 1 \in DOMAIN num_entries
                   /\ q.nth <= Entries(q.n_src.num + 1, KeyOf(q))

QueueInv == TypeInv /\ Distinct /\ Counted

\* The entries that are due in one round fit into the announcements of it.
LEMMA PoppedBounded ==
  ASSUME QueueInv, NEW l \in Nat
  PROVE  /\ IsFiniteSet(Popped(l))
         /\ Cardinality(Popped(l)) \in Nat /\ Cardinality(Popped(l)) <= kSend * kAMax
  <1> DEFINE nums  == 0 .. (kAMax - 1)
             slots == nums \X (1 .. kSend)
             slot  == [q \in Popped(l) |-> <<q.n_src.num, q.nth>>]
  <1>1. \A q \in Popped(l) : /\ q \in q_out
                             /\ is_due(q.t_dst, l, Dimension)
                             /\ q.n_src.num \in nums
                             /\ q.nth \in 1 .. kSend
                             /\ q.t_dst \in Nat
    <2>1. \A q \in Popped(l) : q \in q_out /\ is_due(q.t_dst, l, Dimension)
      BY DEF Popped
    <2>2. \A q \in q_out : q \in QueueEntries
      BY DEF QueueInv, TypeInv, TypeOK
    <2>3. \A q \in QueueEntries : q.n_src.num \in nums /\ q.nth \in 1 .. kSend /\ q.t_dst \in Words
      BY DEF QueueEntries
    <2> QED
      BY <2>1, <2>2, <2>3, TimingTypes DEF Words
  <1>2. \A a, b \in Popped(l) : slot[a] = slot[b] => a = b
    <2> SUFFICES ASSUME NEW a \in Popped(l), NEW b \in Popped(l), slot[a] = slot[b]
                 PROVE  a = b
      OBVIOUS
    <2>1. a.n_src.num = b.n_src.num /\ a.nth = b.nth
      OBVIOUS
    <2>2. KeyOf(a) = KeyOf(b)
      BY <1>1, DueInOneRound DEF KeyOf
    <2> QED
      BY <1>1, <2>1, <2>2 DEF QueueInv, Distinct
  <1>3. slot \in Injection(Popped(l), slots)
    BY <1>1, <1>2 DEF Injection, IsInjective
  <1>4. IsFiniteSet(slots) /\ Cardinality(slots) = kAMax * kSend
    <2>1. IsFiniteSet(nums) /\ Cardinality(nums) = kAMax
      BY FS_Interval, QuotaAssumption
    <2>2. IsFiniteSet(1 .. kSend) /\ Cardinality(1 .. kSend) = kSend
      BY FS_Interval, QuotaAssumption
    <2> HIDE DEF nums
    <2>3. IsFiniteSet(slots) /\ Cardinality(slots) = Cardinality(nums) * Cardinality(1 .. kSend)
      BY <2>1, <2>2, FS_Product
    <2> QED
      BY <2>1, <2>2, <2>3
  <1>5. /\ IsFiniteSet(Popped(l))
        /\ Cardinality(Popped(l)) \in Nat /\ Cardinality(Popped(l)) <= Cardinality(slots)
    <2> HIDE DEF slots, slot
    <2> QED
      BY <1>3, <1>4, FS_Injection, FS_CardinalityType
  <1> QED
    BY <1>4, <1>5, QuotaAssumption

\* send_message gives each entry the position after all earlier ones.
LEMMA SendQueueInv ==
  ASSUME QueueInv,
         NEW n_src \in Blobs, NEW msg \in Msgs, NEW n_dst \in Destinations,
         NEW t_dst \in SendTimes, send_message(n_src, msg, n_dst, t_dst), crashed' = "no"
  PROVE  Distinct' /\ Counted'
  <1> DEFINE key == IntKey(calculate_round_from_t(t_dst))
             n   == n_src.num + 1
             nth == Entries(n, key) + 1
             new == [n_src |-> n_src, m |-> msg, n_dst |-> n_dst, t_dst |-> t_dst, nth |-> nth]
  <1>1. /\ n \in DOMAIN num_entries
        /\ nth \in 1 .. kSend
        /\ new \in QueueEntries
        /\ q_out' = q_out \cup {new}
        /\ num_entries' = [num_entries EXCEPT
             ![n] = [l \in DOMAIN @ \cup {key} |-> IF l = key THEN nth ELSE @[l]]]
    BY SendStep DEF QueueInv
  <1>2. new.n_src.num + 1 = n /\ KeyOf(new) = key /\ new.nth = nth
    BY DEF KeyOf
  <1>3. n_src.num \in Nat /\ \A q \in q_out : q.n_src.num \in Nat /\ q.nth \in Nat
    <2>1. q_out \subseteq QueueEntries
      BY DEF QueueInv, TypeInv, TypeOK
    <2>2. \A q \in QueueEntries : q.n_src.num \in Nat /\ q.nth \in Nat
      BY QuotaAssumption DEF QueueEntries
    <2>3. new.n_src.num \in Nat
      BY <1>1, <2>2
    <2> QED
      BY <2>1, <2>2, <2>3
  <1>4. nth = Entries(n, key) + 1 /\ nth \in Nat /\ Entries(n, key) \in Nat
    <2>1. \A l \in DOMAIN num_entries[n] : num_entries[n][l] \in 1 .. kSend
      BY <1>1 DEF QueueInv, TypeInv, TypeOK
    <2>2. \A l \in DOMAIN num_entries[n] : num_entries[n][l] \in Nat
      BY <2>1, QuotaAssumption
    <2>3. Entries(n, key) \in Nat
      BY <2>2 DEF Entries
    <2> HIDE DEF key, n
    <2> QED
      BY <2>3
  <1> HIDE DEF new, nth, key, n
  <1>5. \A q \in q_out : ~(q.n_src.num = new.n_src.num /\ KeyOf(q) = key /\ q.nth = nth)
    <2> SUFFICES ASSUME NEW q \in q_out, q.n_src.num + 1 = n, KeyOf(q) = key, q.nth = nth
                 PROVE  FALSE
      BY <1>2, <1>3
    <2> QED
      BY <1>3, <1>4 DEF QueueInv, Counted
  <1>6. Distinct'
    BY <1>1, <1>2, <1>5 DEF QueueInv, Distinct, KeyOf
  <1>7. /\ DOMAIN num_entries' = DOMAIN num_entries
        /\ Entries(n, key)' = nth
        /\ \A i \in DOMAIN num_entries : \A k : i # n \/ k # key => Entries(i, k)' = Entries(i, k)
    BY <1>1 DEF Entries
  <1>8. \A q \in q_out : q.nth <= Entries(q.n_src.num + 1, KeyOf(q))'
    <2> TAKE q \in q_out
    <2>1. q.n_src.num + 1 \in DOMAIN num_entries /\ q.nth <= Entries(q.n_src.num + 1, KeyOf(q))
      BY DEF QueueInv, Counted
    <2>2. CASE q.n_src.num + 1 = n /\ KeyOf(q) = key
      BY <1>3, <1>4, <1>7, <2>1, <2>2
    <2>3. CASE q.n_src.num + 1 # n \/ KeyOf(q) # key
      BY <1>7, <2>1, <2>3
    <2> QED
      BY <2>2, <2>3
  <1>9. Counted'
    BY <1>1, <1>2, <1>4, <1>7, <1>8 DEF QueueInv, Counted, KeyOf
  <1> QED
    BY <1>6, <1>9
\* The other actions give no new entry and take no counter away.
LEMMA OtherQueueInv ==
  ASSUME QueueInv, q_out' \subseteq q_out,
         \/ UNCHANGED num_entries
         \/ generate_pseudonym
  PROVE  Distinct' /\ Counted'
  <1>1. Distinct'
    BY DEF QueueInv, Distinct, KeyOf
  <1>2. \A i \in DOMAIN num_entries : i \in DOMAIN num_entries' /\ num_entries'[i] = num_entries[i]
    <2>1. CASE UNCHANGED num_entries
      BY <2>1
    <2>2. CASE generate_pseudonym
      <3>1. num_entries' = Append(num_entries, [l \in {} |-> 0])
        BY <2>2 DEF generate_pseudonym
      <3>2. [l \in {} |-> 0] \in Counters
        <4>1. [l \in {} |-> 0] \in [{} -> 1 .. kSend] /\ {} \in SUBSET Words
          OBVIOUS
        <4> QED
          BY <4>1 DEF Counters
      <3> QED
        BY <3>1, <3>2 DEF QueueInv, TypeInv
    <2> QED
      BY <2>1, <2>2
  <1>3. \A i \in DOMAIN num_entries : \A k : Entries(i, k)' = Entries(i, k)
    BY <1>2 DEF Entries
  <1>4. Counted'
    BY <1>2, <1>3 DEF QueueInv, Counted, KeyOf
  <1> QED
    BY <1>1, <1>4

\* A step accepts a message, carries out a round, or leaves queue and round.
LEMMA QueueSteps ==
  ASSUME TypeInv, [Next]_vars
  PROVE  \/ /\ crashed' = "no"
            /\ \E n_src \in Blobs, msg \in Msgs, n_dst \in Destinations, t_dst \in SendTimes :
                 send_message(n_src, msg, n_dst, t_dst)
         \/ crashed' = "no" /\ traffic_out
         \/ /\ UNCHANGED <<q_out, cur_round>>
            /\ now' \in {now, now + 1}
            /\ UNCHANGED num_entries \/ generate_pseudonym
  <1> DEFINE kept == /\ UNCHANGED <<q_out, cur_round, num_entries>>
                     /\ now' \in {now, now + 1}
  <1>1. ASSUME NEW place, Crash(place) PROVE kept
    BY <1>1 DEF Crash, memory, queueVars
  <1>2. CASE UNCHANGED vars
    BY <1>2 DEF vars, queueVars
  <1>3. CASE Tick \/ ServerPacket \/ first_packet_from_peer
    BY <1>3 DEF Tick, ServerPacket, received_msg_from_server, first_packet_from_peer, queueVars
  <1>4. CASE generate_pseudonym
    BY <1>4 DEF generate_pseudonym
  <1>5. CASE SendMessage
    <2> PICK n_src \in Blobs, msg \in Msgs, n_dst \in Destinations, t_dst \in SendTimes :
               send_message(n_src, msg, n_dst, t_dst)
      BY <1>5 DEF SendMessage
    <2>1. CASE Crash("send_message")
      BY <1>1, <2>1
    <2>2. CASE ~Crash("send_message")
      BY <2>2 DEF send_message, Running
    <2> QED
      BY <2>1, <2>2
  <1>6. CASE ReceiveMessage
    <2> PICK n_dst \in Blobs : receive_message(n_dst)
      BY <1>6 DEF ReceiveMessage
    <2>1. CASE Crash("receive_message") \/ Crash("undefined")
      BY <1>1, <2>1
    <2>2. CASE ~Crash("receive_message") /\ ~Crash("undefined")
      BY <2>2 DEF receive_message, queueVars
    <2> QED
      BY <2>1, <2>2
  <1>7. CASE TrafficIn
    <2> PICK sender, round, p : traffic_in(sender, round, p)
      BY <1>7 DEF TrafficIn
    <2>1. CASE Crash("cur_or_next < 2") \/ Crash("traffic_in")
      BY <1>1, <2>1
    <2>2. CASE ~Crash("cur_or_next < 2") /\ ~Crash("traffic_in")
      <3>1. UNCHANGED <<crashed, setupVars, now, cur_round, queueVars, roundVars>>
        BY <2>2, Zenon DEF traffic_in
      <3> QED
        BY <3>1 DEF queueVars
    <2> QED
      BY <2>1, <2>2
  <1>8. CASE traffic_out
    <2>1. CASE \E place : Crash(place)
      BY <1>1, <2>1
    <2>2. CASE ~\E place : Crash(place)
      <3> DEFINE l == calculate_subround_from_t(now) \div 4
      <3>1. PICK random \in Quorums : RunRound(l, random) /\ crashed = "no"
        BY <1>8, <2>2 DEF traffic_out, Running
      <3> HIDE DEF l
      <3>2. crashed' = "no"
        BY <2>2, <3>1 DEF RunRound
      <3> QED
        BY <1>8, <3>2
    <2> QED
      BY <2>1, <2>2
  <1> QED
    BY <1>2, <1>3, <1>4, <1>5, <1>6, <1>7, <1>8 DEF Next

\* The inductive invariant of the queue
LEMMA QueueInvInductive ==
  /\ Init => QueueInv
  /\ QueueInv /\ [Next]_vars => QueueInv'
  <1>1. Init => QueueInv
    <2> SUFFICES ASSUME Init PROVE QueueInv
      OBVIOUS
    <2>1. q_out = {}
      BY DEF Init
    <2> QED
      BY <2>1, InitTypeInv DEF QueueInv, Distinct, Counted
  <1>2. ASSUME QueueInv, [Next]_vars PROVE QueueInv'
    <2>1. TypeInv'
      BY <1>2, NextTypeInv DEF QueueInv
    <2>2. Distinct' /\ Counted'
      <3>1. CASE crashed' = "no" /\ traffic_out
        <4>1. q_out' \subseteq q_out /\ UNCHANGED num_entries
          BY <1>2, <3>1, TrafficOutStep DEF QueueInv
        <4> QED
          BY <1>2, <4>1, OtherQueueInv
      <3>2. CASE /\ UNCHANGED <<q_out, cur_round>>
                 /\ UNCHANGED num_entries \/ generate_pseudonym
        BY <1>2, <3>2, OtherQueueInv
      <3> QED
        BY <1>2, <3>1, <3>2, QueueSteps, SendQueueInv DEF QueueInv
    <2> QED
      BY <2>1, <2>2 DEF QueueInv
  <1> QED
    BY <1>1, <1>2

\* The places named by FirstFault are reached in a round alone.
LEMMA RoundFault ==
  ASSUME TypeInv, [Next]_vars, NEW place, crashed # place, crashed' = place,
         place \notin {"send_message", "receive_message", "undefined", "cur_or_next < 2",
                       "traffic_in", "cur_round_ == (subround / 4) - 1"}
  PROVE  \E l \in Words, random \in Quorums :
           LET ov == OverlayUpdate(overlay, l, in[0].structure, random, NoPeer)
           IN  /\ l * RoundLength <= now
               /\ cur_round = WSub(l, 1)
               /\ FirstFault(ov, PushAgree(ov), l) = place
  <1>1. traffic_out
    <2>1. \A other \in {"send_message", "receive_message", "undefined", "cur_or_next < 2",
                        "traffic_in"} : ~Crash(other)
      BY DEF Crash
    <2>2. ~UNCHANGED vars /\ ~UNCHANGED crashed
      BY DEF vars
    <2>3. ~Tick /\ ~ServerPacket /\ ~first_packet_from_peer /\ ~generate_pseudonym
      BY <2>2 DEF Tick, ServerPacket, received_msg_from_server, first_packet_from_peer,
                  generate_pseudonym
    <2>4. ~SendMessage /\ ~ReceiveMessage
      BY <2>1, <2>2 DEF SendMessage, ReceiveMessage, send_message, receive_message
    <2>5. ~TrafficIn
      <3> SUFFICES ASSUME NEW sender, NEW round, NEW p, traffic_in(sender, round, p)
                   PROVE  FALSE
        BY DEF TrafficIn
      <3>1. UNCHANGED <<crashed, setupVars, now, cur_round, queueVars, roundVars>>
        BY <2>1, Zenon DEF traffic_in
      <3> QED
        BY <2>2, <3>1
    <2> QED
      BY <2>2, <2>3, <2>4, <2>5 DEF Next
  <1> DEFINE l == calculate_subround_from_t(now) \div 4
  <1>2. l \in Words /\ l * RoundLength <= now
    BY RoundOfNow DEF TypeInv, TypeOK
  <1>3. cur_round = WSub(l, 1) /\ \E random \in Quorums : RunRound(l, random)
    BY <1>1 DEF traffic_out, Crash
  <1> HIDE DEF l
  <1>4. PICK random \in Quorums : RunRound(l, random)
    BY <1>3
  <1> DEFINE ov == OverlayUpdate(overlay, l, in[0].structure, random, NoPeer)
  <1>5. FirstFault(ov, PushAgree(ov), l) = place
    BY <1>4 DEF RunRound, Crash
  <1> QED
    BY <1>2, <1>3, <1>5

\* A round whose entries fit does not end at the assert of
\* client_enclave.cpp:386.
LEMMA NextAnnounceFits ==
  ASSUME QueueInv, AnnounceFits, [Next]_vars
  PROVE  AnnounceFits'
  <1> DEFINE place == "out_announce[i].size()"
  <1> SUFFICES ASSUME crashed' = place PROVE FALSE
    BY DEF AnnounceFits
  <1>1. crashed # place /\ TypeInv
    BY DEF AnnounceFits, QueueInv
  <1>2. PICK l \in Words, random \in Quorums :
          LET ov == OverlayUpdate(overlay, l, in[0].structure, random, NoPeer)
          IN  FirstFault(ov, PushAgree(ov), l) = place
    BY <1>1, RoundFault
  <1> DEFINE ov    == OverlayUpdate(overlay, l, in[0].structure, random, NoPeer)
             agree == PushAgree(ov)
  <1>3. FirstFault(ov, agree, l) = place
    BY <1>2
  <1> HIDE DEF ov, agree
  <1>4. AnnounceOverflow(ov, l)
    BY <1>3 DEF FirstFault
  <1>5. l \in Nat
    BY TimingTypes DEF Words
  <1> QED
    BY <1>4, <1>5, PoppedBounded, QuotaAssumption DEF AnnounceOverflow

(* Whatever users hand in, the messages due in a round fit into its fixed  *)
(* number of announcements (client_enclave.cpp:144-158, 235-241, 386).     *)
THEOREM AnnouncementsFit == Spec => []AnnounceFits
  <1>1. Init => QueueInv /\ AnnounceFits
    BY QueueInvInductive DEF Init, AnnounceFits
  <1>2. QueueInv /\ AnnounceFits /\ [Next]_vars => QueueInv' /\ AnnounceFits'
    BY QueueInvInductive, NextAnnounceFits
  <1> QED
    BY <1>1, <1>2, PTL DEF Spec

-----------------------------------------------------------------------------
(* Punctuality.  A queue that holds an entry whose round is over holds a   *)
(* wrapped one whose round is over: only such an entry gets past the check *)
(* of send_message, and it never leaves the queue.                         *)

NextRound == WAdd(cur_round, 1)

Stale(q) == q.t_dst < DueFrom(NextRound, Dimension)

PunctualInv ==
  /\ TypeInv
  /\ NextRound * RoundLength <= now + RoundLength
  /\ (\E q \in q_out : Stale(q)) => (\E q \in q_out : Stale(q) /\ Wrapped(q))

\* Clock, rounds and delivery times are naturals.
LEMMA TimesAreNaturals ==
  ASSUME TypeInv
  PROVE  /\ now \in Nat
         /\ NextRound \in Nat
         /\ \A q \in q_out : q.t_dst \in Nat
  <1>1. now \in 0 .. MaxTime /\ cur_round \in Words /\ q_out \subseteq QueueEntries
    BY DEF TypeInv, TypeOK
  <1>2. cur_round \in Nat /\ cur_round < Word /\ Word \in Nat
    BY <1>1, TimingTypes DEF Words
  <1>3. NextRound \in Nat
    BY <1>2 DEF NextRound, WAdd
  <1>4. \A q \in QueueEntries : q.t_dst \in Nat
    BY TimingTypes DEF QueueEntries, Words
  <1> QED
    BY <1>1, <1>3, <1>4, ClockAssumption

\* The round after one that the clock has reached
LEMMA RoundAfter ==
  ASSUME NEW l \in Words, NEW t \in 0 .. MaxTime, l * RoundLength <= t
  PROVE  /\ WAdd(l, 1) = l + 1
         /\ WAdd(WSub(l, 1), 1) = l
  <1>1. Lead(Dimension) \in Nat /\ RoundLength \in Nat \ {0} /\ Word \in Nat /\ l \in Nat
    BY TimingTypes DEF Lead, Words
  <1>2. l <= l * RoundLength
    BY <1>1
  <1>3. l + 1 < Word
    BY <1>1, <1>2, ClockAssumption
  <1> QED
    BY <1>1, <1>3 DEF WAdd, WSub

\* A round later, everything is due a round later.
LEMMA DueFromNext ==
  ASSUME NEW l \in Nat
  PROVE  /\ DueFrom(l, Dimension) \in Nat
         /\ DueFrom(l + 1, Dimension) = DueFrom(l, Dimension) + RoundLength
         /\ DueFrom(l, Dimension) + RoundLength = l * RoundLength + Lead(Dimension)
  BY TimingTypes DEF DueFrom, Lead

\* The lead of an accepted message suffices for the next round.
LEMMA InTime ==
  ASSUME PunctualInv, NEW t_dst \in SendTimes, ~TooLate(t_dst),
         ~(t_dst < Lead(Dimension))
  PROVE  ~(t_dst < DueFrom(NextRound, Dimension))
  <1>1. /\ t_dst \in Nat /\ Lead(Dimension) \in Nat /\ RoundLength \in Nat
        /\ now \in Nat /\ NextRound \in Nat
    BY ClockAssumption, TimingTypes, TimesAreNaturals DEF Words, Lead, PunctualInv
  <1>2. now + Lead(Dimension) <= t_dst
    BY <1>1 DEF TooLate, WSub
  <1>3. NextRound * RoundLength \in Nat
    BY <1>1
  <1>4. NextRound * RoundLength <= now + RoundLength
    BY DEF PunctualInv
  <1> QED
    BY <1>1, <1>2, <1>3, <1>4, DueFromNext

\* An accepted message keeps the invariant.
LEMMA SendPunctual ==
  ASSUME PunctualInv,
         NEW n_src \in Blobs, NEW msg \in Msgs, NEW n_dst \in Destinations,
         NEW t_dst \in SendTimes, send_message(n_src, msg, n_dst, t_dst), crashed' = "no"
  PROVE  PunctualInv'
  <1>1. TypeInv'
    BY SendTypeInv DEF PunctualInv
  <1>2. PICK new : /\ new.t_dst = t_dst
                   /\ q_out' = q_out \cup {new}
                   /\ ~TooLate(t_dst)
                   /\ UNCHANGED <<now, cur_round>>
    BY SendStep DEF PunctualInv
  <1>3. \A q : Stale(q)' <=> Stale(q)
    BY <1>2 DEF Stale, NextRound
  <1>4. Stale(new) => Wrapped(new)
    BY <1>2, InTime DEF Stale, Wrapped
  <1>5. (NextRound * RoundLength <= now + RoundLength)'
    BY <1>2 DEF PunctualInv, NextRound
  <1> QED
    BY <1>1, <1>2, <1>3, <1>4, <1>5 DEF PunctualInv, Wrapped

\* A round takes everything due in it from the queue, unless an entry whose
\* round is over blocks the queue.
LEMMA RoundPunctual ==
  ASSUME PunctualInv, traffic_out, crashed' = "no"
  PROVE  PunctualInv'
  <1>1. TypeInv'
    BY TrafficOutTypeInv DEF PunctualInv
  <1>2. PICK l \in Words : /\ l * RoundLength <= now
                           /\ cur_round = WSub(l, 1)
                           /\ cur_round' = l
                           /\ q_out' = q_out \ Popped(l)
                           /\ now' = now
    BY TrafficOutStep DEF PunctualInv
  <1>3. NextRound = l /\ NextRound' = l + 1
    BY <1>2, RoundAfter DEF PunctualInv, TypeInv, TypeOK, NextRound
  <1>4. l \in Nat /\ RoundLength \in Nat \ {0} /\ now \in Nat
    BY TimingTypes, TimesAreNaturals DEF Words, PunctualInv
  <1>5. (NextRound * RoundLength <= now + RoundLength)'
    <2>1. (l + 1) * RoundLength = l * RoundLength + RoundLength
      BY <1>4
    <2>2. l * RoundLength \in Nat
      BY <1>4
    <2> QED
      BY <1>2, <1>3, <1>4, <2>1, <2>2
  <1>6. \A q \in q_out : q.t_dst \in Nat
    BY TimesAreNaturals DEF PunctualInv
  <1>7. \A q \in q_out : Stale(q)' <=> q.t_dst < DueFrom(l, Dimension) + RoundLength
    BY <1>3, <1>4, DueFromNext DEF Stale
  <1>8. \A q \in q_out : Stale(q) => Stale(q)'
    BY <1>3, <1>4, <1>6, <1>7, DueFromNext DEF Stale
  <1>9. CASE \E q \in q_out : Stale(q)
    <2>1. q_out' = q_out
      BY <1>2, <1>3, <1>9 DEF Popped, Stale
    <2>2. PICK q \in q_out : Stale(q) /\ Wrapped(q)
      BY <1>9 DEF PunctualInv
    <2>3. Stale(q)' /\ Wrapped(q)' /\ q \in q_out'
      BY <1>8, <2>1, <2>2 DEF Wrapped
    <2> QED
      BY <1>1, <1>5, <2>3 DEF PunctualInv
  <1>10. CASE ~\E q \in q_out : Stale(q)
    <2>1. \A q \in q_out : is_due(q.t_dst, l, Dimension) => q \notin q_out'
      BY <1>2, <1>3, <1>10 DEF Popped, Stale
    <2>2. \A q \in q_out' : q \in q_out
      BY <1>2
    <2>3. \A q \in q_out' : ~Stale(q)'
      BY <1>3, <1>4, <1>6, <1>7, <1>10, <2>1, <2>2, DueFromNext DEF Stale, is_due
    <2> QED
      BY <1>1, <1>5, <2>3 DEF PunctualInv
  <1> QED
    BY <1>9, <1>10

(* A message that is accepted with its lead is announced in the round it   *)
(* is due in, unless an entry accepted without the lead blocks the queue   *)
(* (client_enclave.cpp:136-142, 235-241).                                  *)
THEOREM AnnouncedInTime == Spec => []Punctual
  <1>1. Init => PunctualInv
    <2> SUFFICES ASSUME Init PROVE PunctualInv
      OBVIOUS
    <2>1. NextRound = 0 /\ now = 0 /\ q_out = {}
      BY TimingTypes DEF Init, NextRound, WAdd
    <2>2. NextRound * RoundLength <= now + RoundLength
      BY <2>1, TimingTypes
    <2> QED
      BY <2>1, <2>2, InitTypeInv DEF PunctualInv
  <1>2. PunctualInv /\ [Next]_vars => PunctualInv'
    <2> SUFFICES ASSUME PunctualInv, [Next]_vars PROVE PunctualInv'
      OBVIOUS
    <2>1. CASE UNCHANGED <<q_out, cur_round>> /\ now' \in {now, now + 1}
      <3>1. TypeInv'
        BY NextTypeInv DEF PunctualInv
      <3>2. UNCHANGED NextRound /\ \A q : Stale(q)' <=> Stale(q)
        BY <2>1 DEF NextRound, Stale
      <3>3. /\ now \in Nat /\ RoundLength \in Nat
            /\ NextRound * RoundLength \in Nat
            /\ NextRound * RoundLength <= now + RoundLength
        BY TimingTypes, TimesAreNaturals DEF PunctualInv
      <3>4. (NextRound * RoundLength <= now + RoundLength)'
        BY <2>1, <3>2, <3>3
      <3> QED
        BY <2>1, <3>1, <3>2, <3>4 DEF PunctualInv, Wrapped
    <2> QED
      BY <2>1, QueueSteps, SendPunctual, RoundPunctual DEF PunctualInv
  <1>3. PunctualInv => Punctual
    <2> SUFFICES ASSUME PunctualInv, \A q \in q_out : ~Wrapped(q), NEW q \in q_out
                 PROVE  q.t_dst >= DueFrom(WAdd(cur_round, 1), Dimension)
      BY DEF Punctual
    <2>1. ~Stale(q)
      BY DEF PunctualInv
    <2>2. q.t_dst \in Nat /\ NextRound \in Nat
      BY TimesAreNaturals DEF PunctualInv
    <2> QED
      BY <2>1, <2>2, DueFromNext DEF Stale, NextRound
  <1> QED
    BY <1>1, <1>2, <1>3, PTL DEF Spec

-----------------------------------------------------------------------------
(* No accepted message leaves the queue before its round: the counters of  *)
(* send_message and the messages that wait agree.                          *)

\* The rounds of all delivery times fit into an int, the type in which
\* send_message keeps them (client_enclave.cpp:145).
RoundsAreInts == \A t \in SendTimes : 2 * calculate_round_from_t(t) < IntWord

\* The messages of a pseudonym that wait for a round
Waiting(n, k) ==
  {q \in q_out : q.n_src.num + 1 = n /\ calculate_round_from_t(q.t_dst) = k}

\* The messages for round k can still be announced.
Future(k) == k * RoundLength >= DueFrom(NextRound, Dimension)

AllWait ==
  \A n \in DOMAIN num_entries : \A k \in DOMAIN num_entries[n] :
    Future(k) => Cardinality(Waiting(n, k)) = num_entries[n][k]

LossInv ==
  /\ QueueInv
  /\ IsFiniteSet(q_out)
  /\ \A q \in q_out : q.t_dst \in SendTimes
  /\ AllWait

\* The key of a message is the round it is delivered in.
LEMMA KeyIsRound ==
  ASSUME RoundsAreInts, NEW t \in SendTimes
  PROVE  IntKey(calculate_round_from_t(t)) = calculate_round_from_t(t)
  <1> DEFINE r == calculate_round_from_t(t)
  <1>1. t \in Nat /\ RoundLength \in Nat \ {0} /\ IntWord \in Nat \ {0}
    BY ClockAssumption, TimingTypes DEF Words
  <1>2. r \in Nat
    BY <1>1, DivBounds DEF calculate_round_from_t
  <1>3. 2 * r < IntWord
    BY DEF RoundsAreInts
  <1> HIDE DEF r
  <1>4. r % IntWord = r
    BY <1>1, <1>2, <1>3
  <1> QED
    BY <1>3, <1>4 DEF IntKey, r

\* An accepted message is counted, and waits.
LEMMA SendAllWait ==
  ASSUME RoundsAreInts, LossInv,
         NEW n_src \in Blobs, NEW msg \in Msgs, NEW n_dst \in Destinations,
         NEW t_dst \in SendTimes, send_message(n_src, msg, n_dst, t_dst), crashed' = "no"
  PROVE  /\ IsFiniteSet(q_out')
         /\ \A q \in q_out' : q.t_dst \in SendTimes
         /\ AllWait'
  <1> DEFINE key == IntKey(calculate_round_from_t(t_dst))
             n   == n_src.num + 1
             nth == Entries(n, key) + 1
             new == [n_src |-> n_src, m |-> msg, n_dst |-> n_dst, t_dst |-> t_dst, nth |-> nth]
  <1>1. /\ n \in DOMAIN num_entries
        /\ new \in QueueEntries
        /\ q_out' = q_out \cup {new}
        /\ num_entries' = [num_entries EXCEPT
             ![n] = [l \in DOMAIN @ \cup {key} |-> IF l = key THEN nth ELSE @[l]]]
        /\ cur_round' = cur_round
    BY SendStep DEF LossInv, QueueInv
  <1>2. /\ new.n_src.num + 1 = n
        /\ new.t_dst = t_dst
        /\ new.nth = nth
        /\ calculate_round_from_t(new.t_dst) = key
    BY KeyIsRound
  <1>3. nth = Entries(n, key) + 1
    OBVIOUS
  <1> HIDE DEF new, nth, key, n
  <1>4. IsFiniteSet(q_out') /\ \A q \in q_out' : q.t_dst \in SendTimes
    BY <1>1, <1>2, FS_AddElement DEF LossInv
  <1>5. \A q \in q_out : calculate_round_from_t(q.t_dst) = KeyOf(q)
    BY KeyIsRound DEF LossInv, KeyOf
  <1>6. Entries(n, key) \in Nat
    <2>1. \A l \in DOMAIN num_entries[n] : num_entries[n][l] \in 1 .. kSend
      BY <1>1 DEF LossInv, QueueInv, TypeInv, TypeOK
    <2> QED
      BY <2>1, QuotaAssumption DEF Entries
  <1>7. \A q \in Waiting(n, key) : q.nth <= Entries(n, key) /\ q.nth \in 1 .. kSend
    <2>1. \A q \in Waiting(n, key) : q \in q_out /\ q.n_src.num + 1 = n /\ KeyOf(q) = key
      BY <1>5 DEF Waiting
    <2>2. \A q \in q_out : q.nth \in 1 .. kSend
      BY DEF LossInv, QueueInv, TypeInv, TypeOK, QueueEntries
    <2> QED
      BY <2>1, <2>2 DEF LossInv, QueueInv, Counted
  <1>8. new \notin Waiting(n, key) /\ IsFiniteSet(Waiting(n, key))
    <2>1. new \notin Waiting(n, key)
      BY <1>2, <1>3, <1>6, <1>7
    <2>2. Waiting(n, key) \subseteq q_out
      BY DEF Waiting
    <2> QED
      BY <2>1, <2>2, FS_Subset DEF LossInv
  <1>9. Waiting(n, key)' = Waiting(n, key) \cup {new}
    BY <1>1, <1>2 DEF Waiting
  <1>10. \A i, k : i # n \/ k # key => Waiting(i, k)' = Waiting(i, k)
    BY <1>1, <1>2 DEF Waiting
  <1>11. \A k : Future(k)' <=> Future(k)
    BY <1>1 DEF Future, NextRound
  <1>12. Future(key) => Cardinality(Waiting(n, key)) = Entries(n, key)
    <2>1. CASE key \in DOMAIN num_entries[n]
      BY <1>1, <2>1 DEF LossInv, AllWait, Entries
    <2>2. CASE key \notin DOMAIN num_entries[n]
      <3>1. Entries(n, key) = 0
        BY <2>2 DEF Entries
      <3>2. Waiting(n, key) = {}
        BY <1>7, <3>1
      <3> QED
        BY <3>1, <3>2, FS_EmptySet
    <2> QED
      BY <2>1, <2>2
  <1>13. Future(key) => Cardinality(Waiting(n, key)') = nth
    BY <1>3, <1>8, <1>9, <1>12, FS_AddElement
  <1>14. ASSUME NEW i \in DOMAIN num_entries', NEW k \in DOMAIN num_entries'[i], Future(k)
         PROVE  Cardinality(Waiting(i, k)') = num_entries'[i][k]
    <2>1. CASE i = n /\ k = key
      BY <1>1, <1>13, <1>14, <2>1
    <2>2. CASE i # n \/ k # key
      <3>1. i \in DOMAIN num_entries /\ k \in DOMAIN num_entries[i]
            /\ num_entries'[i][k] = num_entries[i][k]
        BY <1>1, <1>14, <2>2
      <3> QED
        BY <1>10, <1>14, <2>2, <3>1 DEF LossInv, AllWait
    <2> QED
      BY <2>1, <2>2
  <1> QED
    BY <1>4, <1>11, <1>14 DEF AllWait

\* A round takes only messages of one round from the queue, and this round
\* is over with it.
LEMMA RoundAllWait ==
  ASSUME LossInv, traffic_out, crashed' = "no"
  PROVE  /\ IsFiniteSet(q_out')
         /\ \A q \in q_out' : q.t_dst \in SendTimes
         /\ AllWait'
  <1>1. TypeInv
    BY DEF LossInv, QueueInv
  <1>2. PICK l \in Words : /\ l * RoundLength <= now
                           /\ cur_round = WSub(l, 1)
                           /\ cur_round' = l
                           /\ q_out' = q_out \ Popped(l)
                           /\ num_entries' = num_entries
    BY <1>1, TrafficOutStep
  <1>3. NextRound = l /\ NextRound' = l + 1
    BY <1>1, <1>2, RoundAfter DEF TypeInv, TypeOK, NextRound
  <1>4. l \in Nat /\ RoundLength \in Nat \ {0}
    BY TimingTypes DEF Words
  <1>5. IsFiniteSet(q_out') /\ \A q \in q_out' : q.t_dst \in SendTimes
    BY <1>2, FS_Subset DEF LossInv
  <1>6. ASSUME NEW n \in DOMAIN num_entries, NEW k \in DOMAIN num_entries[n], Future(k)'
        PROVE  Future(k) /\ Waiting(n, k)' = Waiting(n, k)
    <2>1. k \in Nat
      BY <1>1, TimingTypes DEF TypeInv, TypeOK, Words
    <2>2. k * RoundLength \in Nat
      BY <1>4, <2>1
    <2>3. k * RoundLength >= DueFrom(l, Dimension) + RoundLength
      BY <1>3, <1>4, <1>6, DueFromNext DEF Future
    <2>4. Future(k)
      BY <1>3, <1>4, <2>2, <2>3, DueFromNext DEF Future
    <2>5. \A q \in Popped(l) : q \notin Waiting(n, k)
      <3> SUFFICES ASSUME NEW q \in Popped(l), calculate_round_from_t(q.t_dst) = k PROVE FALSE
        BY DEF Waiting
      <3>1. q \in q_out /\ is_due(q.t_dst, l, Dimension)
        BY DEF Popped
      <3>2. q.t_dst \in Nat
        BY <1>1, <3>1, TimesAreNaturals
      <3>3. RoundLength * k <= q.t_dst
        BY <1>4, <3>2, DivBounds DEF calculate_round_from_t
      <3>4. q.t_dst < DueFrom(l, Dimension) + RoundLength
        BY <3>1 DEF is_due
      <3>5. DueFrom(l, Dimension) \in Nat /\ RoundLength * k = k * RoundLength
        BY <1>4, <2>1, DueFromNext
      <3> QED
        BY <1>4, <2>2, <2>3, <3>2, <3>3, <3>4, <3>5
    <2> QED
      BY <1>2, <2>4, <2>5 DEF Waiting
  <1> QED
    BY <1>2, <1>5, <1>6 DEF LossInv, AllWait

\* The other steps leave the queue, and generate_pseudonym adds a pseudonym
\* that has no counter yet.
LEMMA OtherAllWait ==
  ASSUME LossInv, UNCHANGED <<q_out, cur_round>>,
         UNCHANGED num_entries \/ generate_pseudonym
  PROVE  /\ IsFiniteSet(q_out')
         /\ \A q \in q_out' : q.t_dst \in SendTimes
         /\ AllWait'
  <1>1. \A n, k : Waiting(n, k)' = Waiting(n, k) /\ (Future(k)' <=> Future(k))
    BY DEF Waiting, Future, NextRound
  <1>2. \A n \in DOMAIN num_entries' :
          \/ n \in DOMAIN num_entries /\ num_entries'[n] = num_entries[n]
          \/ DOMAIN num_entries'[n] = {}
    <2>1. CASE UNCHANGED num_entries
      BY <2>1
    <2>2. CASE generate_pseudonym
      <3>1. num_entries' = Append(num_entries, [l \in {} |-> 0])
        BY <2>2 DEF generate_pseudonym
      <3>2. [l \in {} |-> 0] \in Counters
        <4>1. [l \in {} |-> 0] \in [{} -> 1 .. kSend] /\ {} \in SUBSET Words
          OBVIOUS
        <4> QED
          BY <4>1 DEF Counters
      <3>3. num_entries \in Seq(Counters)
        BY DEF LossInv, QueueInv, TypeInv
      <3>4. \A n \in DOMAIN num_entries' :
              IF n \in DOMAIN num_entries THEN num_entries'[n] = num_entries[n]
              ELSE num_entries'[n] = [l \in {} |-> 0]
        BY <3>1, <3>2, <3>3
      <3> QED
        BY <3>4
    <2> QED
      BY <2>1, <2>2
  <1>3. AllWait'
    BY <1>1, <1>2 DEF LossInv, AllWait
  <1> QED
    BY <1>3 DEF LossInv

(* As long as rounds fit into an int, no accepted message leaves the queue *)
(* before its round: the counter of its pseudonym and round is the number  *)
(* of messages that wait (client_enclave.cpp:145-158, 235-241).            *)
THEOREM NothingIsLost ==
  ASSUME RoundsAreInts
  PROVE  Spec => []NothingLost
  <1>1. Init => LossInv
    <2> SUFFICES ASSUME Init PROVE LossInv
      OBVIOUS
    <2>1. q_out = {} /\ num_entries = <<>>
      BY DEF Init
    <2>2. QueueInv
      BY QueueInvInductive
    <2>3. IsFiniteSet(q_out)
      BY <2>1, FS_EmptySet
    <2> QED
      BY <2>1, <2>2, <2>3 DEF LossInv, AllWait
  <1>2. LossInv /\ [Next]_vars => LossInv'
    <2> SUFFICES ASSUME LossInv, [Next]_vars PROVE LossInv'
      OBVIOUS
    <2>1. QueueInv' /\ TypeInv
      BY QueueInvInductive DEF LossInv, QueueInv
    <2>2. /\ IsFiniteSet(q_out')
          /\ \A q \in q_out' : q.t_dst \in SendTimes
          /\ AllWait'
      BY <2>1, QueueSteps, SendAllWait, RoundAllWait, OtherAllWait
    <2> QED
      BY <2>1, <2>2 DEF LossInv
  <1>3. LossInv => NothingLost
    BY DEF LossInv, AllWait, Future, Waiting, NextRound, NothingLost
  <1> QED
    BY <1>1, <1>2, <1>3, PTL DEF Spec
=============================================================================
