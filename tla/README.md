# Anonymous communication: a TLA+ development

The program is a prototype of an anonymous messaging system: 81 clients, each
with an SGX enclave, form an overlay network of 2^d quorums (d = 3) and pass
messages to each other in synchronous rounds of 4·kDelta seconds. A login
server collects the clients, tells each its place in the overlay, and ends.

This directory holds TLA+ modules translated from the code, TLC configurations
that check them on small instances, and theorems that TLAPS checks for every value
of the constants: about the sending side of a client, its buffers and agreement runs, what it routes,
the startup, the rounds of several clients, and the overlay. Line numbers refer to the files under `src/`.
`PROJECT.json` maps every definition to its lines.

## 1. Inventory

| Component | State | Operations |
|---|---|---|
| login server enclave (`server/trusted/server_enclave.*`) | registered clients, "initialized" | register a join message; with the last one draw the quorums, assert that none is empty, send all init messages |
| login server host (`server/untrusted/*`) | sockets | one message per turn of the loop; the loop ends when the enclave is initialized |
| client host (`client/untrusted/*`) | sockets, `initialized` | per turn: one packet from the server/peer socket (the first goes to `received_msg_from_server`, all others to `traffic_in`), one user command, `traffic_out` |
| client enclave (`client/trusted/client_enclave.*`) | pseudonyms and their quota, queues `q_out_` and `q_in_for_pseudonyms_`, `cur_round_`, buffers `in_*_[0..1]`, agreement runs, remembered agreement peers | `network_init`, `received_msg_from_server`, `generate_pseudonym`, `send_message`, `receive_message`, `traffic_in`, `traffic_out` |
| overlay scheme (`overlay_structure_scheme.*`) | the quorum emulated now, before and next, and tables gamma_* of peers | `init`, `update` once per round |
| agreement scheme (`distributed_agreement_scheme.*`) | set of peers aware of one message | `update`, `finalize` |
| routing scheme (`routing_scheme.*`) | none | `route`, `determine_elements_to_be_cancelled` |
| round model (`helpers.h`, `config.h`) | none | rounds, subrounds, lead times |
| structures and serialisation (`structures.h`, `serialization.h`, `shared_structs.h`) | none | orders, dummies, (de)serialisation |
| cryptlib (`include/cryptlib.*`) | none | AES-GCM, CMAC, key generation |
| command-line interface (`client_interface/main.cpp`) | none | parses one command, sends it to a client |

**Interaction.** A client sends a *join* message. The 81st makes the server send
one *init* message to each client, one after the other. A client's clock starts with
its own init message. Each round, in the first quarter, the first call of
`traffic_out` carries out the round: overlay maintenance, announcements from
`q_out_`, agreement, injection, routing, predelivery, delivery. Its result
is one packet per receiver, stamped with the next round. Packets are buffered
by `traffic_in` under "this round" or "the next", and used when the round *after* their
stamp is entered, so that the latency of every step is two rounds. A message
is announced to the quorum its sender is associated with, that quorum agrees
on it for d + 2 rounds, injects it into the routing, which takes
2d + 2 rounds to the quorum of the receiver, and this quorum delivers it.

**What is hard here.**

* Clocks start at different times; packets of two rounds arrive mixed, late, or
  not at all; the receiver's buffers shift while they arrive.
* The overlay reconfigures itself under agreement runs and routes in flight:
  each refers to tables of an earlier round.
* The number of messages per round and peer is fixed; quotas enforced when a
  user hands in a message have to imply bounds asserted many rounds later.
* All times are unsigned and subtracted from one another.
* The first packet on a client's socket is taken for the server's.
* An assert or an uncaught exception ends a peer, and `traffic_out` asserts that
  no round was missed.

**What makes each component correct.**

* *server*: the tables handed out fit together; no quorum is empty; everybody is
  answered.
* *sending*: an accepted message is announced in its round, not lost,
  and the announcements of a round fit their slots.
* *agreement*: one run per message, in step with the other peers' runs, with the
  peers of the right round, over in time.
* *routing*: each tuple takes 2d hops and arrives at its quorum; overfull buckets
  are cancelled as a whole.
* *receiving*: packets are used in the round they were meant for; a message is
  handed over once, and only on the word of more than m_corrupt peers.
* *overlay*: after each reconfiguration the peers' tables fit together again.
* *serialisation*: what is read is what was written.

All hazards are listed at their lines in `PROJECT.json`, with the properties that
cover them, or the reason why none does yet.

## 2. Modules

```
Bits ──┬─ OverlayScheme ─┬─ RoutingScheme ─┬─ ClientEnclave ── ClientEnclaveProps ─┬─ MCClientEnclave
Timing ┤   Vectors ──────┘ AgreementScheme ┘                                       └─ ClientEnclaveProofs ── TrafficProofs
       │                 ├─ RoutingScheme ─┬─ Cancellation
       │                 │                 └─ RoutingProofs ── TrafficProofs
       │                 ├─ Startup ── StartupProofs
       │                 └─ Overlay ── OverlayProofs
       └─ Rounds ── RoundsProps ─┬─ MCRounds
                    ┆            └─ RoundsProofs
                    ┆ implements
                    LossyRounds
Wire
Bits ── Numbers ── Envelope ─┬─ MCEnvelope
Vectors ───────────┘         └─ EnvelopeProofs
DataLemmas (on Bits, Vectors) ── all modules of proofs but RoundsProofs
```

There is a state machine of one peer, one of all clocks, and one of all overlay tables. What they share is
the use of a packet two rounds after the one it was sent in: `Rounds` shows that the stamps and buffers amount to
this (`LossyRounds`), `ClientEnclave` lets any such packet arrive or get lost, and `Overlay` lets the rounds of
peers interleave in any way. So neither of the two rests on the timing of a network.

* **Timing**: rounds, subrounds, the lead a message needs, `is_due`, the narrowing
  to `int` of the quota's key, and unsigned addition and subtraction. `Word` and
  `IntWord` stand for 2^64 and 2^32.
* **Bits**: the bits of quorum ids. **Vectors**: `Selected` and `Filtered`, what the loops do that append
  the entries of one vector that pass a test to another.
* **OverlayScheme**: the members of `OverlayStructureScheme` are one record, and
  `update()` is the operator `OverlayUpdate`, built of one operator per numbered
  step of the code's comments. It returns the new members, the structure messages and
  the routing peers.
* **AgreementScheme**: `update` and `finalize` as operators on the set of aware peers.
* **RoutingScheme**: the order of tuples, the cancellation scan, and one hop.
  **Cancellation** runs the scan on all short vectors of tuples.
* **ClientEnclave**: the enclave as a state machine. Each entry point is an
  action of its own name. `traffic_out` is `RunRound`, whose parts are operators
  named for the stages; `FirstFault` lists, in the code's order, the
  asserts and throwing `.at()` calls. `crashed` holds the place where the
  enclave ended. The clock is `now`; the other peers are the constant operator
  `Payloads(sender, round)`, the packets each may send.
* **ClientEnclaveProps**: its properties. **MCClientEnclave**: constants
  and packets of the runs, and properties that need to know these packets.
* **LossyRounds**: the abstract specification of rounds, a mailbox indexed by them. A packet may be lost, but
  one that is taken in is used exactly two rounds after the one it was sent in. No time, no stamps, no two buffers.
* **Rounds**: several peers with explicit time. A clock starts with its peer's own init
  message; the host loop is `Receive` or `Timeout` (one `MainLoop`) and `FinishTurn`
  (the comparison of line 119 of `client.cpp` and perhaps `traffic_out`). What a
  round does is reduced to moving the buffers and sending packets. **RoundsProps**: what
  the host loop has to keep up with (`LoopKeepsUp`), the properties, and the refinement mapping to `LossyRounds`: a peer's round
  is `cur_round`, with `Word - 1` as -1, what has arrived is in one of its buffers, and it has heard the senders of the
  packets it `used`, one round before their stamp. **MCRounds**: a small instance.
* **Overlay**: all peers' overlay schemes, starting from every assignment the server may draw,
  exchanging their structure messages. Each peer enters its next round at any moment, with any part of the messages
  sent to it two rounds before.
* **Startup**: the server and several clients from the first join message to
  everybody's first round. A client's round is reduced to the packets it sends.
* **Wire**: the vectors of a packet as sequences of eight-byte cells: what
  `serialize` writes and what `deserialize` makes of it.
* **Numbers**: `serialize_number` and `deserialize_number`, byte by byte, with the undefined
  shifts. **Envelope**: the bytes around the payload: join and init messages as they lie in
  memory, associated data, the frame of a ciphertext, the pairs handed to the host, its
  table of sockets, and pseudonyms. A buffer is a sequence of named bytes; reading yields a
  value only where all its bytes are, and the numbers are those that `Numbers` shows to survive (`KeptNumbers`).
  **MCEnvelope**: small messages.
* **ClientEnclaveProofs, TrafficProofs, RoutingProofs, StartupProofs, RoundsProofs, OverlayProofs, EnvelopeProofs**:
  theorems and their proofs. **DataLemmas**: facts about the data they need.

Definitions commented "Mutant" are plausible mistakes in the code. They are not used
by any specification; substituted for the definition they stand before, they
make a property fail, which shows that the property depends on that code.

### Abstractions

* A vector of peers or of structure messages is a set: the code only inserts,
  tests and iterates to send. `std::map` is a function, so that an absent key
  and an empty entry remain different, and `operator[]` inserts.
* A pseudonym is a record of the key it was encrypted with and its contents.
  Decrypting succeeds if the key and the size are right. The keyed hash that picks an
  intermediate quorum is the constant `IntermediateTarget`; the byte order
  of pseudonyms is the constant `Rank`.
* `q_out_` is a set whose entries carry their number among those with the same quota key,
  since only its order by time matters; `q_in_` is a bag for each pseudonym.
* `std::sort` is not stable; the model takes one of the orders it may produce.
* A dummy's message bytes are uninitialised in the code. They are the value `NoMsg`, and
  nothing reads them.
* Calls of `traffic_out` that do nothing (outside the first quarter, or the
  second call of a round) are stutters.
* Before initialisation a peer's own information has id 0: `Self0`. The overlay scheme
  copies this value (line 62 precedes line 71 of `client_enclave.cpp`), and so does
  the model. `network_init` is folded into the initial state of `ClientEnclave`.
* Asserts are active, as in the debug build. A failed assert or uncaught exception ends
  the enclave. `top()` of an empty queue is undefined behaviour in the code; the model ends
  there with `crashed = "undefined"`, which stands for whatever follows. A successful
  `receive_message` copies beyond its arrays: it may end in the same way, or do no harm.
* ZeroMQ loses nothing between live processes in `Startup`, and reorders packets of
  different senders. `ClientEnclave` allows loss (a packet need never
  arrive) and up to `MaxCopies` deliveries of each packet. The code guards against the
  second delivery (`received_from`), which is what that bound exercises.
* `Rounds` counts time in seconds, as the platform's clock does, and bounds the length of a turn of
  the host loop, the delay of a packet from its sending to its `traffic_in`, and the skew of the init messages.
  The time spent in a turn is part of `MaxTurn`. Each packet is read once, and dropped if it is late: the
  questions about lost and duplicated packets are asked of `ClientEnclave`.
* `Overlay` has no clocks: the rounds of its peers interleave freely, and any structure message may be lost.
* In `Envelope` a packet's payload is opaque (its layout is `Wire`), a ciphertext is a byte per
  plaintext byte that only the same key and associated data open, and a byte is named after
  what it is a part of. Copied objects keep their pointers and padding as bytes nobody reads.
* Keys, logging and the loading of the enclave are left out.

### What the passing runs take as repaired

Some faults stop the program before anything else in it happens. The
passing runs look past them, to see what the rest of the code does:

* `kPseudonymSize` is 65 instead of 64 in the runs of `ClientEnclave`. With 64 the last byte of an
  encrypted pseudonym is cut off and every use of one fails an assert: `PseudonymsFit` of
  run `envelope` shows that only 65 works.
* `traffic_in` of `ClientEnclave` gets the vectors that were sent. What the
  deserialisation makes of a packet with a message in it is something else (run `wire`).
* The host polls `receive_message` in every turn with an `n_dst` it never writes
  (`client.cpp:131`), and the decryption of most bytes fails an assert. In the model the
  poll is a step that may or may not happen and passes some blob, an undecryptable one included, so
  that both continuations are explored.

The program as it stands therefore never carries a message from one user to another.

## 3. Runs

CHECK_DEADLOCK is off in every run: a peer may stop with a failed assert, its clock
is bounded, and the server ends on purpose.

### Passing

| Run | Instance | What it shows |
|---|---|---|
| `queue` | one quorum of two peers, two pseudonyms with one message per round each, times 5, 29, 30, 32, 36, clock up to 10 (rounds 0–2), `Word` 64 | any order of commands, clock ticks and rounds. `AnnounceFits`: the quota implies the assert of line 386. `Punctual`: a message misses its round only if an entry accepted by the wrapped check is in the queue. `NothingLost`: the counters equal the number of messages waiting. `PacketsKeepTime`: a message is announced in the one round in which it is due. |
| `agreement` | d = 2, four peers, clock up to 36 (rounds 0–9, with reconfigurations in rounds 1, 5 and 9), every packet may be lost | one message announced just before a reconfiguration and one after it, reports of two peers about the first, and injections in between. The other peers announce dummies, as all peers do. `RunsLagLittle`, `ParticipantsOfItsRound`, `OneRunPerMessage`, `AgreementBounded`, `AgreePeersKnown`; `PacketsKeepTime`: a run is reported once, with the number of its round; `NothingRouted`: an injected message never leaves in a packet, because its round ends in an assert of `route`. |
| `inbox` | three peers, threshold 1, clock up to 8 (rounds 0–2), packets of two senders for every round, delivered up to twice, in any order | `BuffersInStep`: what is in a buffer was in a packet for its round. `DeliveredFromQuorum`: no message reaches a pseudonym unless more than m_corrupt peers have been heard in its round. |
| `startup` | three clients, two quorums, any order of joins, packets and rounds, every draw of the quorums | `ViewsAgree`: whoever i announces or routes to expects it. `EveryQuorumStaffed`: no table of an init message is empty, and in the end every quorum is emulated by a client and associated with one. `Answered` (liveness): all clients are answered, or the server aborted. |
| `rounds` | two peers, one of which also sends to itself; kDelta 2, heartbeat 1, turns of up to 2 s, delays of 0 to 15 s, skew up to 1, time up to 20 (rounds 0–2) | some packets are fatal and some too late. `NoRoundMissed`: the assert of line 212 holds. `TimelyKept`: a packet that takes long enough and not too long is neither fatal nor dropped. `UsedInTheirRound`: refinement of `LossyRounds`. `EveryRoundEntered` (liveness): a peer enters every round unless a packet overtakes its init message or comes a round too early. |
| `overlay` | d = 1, three peers, every assignment that staffs both quorums, every random quorum, rounds up to 6 in any interleaving | `Isolated`: after the reconfiguration of round 1 nobody has peers to announce to, agree or route with. `NoRouteClash`: the assert of line 362 holds. `ParticipantsAgree`. |
| `envelope` | three peers, of which two share an address and two a port; pseudonyms of 28, 64, 65 and 66 bytes; two calls of `traffic_out`; all numbers of four base-4 bytes, with ints of two | from writing to reading: `ReadAsSent` and `InitMessageFits` for join and init messages, `PacketsArrive` through the host's sockets, `PseudonymsFit`. `NumbersKept`: numbers below half the range of an int survive whatever the undefined shifts do, the others below the negative ints never do. |

**Why these bounds.** With d = 0 a message is announced 7 rounds before its time
and the lead is 32 seconds, so that times below 32 are exactly those that wrap. Times 29
and 30 share a round (and thus a quota) that is announced in round 0; 32 and 36
belong to the next two; 5 can never be announced and blocks the queue. After round 1 the
overlay of one modelled peer has no `gamma_send` (see section 6), so in TLC's instance
`AnnounceFits` can only fail in round 0; the theorem covers every state of the overlay.
`agreement` needs d = 2, the smallest dimension in which a run lasts long enough (four rounds) to
meet a report before it ends; because the overlay of the peer is empty
after round 1, one of the packets it may receive is a handover in time for the
reconfiguration of round 5, and the announcements follow in rounds 4 and 6: the first is used in the reconfiguration. This run is a statement
about the enclave as a component whose peers follow the protocol (TLC evaluates `PeersFollowProtocol` on the packets of every run): in the whole system as it stands nobody
sends that handover (run `overlay`), no run has participants, and no report is ever sent.
`inbox` needs two senders besides the peer to be one above the threshold, and a
duplicate of each; three rounds shift the buffers twice. `startup` with three clients and two quorums has the client that is left over
for the last quorum, and draws that leave a quorum empty.
`rounds` takes kDelta = 2, so that a turn of the host loop may last nothing, a part of a quarter, or all of it: `LoopKeepsUp`
holds with equality. With a skew of a second, a delay of 15 s is the shortest with which a packet of round 0 is dropped as late, and
packets of no delay meet peers that are a round behind. `TimelyKept` fails in this run if a delay of MaxSkew + kDelta - 1 counts as
long enough. Three rounds are enough for packets of round 0 to be used.
`overlay` with d = 1 reconfigures itself in rounds 1 and 5 (the period of its phases is 4); both are
covered. Three peers on two quorums include a quorum of two. Larger dimensions are covered by the theorems.
In `envelope` one byte of a number takes four values and an int two bytes, so that all 256 numbers are checked, and the widths of 8 and 4 bytes keep
their ratio.

**The timing the rounds need.** `LoopKeepsUp` is the one assumption of the theorems about rounds: with
CallGap = (kDelta - 1) div 2 + MaxTurn, CallGap <= kDelta, so that a call of `traffic_out` falls into
every quarter. With kDelta = 3 a turn may take up to 2 seconds; the heartbeat makes up half a second of it.

Nothing is assumed of the delays of packets, since nothing in the code bounds them from either side, and the line that would shift the
rounds is commented out (`client_enclave.cpp:42`). `TimelyKept` says instead what becomes of a packet, depending on
its own delay: one that takes at least MaxSkew + kDelta and at most 2 * RoundLength - MaxSkew - kDelta is kept, however fast and slow the others
are. A faster one may end its receiver (run `early`), a slower one may be dropped.

### Violations: what the repository says and the code does not do

| Run | Property | Reason |
|---|---|---|
| `deliver` | "the if condition will never be fulfilled for this round again" (`client_enclave.cpp:567`) | the senders are cleared with the messages, so the threshold can be reached again |
| `first_packet` | "message was sent from server" (`network_manager.cpp:76`) | a peer that has its init message already may send first |
| `early` | the assert `ASSERT(cur_or_next < 2);` (`client_enclave.cpp:527`) | with clocks that agree and a fast network, the first peer to enter a round sends packets that are two rounds ahead of the others, whose assert fails |
| `routing` | "messages that exceed k_receive for one target bucket are dropped" (`routing_scheme.h:29`) | the scan compares a bucket's number when the next bucket begins: the last one is never cancelled (`routing_scheme.cpp:60`) |
| `wire` | "update cur appropriately" (`serialization.h:32`) | `deserialize` of pseudonyms and messages leaves the cursor where it is |

### Fairness

* `Startup`: weak fairness of the server's and the clients' receive
  loops, which poll for ever (`server.cpp:117-131`, `client.cpp:111-137`), and of the
  loop that sends the init messages, which nothing interrupts. Nobody has to start a client;
  `Answered` therefore begins with enough clients started. Fairness of
  `traffic_out` is not assumed: a client that never enters its first round violates nothing.
* `Rounds`: weak fairness of `Tick` (time passes), of `Timeout` and `FinishTurn` of every peer (the loop
  of `client.cpp:112-137` runs for ever, and `MainLoop` returns after its heartbeat), and of the reception of
  packets. The upper bounds on turns and delays are guards of `Tick`, so that time cannot pass a deadline; fairness then says that it passes
  at all. `EveryRoundEntered` needs both, and excepts the peers that a packet has ended or silenced.

The other modules state no fairness, and no liveness property is asked of them.

## 4. Proofs

All theorems hold for every value of the constants that the named ASSUMEs of the modules allow.
Each invariant was checked by TLC before it was proved.

### The sending side: `ClientEnclaveProofs`

From `TimingAssumption`, `DimensionAssumption`, `EnvironmentAssumption`, `QuotaAssumption` and
`ClockAssumption` (the last: no time the model's clock reaches comes within the lead of 2^64):

* **TypeCorrect**: `Spec => []TypeOK`. The inductive invariant `TypeInv` adds to `TypeOK` what
  TLC cannot enumerate: `num_entries` and `q_in` are
  sequences, and the blobs users hold are encryptions of this peer's pseudonyms.
* **AnnouncementsFit**: `Spec => []AnnounceFits`. `QueueInv` adds
  `Distinct` (entries of one pseudonym and quota key have different numbers) and `Counted`
  (no number exceeds the counter of its pseudonym and key, which `TypeOK` bounds by kSend). The messages
  popped in a round then map one-to-one to pairs of a pseudonym and a number: all of them
  fall into one round (`DueInOneRound`), so those of one pseudonym share one quota key even
  after the narrowing to `int`. There are kAMax · kSend such pairs (`PoppedBounded`). The overlay is
  arbitrary in this proof.
* **AnnouncedInTime**: `Spec => []Punctual`. `PunctualInv` adds that the clock is never more than a round
  past the next round to be entered, and that a stale entry implies a stale entry that was
  accepted by wrap-around. A message accepted without wrap-around is at least the lead ahead of the clock,
  hence due no earlier than the next round (`InTime`); a round that pops removes all that is
  due in it, and a round that pops nothing although something is due has a stale entry
  already, which stays.
* **NothingIsLost**: `RoundsAreInts` implies `Spec => []NothingLost`. `RoundsAreInts` says that the
  rounds of delivery times fit into an `int`; otherwise the key of a counter is not the round any more, and
  the counters of two rounds may be one. `LossInv` adds to `QueueInv` that the queue is finite, that its times were handed in by
  users, and that the number of waiting messages is the counter. An accepted message is
  new in the queue (its number exceeds those of the others), and a round takes only messages whose round is over with it.

### Buffers, agreement and what is routed: `TrafficProofs`

From the same assumptions and `PayloadAssumption` (the vectors of a packet have the types of `structures.h`); packets may be lost,
duplicated up to `MaxCopies` times, and arrive in any order unless a theorem says otherwise. The overlay, the
random draws and what users do are arbitrary.

* **PacketsUsedInStep**: `Spec => []BuffersInStep`, and **QuorumsDeliver**: `Spec => []DeliveredFromQuorum`. The inductive
  invariant `InboxInv` says of both buffers that everything in them comes from packets that have been heard for their
  round (`ComesFrom`), that their lists of senders name only peers that have been heard, and that what has been delivered came
  from enough of them. The property about deliveries needs the other two: a list of senders is emptied
  by a delivery and shrinks, but what has been heard in a round never does.
* **AgreementEnds**: `Spec => []AgreementBounded`, and **ParticipantsStay**: `Spec => []ParticipantsOfItsRound`. `RunsInv` says
  that after each round every run has been updated, that its round is below the last one, and that its participants are at the place
  of its round in `gamma_agree_for_round_`. A round pushes the new agreement peers, counts the round of each run, and
  erases the runs that are over: the place moves with the round. Nothing is assumed of the peers: reports of any round and about any message, also
  one that no peer has announced, start runs with these properties.
* **PeersOfRunsKnown**, **RunsKeepPace**, **PeersStayOnTime**: `PeersKeepTime` implies `Spec => []AgreePeersKnown`,
  `Spec => []RunsLagLittle` and `Spec => []PacketsKeepTime`. `PeersKeepTime` says that the packets of the others announce
  messages in the round in which they are due, and report them with the number of rounds it took; without it a peer that gets
  a report for a later round than its own reads behind the end of `gamma_agree_for_round_` and ends. The third theorem is
  its guarantee: a peer among peers that keep time keeps time, so that no peer is the first that does not. `PaceInv` adds to the properties
  how many rounds' agreement peers are remembered (`RoundsPushed`), and that no run of a message is in its round 0 after the round in which it
  began (`RunsBegun`). A report that arrives with number n has taken 2(n - 1) rounds and starts a run in round n - 1, so that the run lags as many
  rounds as the report was passed on; the deadline n < d + 1 of line 251 bounds the chain.
* **MessagesRunOnce**: `PeersKeepTime /\ AnnouncedOnce /\ MaxCopies = 1` implies `Spec => []OneRunPerMessage`. `OnceInv` adds
  that the announcements in each buffer are of different messages. Two reports in one round do not start two runs, because the scan
  of line 253 sees the run the first has started; and an announcement does not meet a run that is there already,
  because such a run's message was announced in an earlier round, and the time of a message fixes this round. The hypotheses are needed: see section 6.
* **NoMessageIsRouted**: `Spec => []NothingRouted`. A packet for a peer to route to is made of what `route` returns, and of
  dummies. What `traffic_out` hands to `route` has just been injected or is overdue (`RoutingInputEntries`), and of such tuples
  `route` lets none through (**RouteAbortsOrIsIdle**).

### Startup: `StartupProofs`

For every number of clients and quorums (`StartupAssumption`) and every outcome of the draw:

* **StartupTypes** (`TypeOK`), **ViewsOfClientsAgree** (`ViewsAgree`), **QuorumsAreStaffed** (`EveryQuorumStaffed`; that the clients suffice to associate
  one with every quorum, `AssociatedInhabited`, rests on `StartupAssumption`). `StartupInv`
  says that every init message is the one that the two maps of the server determine, the associated quorums, which the places in `clients_` fix,
  and the emulated ones, which are drawn once. The tables of two clients agree since to be neighbours is symmetric: flipping a
  bit of a quorum twice gives the quorum back, and stays below 2^d.

### Rounds: `RoundsProofs`

From `TimingAssumption`, `RoundsAssumption` and, in each theorem, `LoopKeepsUp`; any number of peers, any
`Receivers`, any length of a quarter, any delays of packets and skew of the clocks:

* **RoundsInvariant**: `RoundsInv` is inductive. Its parts: types; the setup (who is not initialised still has
  its init message under way, or lost it to a packet that came first); loops (the last call was at most a turn and half a quarter ago, and a
  peer ends at the assert of line 527 only); clocks (each running one is in
  its peer's round or in the first quarter of the next, in which no call has been made yet); packets
  (sent in the first quarter of the sender's round); and buffers (in[k] holds packets of the peer's round plus k).
* **RoundsTypeCorrect**, **NoRoundIsMissed** follow from it: no peer ever ends at the assert of line 212.
* **TimelyPacketsKept**: `Spec => TimelyKept`. The clocks and the sending time of a packet leave its receiver, if the packet is timely, in
  the round of the sender or the next one (`PacketWindow`), so that neither the early return nor the assert of line 527 is taken.
* **RoundsImplementMailbox**: `Spec => UsedInTheirRound`, the refinement of `LossyRounds`. A call that enters a round maps to `Enter`,
  a packet that is buffered to `Arrive`, everything else, fatal and late packets included, to a stutter. That the packets of
  in[0], and no others, are of two rounds before is what the invariant says of the buffers.

### Overlay: `OverlayProofs`

For every dimension, set of peers and assignment, every interleaving of the rounds and every loss of packets:

* **OverlayInvariant**: before round 1 a peer has the tables of the server and has prepared nothing, from round 1 on its
  tables are empty, and no structure message is under way. What a peer prepares for its next quorum
  is filled by structure messages only, and these are sent to peers in its tables only.
* **OverlayEndsInRoundOne** (`Isolated`), **NoSlotAssignedTwice** (`NoRouteClash`) and **SameParticipants**
  (`ParticipantsAgree`) follow from it.
* **OverlayTypes**: `Spec => []TypeOK`. The ids that neighbours and hops are computed to be are those of quorums.

### Routing: `RoutingProofs`

* **NoHopInRange**: a tuple that reaches the loop of `route`, fresh or overdue, never
  passes both asserts about its hop: the index of a fresh one is -1 modulo 2^64, that of an
  overdue one exceeds 2d.
* **RouteAbortsOrIsIdle**: of a vector of such tuples, `route` returns nothing, or one of its asserts fails. Sorting returns a
  permutation (the order of equal tuples is that of their places, so that it is total), the scan with its overwritten entry writes
  tuples of the vector only, and the kept ones are among them: the first that is kept fails an assert.
* **AllButLastCancelled**: the scan cancels exactly the buckets with more than kRecv tuples that some other bucket follows in the
  order of the sort. So the bucket that run `routing` shows is all that is wrong with the set the scan returns:
  no other bucket is missing, and none is too many. The argument is the invariant of the scan (`ScannedTo`): after i tuples,
  "start" is the beginning of the group of tuple i, and the groups before it that are larger than kRecv are those cancelled. A step keeps it
  (`ScannedNext`) because the tuples of a bucket are next to each other after the sort (`Grouped`), so that i - start is the size of the bucket.
  It needs that the order tells pseudonyms apart (`Ranked`, a comparison of their bytes) and that no tuple is itself a cancellation, of
  which nobody creates any.
* **KeptBounded**: of every bucket that another follows, `route` is left with at most kRecv tuples. **FirstTupleLost**: with two
  buckets or more the first tuple of the order is never among those left: the entry that the scan overwrites is lost, whatever kRecv is.
  Today the round then ends in an assert of `route` (`NothingRouted`); the three theorems hold of any tuples.

### Bytes: `EnvelopeProofs`

From `EnvelopeAssumption` (messages, tables and outputs have their types) and `SocketAssumption` (ids and sockets
of peers are their own); vectors, tables and payloads of any length, any number of calls:

* **MessagesReadAsSent** (`ReadAsSent`), **InitMessagesFit** (`InitMessageFits`), **AllPacketsArrive** (`PacketsArrive`),
  **PseudonymsFitOnly** (`PseudonymsFit`) and **EnvelopeTypes** (`TypeOK`) follow from `EnvelopeInv`: the buffer holds nothing or the encoding of
  the subject, and the network the packets of the calls the host has been handed, "done", to which the buffer adds
  at most the pairs of the last one.
* The lemmas say, for each type, that its encoding is read back from wherever it lies in a longer buffer (`At`). The
  encoding of a concatenation lies where its parts lie one after the other (`ConcatAt`, `FlattenAt`), and the cursor
  that moves over what is read meets the beginning of each entry (`CursorsMove`, `LoopMeetsEntries`), although vectors of
  vectors have entries of different sizes. A map is written in the order of its keys and read key by key (`KeysInOrder`, `MapRead`).
* `DecryptEncrypt` and `DecryptResized`: what is encrypted decrypts to itself, and the assert about the size refuses
  it when a byte is cut off or added. Both rest on `decrypt` taking the lengths from the data.
* **NumbersKeptOnly** (`NumbersKept`), for all widths of bytes, numbers and ints that satisfy `NumbersAssumption` (an int is no wider
  than a number) and whatever the undefined shifts yield. It has two halves. A number below half the range of an int: its bytes
  before the last int are 0, so that no shift of a byte that counts is undefined, and after i bytes the sum is the upper part
  of the number (`Top`), because `|` adds what shares no bits (`SmallNumberRead`). Any other: a shifted byte is an int, extended to
  the width of the number (`IntsOfShifts`), `|` of two of these is one of them again (`IntsOfOr`), so that a number that is none of them
  is never read (`IntsAreRead`).
* `SocketsOfPeers`: the table of sockets, which is filled with the first packet to each id, has the uri of the peer with that id.

### Data: `DataLemmas`

The induction theorems of the library take the proposition as an operator, which the provers do not instantiate. Here it is the set
of the naturals that satisfy it: that every set of naturals with 0 and all successors has all naturals follows from the well-foundedness
of < (`LeastNatural`, `Induction`), and that a function defined by recursion exists and obeys its equation follows from induction
(`Recursion`). On them rest the facts the other modules use: the k-th element of a finite set of places (`Place`) exists and is unique,
`Selected` returns the entries at these places in their order, `FlattenSeq` and `SetToSeq` return only what they were given, and
flipping a bit below 2^d is an involution on 0 .. 2^d - 1. Functions that
are defined by recursion on 0 .. n only, as the loops over bytes and bits are, exist by `BoundedRecursion`. From it follow the
facts about `|`: bit k of the result is the larger of the two bits (`OrSteps`), the result is no smaller than either
operand and fits into the same width (`OrBounds`), and it is the sum where one operand is a multiple of 2^m and the other
below 2^m (`OrAdds`).

### Only model-checked

* Liveness: `Answered`, `EveryRoundEntered` (no prover here does ENABLED).
* The properties of the runs that expect a violation.

## 5. Not modelled

* The command-line interface (`client_interface/main.cpp`): it parses one command and sends it to a client,
  and keeps no state. Its commands are inputs of `ClientEnclave`.
* Loading of the enclaves, launch tokens, error texts, EDL files, unit tests and build files: no state of the protocol.
* AES-GCM, CMAC and the random numbers themselves (library code); errors of `ocall`s,
  which the code only logs.
* The formula for `m_corrupt_`, which needs logarithms. With 81 clients it gives 24, more than
  the ten or so peers of a quorum: nothing ever exceeds it, and the deployed program would
  inject, route and deliver nothing. The constant `m_corrupt` is small enough
  in the runs for these stages to happen.
* Crashes with recovery: nothing is persisted, and a peer that ends does not come back.
* Messages of users in a system of several full enclaves. The parts that such a model
  would compose end early in this code: the overlay is empty after round 1, runs have no participants, and
  no tuple is routed.

## 6. What was learnt on the way

*Rounds and clocks*

* The latency of a packet is two rounds: stamped c + 1 in round c, it is used when c + 2 is
  entered. Runs started by a report therefore lag one round, and one more with each peer that passes the
  message on (`RunsLagLittle` is exact), although
  `client_enclave.h:171` says that entry l of `gamma_agree_for_round_` is for l rounds ago and the report counts one.
* A message that is handed in twice with the same contents and time is two announcements of one message: both start a run
  (`client_enclave.cpp:244-248` looks for no other). So do two copies of a packet that announces a message when the first copy's
  senders have been forgotten by a delivery in between (`client_enclave.cpp:569`). `OneRunPerMessage` therefore rests on
  `AnnouncedOnce` and on packets that are delivered once.
* A fast network breaks the protocol: a packet that takes less than a quarter may end its receiver (run `early`).
* `t_dst - lead` wraps below zero, and a message that is too late is accepted (`client_enclave.cpp:137`). Its
  entry then blocks the queue for ever.

*Overlay*

* The first reconfiguration, in round 1, takes over tables nobody has filled: `gamma_send`,
  `gamma_route` and `gamma_agree` of every peer become empty, and no structure message is ever sent (`Isolated`).
  The first announcements are used in round 2, so their runs have no participants.
* `gamma_receive_ == std::move(...)` (`overlay_structure_scheme.cpp:96`) compares; the table
  keeps its initial value. No property is asked of this: no action of the model assigns the table.
* A self-introduction is created with the type of a handover (`overlay_structure_scheme.h:53`).
* The period of the phases is (d + 7) / 2, which is 5 for d = 3: phases d + 2 and d + 3 are never reached
  with the deployed dimension, and tables are never handed over.
* `onid_emul_l_prev` is a reference to the member the next line assigns (`client_enclave.cpp:229`).

*Messages*

* Announced dummies start agreement runs like messages; such a run ends with the decryption of zeros, whose
  assert fails (`client_enclave.cpp:309`).
* `finalize` is called with threshold 0 (`client_enclave.cpp:303`), so that every run is accepted.
* A tuple's `l_dst` is 2d + 2 rounds ahead, for which the hop index of `route` is -1: its assert fails
  (`routing_scheme.cpp:22-25`). No message is ever routed (`NothingRouted`, `NoHopInRange`).
* `prev_element` is a reference to the first entry of the sorted vector, which each change of bucket overwrites
  (`routing_scheme.cpp:64`). The first tuple is lost, and one of the last bucket is there twice (`FirstTupleLost`).
* An encrypted pseudonym has 4 + 4 + 12 + 16 + 29 = 65 bytes, and `kPseudonymSize` is 64.
* Numbers survive serialisation only below 2^31 (`serialization.h:43` shifts a byte as an int).
* The assert about the size of an init message assigns (`shared_structs.h:409`); the size is right nevertheless
  (`InitMessageFits`).
* Sockets are looked up by id alone (`network_manager.cpp:134`). As long as every id has one address, packets arrive.

All of these are in the modules as they are in the code.

## 7. Plan

The order is by importance: the path of a user's message through one peer first, then
several peers, then the pure algorithms and the bytes.

Every invariant and action property of the passing runs is a theorem. Done: one peer (`ClientEnclave`), startup, rounds of several peers with their refinement, the overlay of several
peers, cancellation, all message formats, and the theorems of section 4.

Left:

1. Two senders whose messages have the same delivery time: messages are compared by time alone
   (`structures.h:210`), so that one of them may stand for both.
2. `m_corrupt_` as a table for small numbers of peers.
3. Agreement of several peers against an abstract consensus, once the overlay leaves runs with participants. `PeersStayOnTime`
   is the step that composes them: what each peer assumes of the others it guarantees.
