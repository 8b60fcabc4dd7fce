# Formal models of bmhero-arena

bmhero-arena is a four-player battle arena played peer to peer with rollback: a
deterministic simulation (`src/arena`), a session layer over GekkoNet
(`src/netplay`), and a lobby (`src/lobby`, `src/netplay/lobby_client.c`) that
brings the players together through a rendezvous and relay server. This
directory holds TLA+ models of it, the TLC configurations that check them and
the proofs that TLAPS checks. Paths below are relative to the repository.

Run a configuration with `tlc -config <file>.cfg <module>` (module and
properties are listed in `PROJECT.json`) and the proofs with `tlapm <module>.tla`
for each of `RendezvousProofs`, `RateProofs`, `LobbyProofs`, `AgreementProofs`,
`AdapterProofs`, `RollbackProofs`, `ReplayProofs` and `ArenaProofs`.

## The system

| Part | State | Operations | Talks to | Hard because |
|---|---|---|---|---|
| Rendezvous server, `src/lobby/rendezvous.c` | table of sessions: phase, members, reports and routes of each pair, acknowledgements of START, four time stamps | one handler per packet type, `rv_tick` | clients, by datagrams | every packet may be lost, repeated, late or from anyone; entries are used again; four deadlines |
| Rate limiter, `rate_take` | a token bucket per address class | one call per control packet | in front of the handlers | a wrapping clock, lazy refill, 32-bit products |
| Event loop, `rendezvous_main.c` | time of the last tick | receive, tick every 100 ms | socket | - |
| Lobby client, `lobby_client.c` | stage, slot, peers, reports, routes, START | `lobby_host_begin`, `lobby_join_begin`, `lobby_poll`, `lobby_post_poll` | server and peers | everything it waits for may be lost; retries, a punch budget and a deadline race with late answers |
| Network adapter, `net_adapter.c` | route per slot, delay queue, ring of stray lobby packets | send, receive, impair | GekkoNet, socket, lobby client | full queues, order of delayed packets |
| Rollback session, `sync_session.c` | live state, recorded inputs, ring of hashes, desync report | `sync_frame`: Save, Load and Advance events of GekkoNet | simulation, GekkoNet | ticks are undone and redone |
| Desync replay, `tools/replay_bundle.c` | - | replay of a bundle, first tick that differs | bundles of the session | what it reads may be cut off, or not settled |
| Arena simulation, `arena_sim.c` | players, 16 bombs, 16 blasts, phase, clocks | `arena_tick` | - | pools at their limit, one timer with several meanings, chains within a tick |
| Wire format and lobby code, `lobby_proto.c` | - | pack, unpack, encode, decode | - | lengths and bounds |
| Socket, viewer, tracing and tuning tools, CI | - | input and output | - | - |

What makes each part correct, in a sentence:

- server: a lobby's members, routes and START are decided once and for all its
  members alike, nothing of a former session survives in an entry, and every
  entry comes back;
- limiter: nobody gets more than the promised rate, and who is alone gets all
  of it;
- lobby: those who get READY agree on slots and routes, nobody gets READY
  before the whole mesh is settled, and losses are repaired;
- adapter: a packet is sent once, when its time has come, and the control
  packets the lobby client reads are the latest ones, in order;
- session: whatever is guessed and undone, what is settled is the match as if
  everybody had waited for the inputs; recorded inputs and hashes end up those of
  the true inputs, and a desync is reported only of a simulation that differs;
- replay: the tick it names is the one at which the simulation left its inputs;
- simulation: the pools, the players' counts of live bombs and the bombs held
  stay in step, a round ends, and the next one begins as the first did.

`PROJECT.json` lists the hazards at the lines where they bite, with the
properties that watch over them; a hazard without one has a note.

## Modules

    Rendezvous ---- MCRendezvous          small instances for TLC
        |     \---- RendezvousProofs      theorems and their proofs
        |
      Lobby  <---- LobbyClient            (Lobby extends the client and
        |  \                               instantiates the server)
        |   \----- MCLobby                small instances for TLC
        |    \---- LobbyProofs            who sits where
        v             \--- AgreementProofs    Lobby implements MatchSetup,
                                          its server RendezvousProofs' server
     MatchSetup                           what Lobby is shown to implement

    RateLimit ---- RateProofs             the limiter, on its own

    NetAdapter ---- MCNetAdapter          small instance for TLC
        |     \---- AdapterProofs         the ring implements Mailbox
        v
     Mailbox                              what the ring is shown to implement

    Rollback ---- MCRollback              small instance for TLC
        |   \---- RollbackProofs          invariant, refinement
        v             \--- ReplayProofs   the replay names the right tick
     Lockstep                             what Rollback is shown to implement

    ArenaMatch ---- MCArena               small instances for TLC
              \---- ArenaProofs           theorems and their proofs

### Rendezvous

`sessions` is the table; a record of type `Session` is an `RvSession`. `punch`
and `route` are the code's matrices (`route_sent` and `route` in one), `member`
is `peers[].public_ep` with `Nobody` for an unused slot, `acked` the set of the
slots with `start_acked`. A time stamp is modelled by its age, counted up to the
first value past its deadline. `net` receives what a step sends; how a network
takes it is the parameter `Pool`, so that the server can be checked alone
(`Pool` keeps the last packets only) and in `Lobby` (`Pool` adds them to the
network).

`HostReq`, `JoinReq`, `PunchReport`, `Start`, `StartAck`, `KeepAlive` and
`Relay` are the handlers, each a disjunction of the outcomes the code
distinguishes; `Tick` is `rv_tick` over all entries; `AdvanceClock` is time.
`Receive(from)` lets any endpoint send any packet at any moment. That is all a
network can do to the server - reorder, repeat, delay, lose - and also what
members of an older session or strangers can do. A packet dropped in silence,
by a handler or by the limiter, is no step.

Not in the model: `last_seen_ms`, which nothing reads; `relay_forwards`, a
diagnostic count; private endpoints, which are passed on with the public ones;
the generator of ids, of which any free id is a possible result (4096 failed
tries and a full id space are the same outcome).

### RateLimit

The buckets with their modulo indexing, the refill on demand, the unsigned
difference of clock readings, and the cut-off that keeps the product within the
word. `Word` is 2^32 in the code and 16 in the run, with the other numbers in
proportion so that the clock wraps many times. Two ghost variables say what the
code is judged by: `budget`, a bucket of each address refilled at every
millisecond, and `idle`, which remembers whether a bucket has ever gone a whole
round of the clock without a packet. A bucket that has is credited with too
little once (never too much): the difference of readings is then short of a
round. The comment at `rendezvous.c:58` calls the wrap harmless; the properties
say exactly how far it is.

### LobbyClient and Lobby

`client[c]` is a `LobbyClient`; `present` and the address of a peer are one
field, `known` is `route_known`, `started` is `start_seen`. One action is one
`lobby_poll`: `Handled` and `Replies` are `handle_msg`, `Duty` is the rest.
Timers are choices: `Repeats` is the set of packets on some timer, of which a
poll may send any. `expired` is the punch budget, which started for all peers
at once in `enter_punching`. `GiveUp` is the 30 s deadline and the exhausted
retries. `PostPoll` is `lobby_post_poll` after READY. It takes its packets
straight from the network. In the code they have come through the adapter's
ring, which is a mailbox that keeps order and drops its oldest (`KeepsLatest`):
all it does the network of this module does as well.

A client has one address here (the code tries a private and a public one), a
nonce is the name of the slot it was drawn for, and KEEPALIVE is left out
because no deadline of the server passes in this composition. A client that
restarts, and a second session, are outside of it; the server alone is checked
against both.

`up` and `down` are the network: sets of datagrams to the server and to clients.
Delivery takes any of them, so packets overtake each other; retransmission
brings them again; what is never delivered is lost. `Flight` bounds how many are
under way in the runs for safety, `Losses` how many are dropped in the runs for
liveness.

### MatchSetup

The promise, in four variables: pairs are arbitrated one by one, once; the match
is agreed on when all are; then players enter it, each in a slot of its own and
with its row of the verdicts; anybody may fail before entering. `ReachesAgreement`
says that `Lobby` implements it, with `Server!Started` for the agreement, the
server's routes for the verdicts and each READY client's own slot and routes for
the entries. The server never checks that the mesh is complete when START comes:
the guarantee rests on the host's `all_pairs_decided`, that is on packets that
may be late, and this is where the refinement has to work.

### NetAdapter and Mailbox

One action is one call of the interface: `NaSend`, `NaRecv`, `TakeLobbyPacket`,
`SetRoute`, `Impair`, `AdapterInit`, `Shutdown`; the loop of `na_recv` over the
socket is `ReadOne`, turn by turn. `dq` is the delay queue of the test
impairments; what its in-place compaction leaves is `Kept`, in what order it
sends is `Due`, what reordering does to the packet queued last is `PushedBack`.
`lobbyq`, `head` and `count` are the ring, entry by entry. `Reached` is the signed
difference of two readings of a clock that wraps.

A packet of GekkoNet is a number; `departed` and `refused` count what becomes of
it, and the field `wait` of a queued one is the true time left, which the code
does not have: `OnTime` judges the comparison of clock readings by it. Where a
packet goes on the wire (direct or by the relay) is the state of `route` alone.
Left out: counters of drops, the relay's address, packets GekkoNet never sends
(too long, or for no slot).

`Mailbox` is the promise to the lobby client in one variable: a packet is put at
the end, the oldest goes when there is no room, the oldest is taken first.
`KeepsLatest` says the ring implements it.

### Rollback and Lockstep

Every peer has a live state, the inputs recorded for a bundle, the ring of hashes
and the report of a desync. `sync_frame` is split where its order matters:
`Frame` (poll the network, give the local input), `Update` (what GekkoNet decides
to do), then event by event `Load`, `Advance` and `Save`; `Desync` is the session
event, `Corrupt` the test hook. `Bundle`, `Replayed` and `FirstDivergence` are
`sync_dump_bundle` and the replay of `tools/replay_bundle.c`, applied to what a
peer would write at any moment, the middle of an update included.

GekkoNet is not in the repository (a submodule) and is modelled as what
`sync_frame` sees of it: it learns the inputs of others in order, guesses at most
`Window` ticks ahead, loads no later than the first wrong guess and never below
what is settled, and asks for a Save after each Advance. What it guesses is free,
and so is a rollback nobody needs, which is what the STRESS sessions of the tests
do. The simulation is deterministic, so a state is the sequence of the ticks that
led to it, each with its inputs and whether the test hook spoilt it; a hash is
the state itself, so collisions of hashes are not considered.

`Lockstep` is a match without rollback: peers give inputs, and each runs, for
good, the ticks for which it has everybody's. `RollbackInvisible` says that
`Rollback` implements it, with what is settled for the run. Left out: statistics,
and the flags connected, started and desynced, which nothing here reads.

### ArenaMatch

One action is one pass of one loop body of `arena_tick`: `PhaseLogic`, then
`PlayerTick(i)` for every slot, `BombTick(b)` and `Detonate(b)` for every bomb,
`BlastTick(k)` for every blast, `RoundEnd`. `at` says which comes next, so that
the order is the code's and a tick is a fixed sequence of steps; what one pass
leaves for a later one of the same tick is as in the code (a bomb that touches
something goes off in this tick, one that is chained by a blast in the next, a
victim of one blast is safe from the next blast). `player_tick` is followed part
by part: jump, `Hands` (grab, hold, throw), `Set`, `Moved` with the upkeep of
states, each an operator on a player's record and the bombs.

Bodies have no positions here. Whether a bomb in flight meets something, who is
near enough to kick, which bombs and players a blast reaches are choices, so
every outcome geometry could produce is covered, and more. The pushouts of
bodies and the walls that close in move positions only and are left out, and so
are `bounced` (whom a bomb spares for a while), `radius_t` and the yaw. Heights
count where rules ask for them: `air` is the number of moves until a player
lands, set by a jump or a blast. IDLE and RUN, which differ in speed, are one.
`timer` keeps its several meanings in one field, for much can go wrong there.
The tuning constants are CONSTANTS; the ghost field `hurt` of a blast remembers
whom it has hurt.

Slots beyond `num_players` follow the code: `round_reset` makes them dead, and
the respawn, which does not ask for `num_players`, revives them at the first tick
of play. They cannot be hurt, do not kick and count for nothing, but they walk
(input word 0 is not the neutral stick) and push others aside. `arena_live` has
such a slot; no document says what it should do.

## Runs

| Run | Instance | Shows |
|---|---|---|
| `server` (RendezvousServer) | 2 entries, 3 endpoints, 2 ids, 2 versions | ids distinct; one open lobby per host; slots in order; routes fresh and final; RUNNING unanimous; START only to those who owe the acknowledgement |
| `timed` (RendezvousTimed) | 1 entry, 2 players, deadlines 1, 1, 2 | types; no match reaped early; lobbies and matches, relayed or not, give their entry back |
| `rate` (RateLimit) | 3 addresses in 2 buckets, clock of 16 | the promised rate is never exceeded, and is granted in full to an address that is alone in its bucket |
| `lobby_direct` (LobbyDirect) | 2 clients that punch, 4 packets under way | implements MatchSetup; a direct route names an address that answered |
| `lobby_mesh` (LobbyMesh) | 3 clients, relay forced, 5 packets under way | implements MatchSetup; rosters agree with the server's; players who are READY have found each other |
| `lobby_progress` (LobbyProgress) | 2 clients that punch, 2 losses | everyone gets READY; every START is acknowledged |
| `adapter` (NetAdapter) | queue, ring and pump of 2, clock of 10, 3 packets | each packet in one place; sent at the first pump after its time; the ring implements Mailbox |
| `rollback` (Rollback) | 2 peers, window 2, 4 ticks, history and ring of 3 | implements Lockstep; history and hashes end up true; the replay names the tick; no false alarm |
| `arena` (Arena) | 3 players, 2 bombs, 1 blast | types; counts of live bombs; hands and pool agree; one champion; a round is won by the last one standing; a blast hurts once |
| `arena_live` (ArenaLive) | 3 slots, 2 players, 2 bombs | lit bombs go off; nobody is stuck |
| `arena_grace` (ArenaGrace) | 2 players, 2 bombs | **violated**, see below |
| `lobby_loss` (LobbyLoss) | 3 clients, relay forced, 1 loss | **violated**, see below |

Why the bounds are enough. For the server, two entries are needed for anything
about several sessions, and three endpoints for one that is a member here and a
host there; two ids make an id in use and a free one. Three players are the
least for which the host is not a side of every pair, an incumbent is introduced
to a newcomer, and two members acknowledge while a third does not. In `server`
all deadlines are 0, so that an entry may expire as soon as any time passes.
Everything at once is too much for one run, so `Separable` in `MCRendezvous` asks
that sessions side by side, and those over which time passes, be of two players
who have negotiated nothing; a session alone in the table negotiates in every
order. Nothing one session negotiates is read by the handlers of another; the
proofs need no such separation. `KeepAlive` and `Relay`, which touch clocks only,
are in `timed`. Its deadlines keep the order of the real ones that matters (a
direct match expires before a relayed one) and let every clock run past each of
them. Four packets under way, five with three clients, let the admission of a
third player, which sends five at once, happen. `lobby_mesh` forces the relay,
by the program's own test hook, which leaves the whole negotiation of pairs in
place and takes the probes out; `lobby_direct` has the probes.

In `adapter`, a queue and a ring of two and three packets overflow and wrap
around; 10 is the shortest clock whose half is no less than the longest wait (a
delay of two milliseconds, pushed back once for each further packet), and a pump comes at
most `Late` = 2 ms after a packet is due. `Apart` keeps the delay queue
and the ring, which share no variable, from being busy at the same time; the
theorems do without.

In `rollback`, a window of 2 gives guesses on top of guesses, rollbacks by one
and by two ticks, and a tick run three times; with 4 ticks a ring of 3 entries
forgets and a history of 3 ends before the match. Peers share nothing while they
are in `sync_frame`, so one of them is in it at a time (`InTurn`); a true input is
always called by the same name and guesses are right or wrong (`OneName`); the
hook is used again only after its effect was undone (`OneSpoilt`). The theorems
need none of these.

In the arena two bombs and one blast let the pools run out: a spread is clamped
by the pool, a bomb goes off with no blast to be had, and a bomb chains another.
Three players make a round in which one wins of several and one in which the
last two die together; one of them presses anything, one grabs and throws only,
one is inert like the game's own placeholders. The durations are the
least that keep the relations of the real ones the rules rest on: in `arena` the
stun (2) and the respawn (2) cover what is left of a blast (3) after the tick of
the hit, as 30 and 120 do of 20 in the code, and a spread is armed by one tick of
holding. With a respawn of 1 `OncePerBlast` fails: it is a property of the tuning
as well as of the rules. `AirTicks` bounds how long a jump lasts; `TimerCap`
is where the 16-bit timer saturates.

Symmetry: endpoints, ids and versions are interchangeable in `server`, guests in
`lobby_mesh`, peers in `rollback`; no run for liveness uses it. Deadlock is not
checked in `rollback`, where the match ends, and in `adapter`, whose bounds may
leave nothing to do.

Fairness. `timed` assumes that the tick runs again and again and that time
passes: the loop of `rendezvous_main.c` calls `rv_tick` every 100 ms whatever
arrives, and reading a clock is not something clients can prevent. Nothing is
assumed of clients. `lobby_progress` and `lobby_loss` assume that server and
clients take their packets, that players get round to hosting and joining, and
that timers run out again and again; there the network is prompt: a timer (at
least 250 ms, most of them 500) does not run out while a packet is under way.
Timers that run out too early are in the runs for safety. Players' patience, the
30 s deadline, is not part of these two runs: what they ask is whether a loss is
repaired at all.

`arena_live` assumes that the session keeps calling `arena_tick`, and nothing of
players: they may press any button or none for ever.

## What the violated runs show

- **A lost verdict stops a lobby of three** (`lobby_loss`). The host sends START
  when it knows the route of every pair. It learns of the pair of its two guests
  from one PAIR_ROUTE. If that packet is lost nothing brings it again: the server
  repeats a verdict to a member that reports the pair once more
  (`rendezvous.c:255-269`), the guests have their route and stop reporting
  (`lobby_client.c:418`), the host is no side of the pair and repeats nothing in
  AWAITING_START. All wait for START until the 30 s deadline. With two players,
  where the host is a side of the only pair, the same network does no harm
  (`lobby_progress`).

  The same property falls in a second way, which `SeatLostSpec` in `MCLobby`
  singles out (as the specification of `LobbyLoss.cfg`): one JOIN_RESP is lost.
  Until it comes a newcomer holds slot 0, and `lobby_client.c:275` takes a
  PAIR_ROUTE of slots 0 and 1 that is early for its own. Seated as slot 2 by the
  next JOIN_RESP, it already has a route to slot 1, never probes or reports it, and
  the pair is never decided.
- **Who holds a bomb cannot be hurt** (`arena_grace`). The design promises a brief
  invulnerability after a hit. A blast spares whoever has a timer above zero
  (`arena_sim.c:728`), and the same timer counts how long a bomb has been held
  (`arena_sim.c:254`): from the second tick of a hold to the throw a player is out
  of reach, for as long as he likes. Likewise a grab resets the timer and ends a
  real grace early, and a player who keeps jumping keeps his grace, which runs
  down on the ground only (`arena_sim.c:397-399`).

Observations without a run:

- START of an endpoint that hosts a second session goes to the first.
  `do_start` (`rendezvous.c:293-299`) takes the first entry the sender hosts;
  HOST_REQ opens another as soon as the first has started. Until that one expires
  the new lobby cannot start. No document says whether an endpoint may.
- `rate_take` keeps one untagged bucket for all addresses alike modulo
  `RV_RATE_BUCKETS`, where its comment says "per /32". Two that collide are charged
  for each other.
- The comparison of two bundles (`replay_bundle.c:180-195`) goes to the end of the
  recorded inputs, of which the last ones may be guesses: two peers in order may
  be told that their confirmed inputs differ. `HistoryConfirmed` holds of settled
  ticks only, and `BundlesAgree` proves that no tick both have settled is ever
  named wrongly.
- A tick spoilt by `sync_debug_corrupt` may rest on a guess; a rollback over it
  runs it again unspoilt, and no desync follows, against `sync_session.h:79-83`.
- Reordering in `impaired_send` adds a millisecond to the packet queued last
  (`net_adapter.c:92-93`, "the pair leaves in the opposite order"). `flush_due`
  sends in the order of the queue, so the order changes only when a pump falls
  into that millisecond.

## What is proved

`RendezvousProofs` proves of `Rendezvous`, for every number of entries and
players, every set of endpoints, ids, versions and START contents and all
deadlines, without a bound on steps:

- `TypeCorrect`, `IdsAreDistinct`, `HostingIsIdempotent`, `MembershipIsOrdered`,
  `RoutesAreFresh`, `RunningIsUnanimous`: the invariants of `server` and `timed`;
- `DecisionsAreKept`, `MatchesAreNotReapedEarly`: action properties of the two;
- `DeadlinesCome`: the measure behind `MatchReclaimed` and `RelayReclaimed`. Nothing makes
  a match younger, nothing but a packet forwarded or one more route ends the silence
  of its relay, time adds to both until they are past the deadline, and the first tick
  then, none before, gives the entry back;
- `StartsAreOwed`, under the hypothesis `Honest`: the network makes up no START of
  its own. Every `Pool` used here satisfies it.

Assumptions: at least one entry and two slots, deadlines that are natural
numbers with the started deadline not beyond the relay's (30 s and 60 s in the
code), and sentinels that are not values. TLC checks them in every run.

The argument is one inductive invariant, `IInv`: every entry satisfies `EntryOK`,
ids are distinct, and no host has two open lobbies. `EntryOK` strengthens the
properties by what they need to be preserved. A free entry is `Cleared`, or else
an entry used again could bring old verdicts along. A route is settled only when
both sides have reported, or else forgetting a member could not be excluded. In
a started match the ages are ordered - the relay has been silent no longer than
the match has lasted - and this is what `NotReapedEarly` follows from: it holds
because `do_start` resets the relay clock, and fails when it does not. Each operator
that changes an entry has a lemma that it preserves `EntryOK`; each action has one
that it preserves the two facts about several entries; `Invariance` puts them
together. That a decision is kept and START is only owed is then a matter of single
steps: each packet a step sends is traced to the operator that sends it.

`RateProofs` proves of `RateLimit`, for every set of addresses, number of buckets,
burst, price, rate and width of the clock: `TypeCorrect`, `RateIsHonoured`,
`LazyRefillIsExact`. The invariant compares budgets with a bucket as it would be if
refilled now: never more than the budget of any address that shares it, and equal
to it for an address that is alone, unless the clock has lapped the bucket. `idle`
is the elapsed time that the difference of readings shows, until it laps.

`LobbyProofs` and `AgreementProofs` prove of `Lobby`, for every number of clients
and slots, with or without the relay forced, and any loss:

- `RosterIsAgreed`: every packet under way that names a seat tells the truth about
  it, clients believe only such packets, and the server forgets no member;
- `DirectIsAnswered`: an "open" report under way names a peer that has answered,
  so a direct verdict needs two answers;
- `AgreementIsReached`: Lobby implements `MatchSetup`. A START under way tells that
  every pair is routed (`UpOK`, `MeshOK`): only the host sends it, and only when it
  has been told of every route. A client that is READY has the routes of its slot,
  although it may have taken a route for its own before it knew its slot: the pair
  such a route stands for is silent on its side, so it is never decided, and a match
  that has started has no such client. A verdict is an `Arbitrate` step, the first
  START is `Agree`, getting READY is `Enter`, failing is `Fail`, all else stutters;
- `PlayersFindEachOther`: players who are READY have each other's address and the
  same kind of route. It needs that nobody leaves the lobby before it knows every
  member (`FullInv`), and that what it then knows is true (`RosterIsAgreed`);
- `ServerServes`: seen by its table, the server of the lobby is the server of
  `Rendezvous` with one session, START of one match and deadlines of 0. Its clients
  send what the server expects - known slots, a verdict of two values, the one
  START - and this has to be proved of packets that were sent in former states
  (`UpOK`, `UpDeal`);
- `ServerGuarantees`: so what `RendezvousProofs` proves of a server in an open world
  holds in the lobby;
- `RunningIsTold`: a session is RUNNING only when every slot has a client that has
  taken START. The server's half is `RunningMeansEveryone`: all *members* have
  acknowledged. The rest is the clients': START is sent for a full lobby only
  (`MeshOK`), and each acknowledgement under way is of a client that has been told
  (`DealInv`). Neither component promises it alone. No run checks it: as one more
  invariant of `lobby_mesh` and `lobby_direct` it says what the theorem says of
  every size.

Assumptions: two slots or more, a host among the clients, bounds that are natural
numbers, and sentinels that are not values.

`AdapterProofs` proves of `NetAdapter`, for every size of the ring and the queue,
every width of the clock and every impairment it can measure:

- `RingIsMailbox`: the ring implements `Mailbox`. Head and count stay in range, and
  entries fewer than `RingSize` apart are different ones, so that a packet written
  overwrites the oldest or nothing;
- `TypeCorrect`, `EverythingAccounted`: the invariants of `adapter`. Each packet is in
  one place (held back, departed or refused), and the places are disjoint because a
  number is given once;
- `InTime`: its action property on times. The code compares clock readings by the
  sign of a difference of the clock's width. That is right as long as the reading a
  packet waits for is less than half of the clock's range away, whichever way, and
  this has to hold however often the packet may still be pushed back by reordering:
  `2 * (wait + Sends - asked) < Word` is what the invariant says of every packet held
  back. It is kept because a pump comes in time.

Assumptions: `2 * (delay + jitter + Sends) <= Word` and `2 * Late < Word`: with a delay and
a jitter of 16 bits and a clock of 32, that is two thousand million packets sent and
a pump every 24 days. `Sends` is a bound of the model; in the code it stands for how
many packets may follow one that is still in the queue, of which there are at most
empties as they go. `flush_due` is written as a selection by rank (`InOrder`): the k-th of the chosen
packets is the one with k chosen up to it. `SelectSeq` computes the same, but what it
computes is an induction over data, which is beyond the proof system; of ranks the
library's facts on finite sets say enough.

`RollbackProofs` and `ReplayProofs` prove of `Rollback`, for every set of peers and
inputs, every window, delay, size of history and ring, and length of the match:

- `TypeCorrect`, `HistoryIsConfirmed`, `HashesAgree`, `DesyncsAreReal`: the
  invariants of `rollback`;
- `ImplementsLockstep`: the refinement of `Lockstep`;
- `SettledIsFinal`: no rollback reaches below the verified tick, so what a peer has
  settled, the effect of the test hook included, never changes again;
- `DesyncIsExact`: of a tick that two peers have settled the checksums differ if and
  only if the hook has struck one of them, at or before it, and not the other. The
  check for desyncs misses nothing and invents nothing, as long as hashes do not
  collide (a hash is the state itself here);
- `BundlesAgree`: the histories in two bundles contradict each other only in a tick that
  one of the two peers has not settled;
- `Completeness`: the ring holds the hashes of exactly the last `RingSize` ticks;
- `ReplayIsRight`: the replay of a bundle names the tick at which the simulation
  left its inputs, if ring and history still have it.

The invariant says what the copies of the match have in common: snapshots,
recorded inputs and ring agree with the live state up to its tick, and the live
state agrees with the true inputs up to the tick that is settled. A rollback
shortens the live state but never below that tick, so what is settled only grows;
a desync is of a settled tick, where two peers can differ only by the test hook.
That the ring is complete is a matter of its own, for a rollback overwrites entries
of ticks it has yet to run again. The replay looks for the least tick that is
contradicted; that there is one follows from `<` on the naturals being well-founded.
`DesyncIsExact` rests on lemma `VerifiedTick`: a state is the sequence of its ticks, and
that of a peer agrees with the true inputs and the hooks up to the tick verified.

Assumptions: a window, a ring and at least one peer, and sentinels that are not
values. TLC checks the assumptions of every module in its runs.

`ArenaProofs` proves of `ArenaMatch`, for every number of slots, players, bombs
and blasts, every cap on live bombs, all durations and all buttons:

- `TypeCorrect`, `BombsCounted`, `HandsAgree`, `Champion`: the invariants of
  `arena`;
- `RoundIsWonByLast`: its action property on rounds won;
- `HurtOncePerBlast`: its action property on blasts, under the hypothesis
  `Outlasting` on durations: a stun or a respawn lasts at least as long as what is
  left of a blast after the tick of the hit, and a grace follows the stun. The tuning
  (30 and 120 ticks for a blast of 20, a grace of 60) satisfies it; it is a
  hypothesis and not an assumption of the module, since nothing in the code checks
  it;
- `FusesAreLit`, `FusesBurn`: the measure behind `LitBombsGoOff`. No bomb rests with its
  fuse burnt out, what is left of a fuse is raised by no kick, throw, drop or blast,
  and the bomb's own pass in every tick lowers it;
- `DownEnds`: the measure behind `NobodyStuck`. What a stunned or dead player has to
  wait is made longer by no hit, round or button, and its own pass in every tick makes
  it shorter. What is left for TLC is that the pass comes again and again.

Assumptions: there is at least one slot, bomb, blast, hit point and round to win,
players fit the slots, a fuse and a jump last at least a tick, and stun plus grace
and the respawn fit the timer. TLC checks them in the runs.

Its inductive invariant says of each player and the pool what `PlayerOK` says:
the record is typed, a player is dead exactly without hit points, the count is the
number of bombs owned, held and HELD agree in both directions. All of it is
needed at once: that a detonation may lower the count rests on the bomb being
owned, that a throw may free the hands on the bomb thrown being the only one held,
and that the dead drop nothing on their holding nothing. Players do not disturb
each other because of `Keeps`: an operation of player i changes free bombs and
bombs of i only, and what it leaves is free or of i; lemma `Others` draws the
conclusion once. The counts use the library's facts on finite sets: a grab adds
one bomb to the set owned, a fan adds a set of known size disjoint from it.
`Scores` adds that nobody has won enough rounds unless the phase is the end of a
round, which is why the round after the last one cannot begin. Each part of
`player_tick` and each action has a lemma of its own.

`HurtOncePerBlast` adds an invariant of its own, `Shielded`: whoever a blast has hurt
is covered by the stun, by death or by a tick of grace for as many passes of the
player loop as come before the blast's last (`Covered`, `ToCome`). It counts passes
and not ticks, because a blast later in the loop hits after the player's pass of
the tick and one may expire before the next. A pass takes one from both sides; another
blast cannot hit one who is covered; a player comes back from stun or death at the
last of these passes at the earliest and has a tick of grace left then, which only
a later pass, when the blast is spent, could wind up or reset.

Only model-checked: liveness (`MatchReclaimed`, `RelayReclaimed`, `LobbyReclaimed`,
`EveryoneReady`, `MatchAcknowledged`, `LitBombsGoOff`, `NobodyStuck`), which is beyond the
proof system. The measures that make those of the server and of the arena true are
proved (`DeadlinesCome`, `FusesBurn`, `DownEnds`), and what is left to TLC is that ticks
and time go on. Every other property of a passing run is a theorem.

## Not modelled

- `udp_socket.c` is input and output, for which the networks of `Lobby` and
  `NetAdapter` stand.
- `lobby_proto.c`: packing and unpacking of packets is a layout, byte by byte; the
  models exchange packets as records. The lobby code (base 32 with a CRC) is a pure
  function that could be checked against a reference.
- The arithmetic of the arena (`arena_math.h`, `arena_sintab.h`), its geometry,
  tuning tables and scripts: positions are choices in `ArenaMatch`, so nothing there
  decides between the behaviours it has. The tuning constants are CONSTANTS.
- Of the session: statistics and flags, collisions of hashes. Of `replay_bundle`:
  reading the file and comparing two bundles. Of the adapter: counters of drops and
  the relay's address.
- The viewer, the tracing and tuning tools and the scripts of the CI are sequential
  programs that read the simulation and print.
- Server and client keep nothing on disk: their memory does not outlive the process,
  and there is no recovery to model. A restarted client is a stranger to the server,
  which `Rendezvous` covers, since any endpoint may send anything.

What could follow: the lobby code and the fixed-point operators as functions against
reference definitions over bounded inputs; a `Lobby` with two sessions and deadlines.
