------------------------------ MODULE Rollback ------------------------------
(***************************************************************************)
(* The rollback session of every peer (src/netplay/sync_session.c) over    *)
(* GekkoNet, and what tools/replay_bundle.c makes of the bundle a peer     *)
(* would write at the moment.                                              *)
(*                                                                         *)
(* GekkoNet is not part of the repository.  It is modelled by what         *)
(* sync_frame sees of it: it takes one local input per tick, learns the    *)
(* inputs of the others in order, guesses those it does not know yet, at   *)
(* most Window ticks ahead, and when a guess was wrong hands out a Load    *)
(* event and the Advance events that run the ticks again.  After each      *)
(* Advance it asks for a Save.  How it guesses, and whether it rolls back  *)
(* without need (as a STRESS session does), is left open.                  *)
(*                                                                         *)
(* The simulation is deterministic, so an ArenaState is told apart by how  *)
(* it came about: the sequence of the ticks run.  Its length is            *)
(* state.tick, arena_tick appends, arena_hash is the state itself.         *)
(***************************************************************************)
EXTENDS Integers, Sequences

CONSTANTS
    Player,     \* the peers; peer p plays slot p
    Input,      \* what a player can press in a tick
    NoInput,    \* the zeroed memory of rec
    NoState,    \* the zeroed hash of a ring entry never written
    Nobody,     \* no desync reported
    Window,     \* input_prediction_window
    Delay,      \* input_delay
    HistTicks,  \* BUNDLE_MAX_TICKS
    RingSize,   \* entries of the ring of hashes
    Length      \* bound: the ticks of the match

ASSUME RollbackAssumption ==
    /\ Window \in Nat \ {0} /\ Delay \in Nat
    /\ HistTicks \in Nat /\ Length \in Nat
    /\ RingSize \in Nat \ {0}
    /\ NoInput \notin Input /\ Nobody \notin Player
    /\ Player # {}

VARIABLES
    chosen,    \* chosen[q]: the inputs q gave to GekkoNet, tick by tick
    arrived,   \* arrived[p][q]: how many of them have reached p
    verified,  \* verified[p]: ticks GekkoNet knows to have run on true inputs
    saved,     \* saved[p][t]: the snapshot of tick t
    pump,      \* pump[p]: how far p is in sync_frame
    live,      \* live[p]: s->state
    rec,       \* rec[p]: the inputs recorded, by tick
    recCount,  \* recCount[p]: ticks recorded
    ring,      \* ring[p]: hashes by post-tick number
    armed,     \* armed[p]: corrupt_pending
    dinfo      \* dinfo[p]: the first desync reported

gekko == <<chosen, arrived, verified, saved>>
vars == <<chosen, arrived, verified, saved, pump, live, rec, recCount, ring,
          armed, dinfo>>

Vector == [Player -> Input]
TickRun == [in : Vector, flipped : BOOLEAN]
State == Seq(TickRun)

Tick(s) == Len(s)
Hash(s) == s

Lesser(a, b) == IF a <= b THEN a ELSE b

-----------------------------------------------------------------------------
(* sync_create                                                             *)

Idle == [stage |-> "idle", from |-> 0, head |-> 0, goal |-> 0]

Init ==
    /\ chosen = [p \in Player |-> <<>>]
    /\ arrived = [p \in Player |-> [q \in Player |-> 0]]
    /\ verified = [p \in Player |-> 0]
    /\ saved = [p \in Player |-> [t \in 0 .. Length |-> <<>>]]
    /\ pump = [p \in Player |-> Idle]
    /\ live = [p \in Player |-> <<>>]
    /\ rec = [p \in Player |-> [t \in 0 .. HistTicks - 1 |-> NoInput]]
    /\ recCount = [p \in Player |-> 0]
    /\ ring = [p \in Player |->
                  [i \in 0 .. RingSize - 1 |-> [tick |-> 0, hash |-> NoState]]]
    /\ armed = [p \in Player |-> FALSE]
    /\ dinfo = [p \in Player |-> [tick |-> 0, slot |-> Nobody]]

-----------------------------------------------------------------------------
(* GekkoNet.                                                               *)

\* How many inputs of q are known at p.
Known(p, q) == IF q = p THEN Len(chosen[p]) ELSE arrived[p][q]

\* Ticks of which p knows every input.
AllKnown(p, t) == \A q \in Player : t <= Known(p, q)

\* The inputs p may run tick t on: the known ones, and guesses.
Guesses(p, t) ==
    {v \in Vector : \A q \in Player : t < Known(p, q) => v[q] = chosen[q][t + 1]}

\* The state of p has run tick t on an input now known to be another.
Wrong(p, t) == live[p][t + 1].in \notin Guesses(p, t)

\* The start of sync_frame: gekko_network_poll, by which any number of inputs
\* reach p, in order, and gekko_add_local_input.
Frame(p) ==
    /\ pump[p].stage = "idle" /\ verified[p] < Length
    /\ pump' = [pump EXCEPT ![p].stage = "update"]
    /\ \E got \in [Player -> 0 .. Length] :
           /\ \A q \in Player : got[q] \in arrived[p][q] .. Len(chosen[q])
           /\ got[p] = 0
           /\ arrived' = [arrived EXCEPT ![p] = got]
    /\ IF Len(chosen[p]) <= Tick(live[p]) + Delay /\ Len(chosen[p]) < Length
       THEN \E i \in Input : chosen' = [chosen EXCEPT ![p] = Append(@, i)]
       ELSE UNCHANGED chosen
    /\ UNCHANGED <<verified, saved, live, rec, recCount, ring, armed, dinfo>>

\* What is settled once the state of p has reached tick t: the last tick up to
\* which every input is known.
Settled(p, t) ==
    {k \in 0 .. t : AllKnown(p, k) /\ \A j \in 0 .. t : AllKnown(p, j) => j <= k}

\* The update of p is over: GekkoNet knows what has been run for good.
Done(p, t) ==
    /\ pump' = [pump EXCEPT ![p] = Idle]
    /\ \E k \in Settled(p, t) : verified' = [verified EXCEPT ![p] = k]

\* gekko_update_session: load the state of a tick that is early enough, come
\* back to where the session was, and go on unless too far ahead.
Update(p) ==
    LET head == Tick(live[p])
        goal == IF head < Length /\ AllKnown(p, head + 1 - Window)
                THEN head + 1 ELSE head
    IN
    /\ pump[p].stage = "update"
    /\ \E from \in verified[p] .. head :
           /\ \A t \in 0 .. from - 1 : ~ Wrong(p, t)
           /\ IF from = head /\ goal = head
              THEN Done(p, head)
              ELSE /\ pump' = [pump EXCEPT ![p] =
                          [stage |-> IF from < head THEN "load" ELSE "advance",
                           from |-> from, head |-> head, goal |-> goal]]
                   /\ UNCHANGED verified
    /\ UNCHANGED <<chosen, arrived, saved, live, rec, recCount, ring, armed,
                   dinfo>>

-----------------------------------------------------------------------------
(* sync_frame's loop over the events of the update.                        *)

\* Mutant of Load: the snapshot after the tick guessed wrong.
LoadLate(p) ==
    /\ pump[p].stage = "load"
    /\ live' = [live EXCEPT ![p] = saved[p][pump[p].from + 1]]
    /\ pump' = [pump EXCEPT ![p].stage = "advance"]
    /\ UNCHANGED <<chosen, arrived, verified, saved, rec, recCount, ring,
                   armed, dinfo>>

Load(p) ==
    /\ pump[p].stage = "load"
    /\ live' = [live EXCEPT ![p] = saved[p][pump[p].from]]
    /\ pump' = [pump EXCEPT ![p].stage = "advance"]
    /\ UNCHANGED <<chosen, arrived, verified, saved, rec, recCount, ring,
                   armed, dinfo>>

\* Mutant of Recorded: what a tick ran with is recorded the first time only.
RecordedOnce(p, T, in) ==
    /\ rec' = IF T < HistTicks /\ rec[p][T] = NoInput
              THEN [rec EXCEPT ![p][T] = in] ELSE rec
    /\ recCount' = IF T < HistTicks /\ T + 1 > recCount[p]
                   THEN [recCount EXCEPT ![p] = T + 1] ELSE recCount

\* Mutant of Recorded: the history has no end.
RecordedForEver(p, T, in) ==
    /\ rec' = [rec EXCEPT ![p][T] = in]
    /\ recCount' = IF T + 1 > recCount[p]
                   THEN [recCount EXCEPT ![p] = T + 1] ELSE recCount

\* The inputs tick T ran with, in the history of a bundle.
Recorded(p, T, in) ==
    /\ rec' = IF T < HistTicks THEN [rec EXCEPT ![p][T] = in] ELSE rec
    /\ recCount' = IF T < HistTicks /\ T + 1 > recCount[p]
                   THEN [recCount EXCEPT ![p] = T + 1] ELSE recCount

\* Mutant of Hashed: only fresh ticks go to the ring.
HashedFresh(p, s) ==
    ring' = IF Tick(s) > pump[p].head
            THEN [ring EXCEPT ![p][Tick(s) % RingSize] =
                     [tick |-> Tick(s), hash |-> Hash(s)]]
            ELSE ring

\* Mutant of Hashed: the hash is taken before the test hook strikes.
HashedUnspoilt(p, s) ==
    ring' = [ring EXCEPT ![p][Tick(s) % RingSize] =
                [tick |-> Tick(s),
                 hash |-> Hash([s EXCEPT ![Tick(s)].flipped = FALSE])]]

Hashed(p, s) ==
    ring' = [ring EXCEPT ![p][Tick(s) % RingSize] =
                [tick |-> Tick(s), hash |-> Hash(s)]]

\* arena_tick on the inputs in, and the test hook that spoils a fresh tick.
Advance(p) ==
    LET T       == Tick(live[p])
        rolling == T < pump[p].head
        flips   == armed[p] /\ ~ rolling
    IN
    /\ pump[p].stage = "advance"
    /\ \E in \in Guesses(p, T) :
           LET s == Append(live[p], [in |-> in, flipped |-> flips]) IN
           /\ Recorded(p, T, in)
           /\ live' = [live EXCEPT ![p] = s]
           /\ Hashed(p, s)
    /\ armed' = IF flips THEN [armed EXCEPT ![p] = FALSE] ELSE armed
    /\ pump' = [pump EXCEPT ![p].stage = "save"]
    /\ UNCHANGED <<chosen, arrived, verified, saved, dinfo>>

\* Mutant of Save: a tick run again keeps the snapshot it had.
SaveFresh(p) ==
    LET t == Tick(live[p]) IN
    /\ pump[p].stage = "save"
    /\ saved' = IF t > pump[p].head THEN [saved EXCEPT ![p][t] = live[p]] ELSE saved
    /\ IF t < pump[p].goal
       THEN pump' = [pump EXCEPT ![p].stage = "advance"] /\ UNCHANGED verified
       ELSE Done(p, t)
    /\ UNCHANGED <<chosen, arrived, live, rec, recCount, ring, armed, dinfo>>

\* The snapshot and, as its checksum, the hash.  The state of tick 0 was
\* saved before anything could change it.
Save(p) ==
    LET t == Tick(live[p]) IN
    /\ pump[p].stage = "save"
    /\ saved' = [saved EXCEPT ![p][t] = live[p]]
    /\ IF t < pump[p].goal
       THEN pump' = [pump EXCEPT ![p].stage = "advance"] /\ UNCHANGED verified
       ELSE Done(p, t)
    /\ UNCHANGED <<chosen, arrived, live, rec, recCount, ring, armed, dinfo>>

\* The report of a desync: the first one is kept.
Detected(p, q, t) ==
    /\ dinfo[p].slot = Nobody
    /\ dinfo' = [dinfo EXCEPT ![p] = [tick |-> t, slot |-> q]]

\* GekkoDesyncDetected: the checksums of a tick both have settled differ.
Desync(p, q) ==
    /\ pump[p].stage = "update" /\ p # q
    /\ \E t \in 1 .. Lesser(verified[p], verified[q]) :
           Hash(saved[p][t]) # Hash(saved[q][t]) /\ Detected(p, q, t)
    /\ UNCHANGED <<chosen, arrived, verified, saved, pump, live, rec, recCount,
                   ring, armed>>

\* sync_debug_corrupt
Corrupt(p) ==
    /\ pump[p].stage = "idle" /\ ~ armed[p]
    /\ armed' = [armed EXCEPT ![p] = TRUE]
    /\ UNCHANGED <<chosen, arrived, verified, saved, pump, live, rec, recCount,
                   ring, dinfo>>

Step(p) == Frame(p) \/ Update(p) \/ Load(p) \/ Advance(p) \/ Save(p)

Next ==
    \E p \in Player :
        Step(p) \/ Corrupt(p) \/ \E q \in Player : Desync(p, q)

Spec == Init /\ [][Next]_vars

-----------------------------------------------------------------------------
(* sync_hash_at, and tools/replay_bundle.c on a bundle written now.        *)

HashAt(p, t) ==
    LET th == ring[p][t % RingSize] IN IF th.tick = t THEN th.hash ELSE NoState

\* sync_dump_bundle
Bundle(p) == [count |-> recCount[p], inputs |-> rec[p], ring |-> ring[p]]

\* replay: the state of tick t, from the seed and the inputs of the bundle b.
Replayed(b, t) == [k \in 1 .. t |-> [in |-> b.inputs[k - 1], flipped |-> FALSE]]

\* The ticks whose hash in the ring the replay contradicts.
Contradicted(b) ==
    {b.ring[i].tick : i \in
        {j \in 0 .. RingSize - 1 :
            /\ b.ring[j].tick \in 1 .. b.count
            /\ b.ring[j].hash # Hash(Replayed(b, b.ring[j].tick))}}

Earliest(ticks) == CHOOSE t \in ticks : \A u \in ticks : t <= u

\* first_divergence, 0 for none
FirstDivergence(b) ==
    IF Contradicted(b) = {} THEN 0 ELSE Earliest(Contradicted(b))

-----------------------------------------------------------------------------
(* Properties.                                                             *)

Truth(t) == [q \in Player |-> chosen[q][t + 1]]

Flipped(p) == {k \in 1 .. Len(live[p]) : live[p][k].flipped}

AtRest(p) == pump[p].stage \in {"idle", "update"}

TypeOK ==
    /\ chosen \in [Player -> Seq(Input)]
    /\ arrived \in [Player -> [Player -> Nat]]
    /\ verified \in [Player -> 0 .. Length]
    /\ saved \in [Player -> [0 .. Length -> State]]
    /\ pump \in [Player ->
           [stage : {"idle", "update", "load", "advance", "save"},
            from : 0 .. Length, head : 0 .. Length, goal : 0 .. Length]]
    /\ live \in [Player -> State]
    /\ rec \in [Player -> [0 .. HistTicks - 1 -> Vector \cup {NoInput}]]
    /\ recCount \in [Player -> 0 .. HistTicks]
    /\ ring \in [Player -> [0 .. RingSize - 1 ->
           [tick : 0 .. Length, hash : State \cup {NoState}]]]
    /\ armed \in [Player -> BOOLEAN]
    /\ dinfo \in [Player -> [tick : 0 .. Length, slot : Player \cup {Nobody}]]

\* However often ticks were run again, the recorded inputs of every settled
\* tick are the true ones, on every peer (sync_session.c:231-233): a bundle
\* written at any moment, even half-way through an update, replays the match
\* that was played.
HistoryConfirmed ==
    \A p \in Player : \A t \in 0 .. Lesser(verified[p], HistTicks) - 1 :
        t < recCount[p] /\ rec[p][t] = Truth(t)

\* A caller may take the hash of a tick for final once the present is Window
\* ticks beyond (sync_session.h:49-51): unless the test hook has spoilt one of
\* them, any two peers that still hold the hash of such a tick hold the same.
SettledHashesAgree ==
    \A p, q \in Player : \A t \in 1 .. Length :
        /\ AtRest(p) /\ Flipped(p) = {} /\ t + Window <= Tick(live[p])
        /\ AtRest(q) /\ Flipped(q) = {} /\ t + Window <= Tick(live[q])
        /\ HashAt(p, t) # NoState /\ HashAt(q, t) # NoState
        => HashAt(p, t) = HashAt(q, t)

\* replay_bundle names the very tick at which the live state left its own
\* inputs (sync_session.c:241-243), or the oldest that is still in the ring;
\* nothing when the state never did, and nothing when the recorded history
\* ends before (replay_bundle.c:127).
ReplayNamesTheTick ==
    \A p \in Player : AtRest(p) =>
        LET oldest  == Tick(live[p]) - RingSize + 1
            left    == Earliest(Flipped(p))
            visible == IF left >= oldest THEN left ELSE oldest
        IN  FirstDivergence(Bundle(p)) =
                IF Flipped(p) # {} /\ visible <= recCount[p] THEN visible ELSE 0

\* A desync is reported of a tick at or after one that a peer's simulation
\* left its inputs at, and of a peer that disagrees: no schedule of packets,
\* guesses and rollbacks raises a false alarm.
DesyncIsReal ==
    \A p \in Player : dinfo[p].slot # Nobody =>
        \E k \in Flipped(p) \cup Flipped(dinfo[p].slot) : k <= dinfo[p].tick

\* Rollback is invisible: what the peers have settled is a match in lockstep.
Promise ==
    INSTANCE Lockstep
    WITH given <- chosen,
         run <- [p \in Player |-> [k \in 1 .. verified[p] |-> live[p][k].in]]

RollbackInvisible == Promise!Spec

=============================================================================
