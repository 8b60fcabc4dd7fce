----------------------------- MODULE NetAdapter -----------------------------
(***************************************************************************)
(* The network adapter of one peer (src/netplay/net_adapter.c) between     *)
(* GekkoNet, the lobby client and the socket: routes, the delay queue of   *)
(* the test impairments, and the ring that keeps control packets for the   *)
(* lobby client.                                                           *)
(*                                                                         *)
(* A packet GekkoNet sends is a number, in the order of sending.  Its      *)
(* field due is the reading of the wrapping clock at which it may go, as   *)
(* in the code; its field wait says, for the properties only, how many     *)
(* milliseconds that really is from now.                                   *)
(***************************************************************************)
EXTENDS Integers, Sequences, FiniteSets

CONSTANTS
    Slot,        \* the other players
    Control,     \* control packets of the lobby
    Profile,     \* impairments: [delay, jitter : Nat, loss, reorder : BOOLEAN]
    QueueSize,   \* NA_DELAY_QUEUE
    RingSize,    \* NA_LOBBY_RING
    PumpSize,    \* NA_MAX_RESULTS
    Word,        \* readings of the clock, 2^32 in the code
    Late,        \* bound: a pump is never later than this after a due packet
    Sends,       \* bound: packets GekkoNet sends
    InboxSize    \* bound: datagrams waiting in the socket

ASSUME AdapterAssumption ==
    /\ QueueSize \in Nat /\ RingSize \in Nat \ {0} /\ PumpSize \in Nat \ {0}
    /\ Word \in Nat /\ Word % 2 = 0 /\ Late \in Nat /\ 2 * Late < Word
    /\ Sends \in Nat /\ InboxSize \in Nat
    /\ \A f \in Profile :
           /\ f.delay \in Nat /\ f.jitter \in Nat
           /\ f.loss \in BOOLEAN /\ f.reorder \in BOOLEAN
           /\ 2 * (f.delay + f.jitter + Sends) <= Word

VARIABLES
    active,    \* whether the adapter is initialized
    route,     \* route[j]: how slot j is reached
    imp,       \* the impairments in force, {} for none
    dq,        \* the delay queue
    lobbyq,    \* the ring of control packets
    head,      \* lobbyq_head
    count,     \* lobbyq_count
    pumping,   \* datagrams na_recv may still take, 0 outside of it
    clock,     \* udp_now_ms
    inbox,     \* datagrams waiting in the socket
    asked,     \* how many packets GekkoNet has sent
    departed,  \* departed[n]: how often packet n was handed to the socket
    refused    \* packets given up: no route, lost, or queued at a shutdown

vars == <<active, route, imp, dq, lobbyq, head, count, pumping, clock, inbox,
          asked, departed, refused>>

Packet == 1 .. Sends
Unused == "unused"   \* a zeroed entry of the ring

\* The memory of the module, all of it zero but active and the route table.
Zeroed(on) ==
    /\ active' = on
    /\ route' = [j \in Slot |-> "none"]
    /\ imp' = {}
    /\ dq' = <<>>
    /\ lobbyq' = [i \in 0 .. RingSize - 1 |-> Unused]
    /\ head' = 0 /\ count' = 0

Init ==
    /\ active = FALSE
    /\ route = [j \in Slot |-> "none"]
    /\ imp = {}
    /\ dq = <<>>
    /\ lobbyq = [i \in 0 .. RingSize - 1 |-> Unused]
    /\ head = 0 /\ count = 0
    /\ pumping = 0
    /\ clock \in 0 .. Word - 1
    /\ inbox = <<>>
    /\ asked = 0
    /\ departed = [n \in Packet |-> 0]
    /\ refused = {}

-----------------------------------------------------------------------------
(* Sending.                                                                *)

Leave(gone) ==
    departed' = [n \in Packet |->
        departed[n] + Cardinality({i \in 1 .. Len(gone) : gone[i] = n})]

\* The delays a packet may get under f.
Delays(f) ==
    {IF d < 0 THEN 0 ELSE d : d \in f.delay - f.jitter .. f.delay + f.jitter}

\* A millisecond more for the packet queued last.
PushedBack(q) ==
    IF q = <<>> THEN q
    ELSE [q EXCEPT ![Len(q)].due = (@ + 1) % Word, ![Len(q)].wait = @ + 1]

Queued(q, n, d) == Append(q, [id |-> n, due |-> (clock + d) % Word, wait |-> d])

\* Mutant: room for one packet more than there is.
FullLate == Len(dq) > QueueSize

Full == Len(dq) >= QueueSize

\* impaired_send
Send(n) ==
    IF imp = {}
    THEN Leave(<<n>>) /\ UNCHANGED <<dq, refused>>
    ELSE \E f \in imp :
           \/ /\ f.loss
              /\ refused' = refused \cup {n}
              /\ UNCHANGED <<dq, departed>>
           \/ \E d \in Delays(f), swap \in {FALSE, f.reorder} :
                  /\ IF d = 0 \/ Full
                     THEN Leave(<<n>>) /\ UNCHANGED dq
                     ELSE /\ dq' = Queued(IF swap THEN PushedBack(dq) ELSE dq, n, d)
                          /\ UNCHANGED departed
                  /\ UNCHANGED refused

\* na_send: GekkoNet has a packet for slot j.
NaSend(j) ==
    LET n == asked + 1 IN
    /\ active /\ pumping = 0 /\ asked < Sends
    /\ asked' = n
    /\ IF route[j] = "none"
       THEN refused' = refused \cup {n} /\ UNCHANGED <<dq, departed>>
       ELSE Send(n)
    /\ UNCHANGED <<active, route, imp, lobbyq, head, count, pumping, clock, inbox>>

-----------------------------------------------------------------------------
(* Receiving.                                                              *)

\* Mutant: the readings themselves are compared.
ReachedUnsigned(now, due) == now >= due

\* The signed difference of two readings is not negative.
Reached(now, due) == 2 * ((now - due) % Word) < Word

\* The packets at the places S of q, in the order of q: the one at place i has
\* as many of S up to it as w, or the packets sent, count in the code.
InOrder(q, S) ==
    [k \in 1 .. Cardinality(S) |->
        q[CHOOSE i \in S : Cardinality({h \in S : h <= i}) = k]]

\* flush_due: what goes and what stays
Due(q) == InOrder(q, {i \in 1 .. Len(q) : Reached(clock, q[i].due)})

\* Mutant: the packets that stay are not moved to the front.
KeptUnmoved(q) == SubSeq(q, 1, Len(q) - Len(Due(q)))

Kept(q) == InOrder(q, {i \in 1 .. Len(q) : ~ Reached(clock, q[i].due)})

\* na_recv: what is due goes out, then the socket is read.
NaRecv ==
    LET due == Due(dq) IN
    /\ active /\ pumping = 0
    /\ Leave([i \in 1 .. Len(due) |-> due[i].id])
    /\ dq' = Kept(dq)
    /\ pumping' = IF inbox = <<>> THEN 0 ELSE PumpSize
    /\ UNCHANGED <<active, route, imp, lobbyq, head, count, clock, inbox, asked,
                   refused>>

\* Mutant: a full ring overwrites its oldest and still reads from there.
RingPushSameHead(m) ==
    IF count < RingSize
    THEN /\ lobbyq' = [lobbyq EXCEPT ![(head + count) % RingSize] = m]
         /\ count' = count + 1
         /\ UNCHANGED head
    ELSE lobbyq' = [lobbyq EXCEPT ![head] = m] /\ UNCHANGED <<head, count>>

\* lobby_ring_push
RingPush(m) ==
    IF count < RingSize
    THEN /\ lobbyq' = [lobbyq EXCEPT ![(head + count) % RingSize] = m]
         /\ count' = count + 1
         /\ UNCHANGED head
    ELSE /\ lobbyq' = [lobbyq EXCEPT ![head] = m]
         /\ head' = (head + 1) % RingSize
         /\ UNCHANGED count

\* One turn of the loop of na_recv.  Game packets become results of GekkoNet's
\* or, if they are of another session or slot, are dropped.
ReadOne ==
    /\ pumping > 0
    /\ inbox' = Tail(inbox)
    /\ pumping' = IF Tail(inbox) = <<>> THEN 0 ELSE pumping - 1
    /\ IF Head(inbox) \in Control
       THEN RingPush(Head(inbox))
       ELSE UNCHANGED <<lobbyq, head, count>>
    /\ UNCHANGED <<active, route, imp, dq, clock, asked, departed, refused>>

\* net_adapter_take_lobby_packet, into a buffer of LOBBY_MAX_PACKET bytes
TakeLobbyPacket ==
    /\ active /\ pumping = 0 /\ count > 0
    /\ head' = (head + 1) % RingSize
    /\ count' = count - 1
    /\ UNCHANGED <<active, route, imp, dq, lobbyq, pumping, clock, inbox, asked,
                   departed, refused>>

-----------------------------------------------------------------------------
(* The rest of the interface, and the world.                               *)

AdapterInit ==
    /\ ~ active
    /\ Zeroed(TRUE)
    /\ UNCHANGED <<pumping, clock, inbox, asked, departed, refused>>

Shutdown ==
    /\ active /\ pumping = 0
    /\ Zeroed(FALSE)
    /\ refused' = refused \cup {dq[i].id : i \in 1 .. Len(dq)}
    /\ UNCHANGED <<pumping, clock, inbox, asked, departed>>

SetRoute(j) ==
    /\ active /\ pumping = 0
    /\ \E r \in {"direct", "relay"} : route' = [route EXCEPT ![j] = r]
    /\ UNCHANGED <<active, imp, dq, lobbyq, head, count, pumping, clock, inbox,
                   asked, departed, refused>>

Impair ==
    /\ active /\ pumping = 0
    /\ imp' \in {{}} \cup {{f} : f \in Profile}
    /\ UNCHANGED <<active, route, dq, lobbyq, head, count, pumping, clock, inbox,
                   asked, departed, refused>>

\* A datagram reaches the socket.
Arrival ==
    /\ Len(inbox) < InboxSize /\ pumping = 0
    /\ \E m \in Control \cup {"game"} : inbox' = Append(inbox, m)
    /\ UNCHANGED <<active, route, imp, dq, lobbyq, head, count, pumping, clock,
                   asked, departed, refused>>

Millisecond ==
    /\ pumping = 0
    /\ \A i \in 1 .. Len(dq) : dq[i].wait > - Late
    /\ clock' = (clock + 1) % Word
    /\ dq' = [i \in 1 .. Len(dq) |-> [dq[i] EXCEPT !.wait = @ - 1]]
    /\ UNCHANGED <<active, route, imp, lobbyq, head, count, pumping, inbox, asked,
                   departed, refused>>

Next ==
    \/ AdapterInit \/ Shutdown \/ Impair
    \/ \E j \in Slot : NaSend(j) \/ SetRoute(j)
    \/ NaRecv \/ ReadOne \/ TakeLobbyPacket
    \/ Arrival \/ Millisecond

Spec == Init /\ [][Next]_vars

-----------------------------------------------------------------------------
(* Properties.                                                             *)

TypeOK ==
    /\ active \in BOOLEAN
    /\ route \in [Slot -> {"none", "direct", "relay"}]
    /\ imp \in {{}} \cup {{f} : f \in Profile}
    /\ dq \in Seq([id : Packet, due : 0 .. Word - 1, wait : Int])
    /\ Len(dq) <= QueueSize
    /\ lobbyq \in [0 .. RingSize - 1 -> Control \cup {Unused}]
    /\ head \in 0 .. RingSize - 1 /\ count \in 0 .. RingSize
    /\ pumping \in 0 .. PumpSize
    /\ clock \in 0 .. Word - 1
    /\ inbox \in Seq(Control \cup {"game"})
    /\ asked \in 0 .. Sends
    /\ departed \in [Packet -> Nat]
    /\ refused \in SUBSET Packet

Waiting(n) == {i \in 1 .. Len(dq) : dq[i].id = n}

\* A packet GekkoNet has sent is in one place: it waits in the queue once, or
\* it went out once, or it was given up.  Flushing in place, pushing back and
\* overflowing lose none and double none.
Accounted ==
    \A n \in Packet :
        departed[n] + Cardinality(Waiting(n)) + (IF n \in refused THEN 1 ELSE 0)
            = IF n <= asked THEN 1 ELSE 0

\* A queued packet goes at the first pump at which its time has come and not
\* before, although the clock wraps and reordering changes what is already in
\* the queue.
OnTime ==
    [][/\ NaRecv => \A i \in 1 .. Len(dq') : dq'[i].wait > 0
       /\ \A i \in 1 .. Len(dq) :
              dq[i].wait > 0 /\ active' =>
                  \E j \in 1 .. Len(dq') : dq'[j].id = dq[i].id]_vars

\* The ring is the mailbox the lobby client may take it for.
LobbyMailbox ==
    INSTANCE Mailbox
    WITH Letter <- Control, Capacity <- RingSize,
         box <- [i \in 1 .. count |-> lobbyq[(head + i - 1) % RingSize]]

KeepsLatest == LobbyMailbox!Spec

=============================================================================
