------------------------------- MODULE CanBus -------------------------------
(***************************************************************************)
(* An ECU on a CAN bus with remote modules: every module sends messages    *)
(* frame by frame, the frames of several modules interleave, frames are    *)
(* lost, a transmitter refuses one in the middle of a message, a module    *)
(* restarts or falls silent.  The ECU reassembles what arrives, observes   *)
(* the heartbeats in its roster, sweeps the roster for silent modules and  *)
(* lets a reader catch up with the event log.                              *)
(*                                                                         *)
(* The ECU takes a frame as soon as it is on the bus; a frame its receive  *)
(* FIFO had no room for is a lost one.  Who calls the roster is external:  *)
(* the repository exports it and has no caller outside its tests.          *)
(***************************************************************************)
EXTENDS CanFraming, CanRoster

CONSTANTS
    AllNodes,
    Scenarios     \* [sends, faults, ages, sweeps, reads, silence]

VARIABLES
    env,      \* the scenario, and the faults it may still have
    tx,       \* per module: the message of its send call, transfer id, bytes sent
    bus,      \* the message whose frame was last on the bus
    rx,       \* the receiving CanTransport
    clean,    \* per module: nothing has disturbed the stream it is sending
    roster,
    reader    \* the watermark and the states of the snapshot its owner last took

vars == <<env, tx, bus, rx, clean, roster, reader>>

Nodes == DOMAIN tx

Init ==
    /\ env \in Scenarios
    /\ tx = [n \in DOMAIN env.sends |-> [msg |-> None, tid |-> 0, sent |-> 0]]
    /\ bus = None
    /\ rx = NewReceiver
    /\ clean = [n \in DOMAIN env.sends |-> FALSE]
    /\ roster = NewRoster
    /\ reader = [mark |-> 0, slots |-> <<>>]

---------------------------------------------------------------------------
\* The message module n is sending, or may begin to send.
Offered(n) == IF tx[n].msg = None THEN env.sends[n] ELSE {tx[n].msg}
FrameOf(n, m) == NextFrame(m, tx[n].tid, tx[n].sent)

\* After a frame went out, and after a refused frame ended the call of send.
Sent(n, m) ==
    LET sent == tx[n].sent + Len(FrameOf(n, m).data)
    IN  IF sent >= Size(m) THEN [msg |-> None, tid |-> NextTid(tx[n].tid), sent |-> 0]
        ELSE [tx[n] EXCEPT !.msg = m, !.sent = sent]
Aborted(n) == [msg |-> None, tid |-> NextTid(tx[n].tid), sent |-> 0]

\* A stream is undisturbed from a start frame that found a slot until a frame
\* of it is lost or another module's frame uses its transfer id and class.
CleanAfter(n, f) ==
    [k \in Nodes |->
       IF k = n THEN IF f.kind = "start" THEN rx'.slots # rx.slots /\ Matching(rx, f) = {}
                     ELSE clean[n]
       ELSE clean[k] /\ ~(tx[k].msg # None /\ tx[k].tid = f.tid /\ RouteFor(tx[k].msg) = f.id)]

Deliver(out, age) ==
    roster' = IF out = None \/ out = Garbled \/ out.class # "Heartbeat" THEN roster
              ELSE Observe(roster, out.body, age)

\* A frame of module n reaches the ECU, which takes it at once.
SendFrame(n, m, age) ==
    LET f == FrameOf(n, m)
    IN  /\ tx' = [tx EXCEPT ![n] = Sent(n, m)]
        /\ bus' = m
        /\ rx' = Receive(rx, f)
        /\ clean' = CleanAfter(n, f)
        /\ Deliver(rx'.out, age)
        /\ UNCHANGED <<env, reader>>

Fault(n) ==
    /\ env.faults > 0
    /\ env' = [env EXCEPT !.faults = @ - 1]
    /\ clean' = [clean EXCEPT ![n] = FALSE]
    /\ UNCHANGED <<bus, rx, roster, reader>>

\* The frame is sent and does not reach the ECU.
LoseFrame(n, m) == Fault(n) /\ tx' = [tx EXCEPT ![n] = Sent(n, m)]

\* send_frame: the bus is off or recovering, the transmitter busy or in error.
RefuseFrame(n) ==
    /\ env.sends[n] # {}
    /\ \E dev \in Devices : SendResult(dev) # "Ok"
    /\ Fault(n)
    /\ tx' = [tx EXCEPT ![n] = Aborted(n)]

\* The module restarts, in the middle of a message or not.
RestartModule(n) == Fault(n) /\ tx' = [tx EXCEPT ![n] = [msg |-> None, tid |-> 0, sent |-> 0]]

\* The module falls silent for good.
Silence(n) ==
    /\ n \in env.silence
    /\ env.sends[n] # {}
    /\ env' = [env EXCEPT !.sends[n] = {}]
    /\ tx' = [tx EXCEPT ![n] = [msg |-> None, tid |-> 0, sent |-> 0]]
    /\ clean' = [clean EXCEPT ![n] = FALSE]
    /\ UNCHANGED <<bus, rx, roster, reader>>

Sweep(ms) ==
    /\ roster' = SweepStale(roster, ms)
    /\ UNCHANGED <<env, tx, bus, rx, clean, reader>>

Read ==
    /\ env.reads
    /\ reader' = [mark |-> TotalWritten(roster.log), slots |-> StatesIn(roster.slots)]
    /\ UNCHANGED <<env, tx, bus, rx, clean, roster>>

SendAny(n) == \E m \in Offered(n), age \in env.ages : SendFrame(n, m, age)
SweepAny == \E ms \in env.sweeps : Sweep(ms)

Next ==
    \/ \E n \in Nodes : SendAny(n)
    \/ \E n \in Nodes : \E m \in Offered(n) : LoseFrame(n, m)
    \/ \E n \in Nodes : RefuseFrame(n) \/ RestartModule(n) \/ Silence(n)
    \/ SweepAny
    \/ Read

\* The modules keep sending: each has a periodic task.  A turn of module n is a
\* step in which its next frame goes out and is not lost, that is SendAny(n).
Turn(n) ==
    /\ n \in Nodes
    /\ \E m \in Offered(n) : tx' = [tx EXCEPT ![n] = Sent(n, m)]
    /\ env' = env

Fairness == \A n \in AllNodes : WF_<<env, tx>>(Turn(n))

Spec == Init /\ [][Next]_vars /\ Fairness

---------------------------------------------------------------------------
Calls == [msg : Messages \cup {None}, tid : 0 .. TidMod - 1, sent : Nat]
SlotType == [tid : 0 .. TidMod - 1, id : Nat, expected : Nat, crc : 0 .. 2^16 - 1,
             buf : Seq(0 .. 255), of : Messages]
EntryType == [node : AllNodes, state : States, from : States, age : 0 .. AgeMax]

\* Every variable has its type; the roster and its log stay within capacity.
BusTypeOK ==
    /\ tx \in [DOMAIN env.sends -> Calls]
    /\ bus \in Messages \cup {None}
    /\ \A s \in Slots : rx.slots[s] = EmptySlot \/ rx.slots[s] \in SlotType
    /\ clean \in [DOMAIN env.sends -> BOOLEAN]
    /\ roster.slots \in Seq(EntryType) /\ Len(roster.slots) <= RosterCapacity
    /\ Len(roster.log.entries) <= LogCapacity /\ roster.log.dropped \in 0 .. DroppedMax

\* The bytes of a message that its last frame carries.
LastBytes(m) ==
    LET n == 1 + ((Size(m) - StartChunk - 1) % (MaxCanData - 1))
    IN  IF IsSingle(m) THEN m.bytes ELSE Chunk(m, Size(m) - n, n)

\* What the ECU hands up is, from the first byte to the last, the message whose
\* start frame opened the stream: never the bytes of two messages put together
\* (try_receive checks the CRC before it decodes).  As a rule it is also the
\* message on the bus at that moment.  Transfer ids come round, and nothing in
\* a continuation names its message, so a start whose end was lost can be
\* completed by a later message, of another module even; but only by one that
\* ends in the same bytes, as heartbeats seconds apart do.
DeliveredIsIntact ==
    rx.out # None =>
        /\ rx.out = rx.whose
        /\ rx.out = bus \/ (rx.out.class = bus.class /\ LastBytes(rx.out) = LastBytes(bus))

\* Two streams in reassembly differ in transfer id or class, so a frame has
\* one stream it can belong to, and no stream in a slot is already complete.
SlotsAreStreams ==
    \A s \in Slots : rx.slots[s].tid # None =>
        /\ Len(rx.slots[s].buf) < rx.slots[s].expected
        /\ \A t \in Slots \ {s} : rx.slots[t].tid = None
                \/ <<rx.slots[s].tid, rx.slots[s].id>> # <<rx.slots[t].tid, rx.slots[t].id>>

\* A stream that found a slot, lost no frame and met no frame of another
\* module with its transfer id and class is handed up with its last frame,
\* whatever the other modules' streams, losses and leftovers.
CleanStreamIsDelivered ==
    [][\A n \in Nodes :
         clean[n] /\ clean'[n] /\ tx[n].msg # None /\ tx'[n].msg = None => rx'.out = tx[n].msg]_vars

\* A module is Unavailable, and its data replaced by a local fallback, exactly
\* when its last heartbeat is older than the timeout: observing a heartbeat
\* resets the age that the sweeps add to.
UnavailableIffStale ==
    \A i \in 1 .. Len(roster.slots) :
        (roster.slots[i].state = "Unavailable") <=> IsStale(roster.slots[i].age)

\* The event log tells the whole story: replaying what a reader has not seen
\* over the states it knows, every entry starts from the state the one before
\* left, and the last leaves the roster's; or entries were dropped, and the
\* reader is told how many.  (Until the counter of dropped events saturates.)
Unread == DeltaSince(roster.log, reader.mark)
KnownTo(k, n) ==
    LET of == SelectSeq(SubSeq(Unread.entries, 1, k), LAMBDA e : e.node = n)
    IN  IF of = <<>> THEN StateIn(reader.slots, n) ELSE of[Len(of)].current
DeltaReplays ==
    roster.log.dropped < DroppedMax =>
        /\ Len(Unread.entries) + Unread.dropped = TotalWritten(roster.log) - reader.mark
        /\ Unread.dropped = 0 =>
             /\ \A k \in 1 .. Len(Unread.entries) :
                  Unread.entries[k].previous = KnownTo(k - 1, Unread.entries[k].node)
             /\ \A n \in Nodes : KnownTo(Len(Unread.entries), n) = StateIn(roster.slots, n)

\* The digest of the unread entries never contradicts the roster: the latest
\* entry of a module has its present state, the readiness and shutdown
\* verdicts drawn from the entry are those of a roster with that module alone,
\* and once every module has an unread entry the fallback counts agree.
LatestAgreesWithRoster ==
    LET latest == LatestPerNode(Unread)
        alone(n) == SelectSeq(roster.slots, LAMBDA e : e.node = n)
    IN  roster.log.dropped < DroppedMax =>
          /\ \A i \in 1 .. Len(latest) :
               /\ latest[i].current = StateIn(roster.slots, latest[i].node)
               /\ ReadinessOf(latest[i]) = StartupReadiness(alone(latest[i].node))
               /\ ShutdownOf(latest[i]) = ShutdownCoordination(alone(latest[i].node))
          /\ Len(latest) = Len(roster.slots) => ImpactCounts(latest) = PolicyCounts(roster.slots)
          /\ Unread.dropped = 0 =>
               {ChangeSetSince(roster.slots, reader.slots)[i].node :
                   i \in 1 .. Len(ChangeSetSince(roster.slots, reader.slots))}
                 \subseteq {latest[i].node : i \in 1 .. Len(latest)}

\* The modules that send messages of several frames are no more than the slots,
\* and no two of them send those in the same class.
LongClasses(n) == {m.class : m \in {k \in env.sends[n] : ~IsSingle(k)}}
SlotsSuffice ==
    /\ Cardinality({n \in Nodes : LongClasses(n) # {}}) <= Cardinality(Slots)
    /\ \A n, k \in Nodes : n # k => LongClasses(n) \cap LongClasses(k) = {}

\* Lost frames, refused frames and restarts leave streams behind in the slots,
\* and try_receive has no timeout that would free one.  While the slots
\* suffice for the modules that fragment, none that keeps sending is locked
\* out by what it or another left behind: its messages are handed up again and
\* again.  (Two modules that fragment the same class can collide for ever, and
\* a third one may find both slots taken each time; those are left out.)
NoModuleLockedOut ==
    \A n \in AllNodes :
        []<>(n \in Nodes /\ env.sends[n] # {} /\ SlotsSuffice => rx.out # None /\ rx.out.from = n)

\* Reassembly never mixes streams: every slot is one stream in progress, and
\* what is handed up is a message as it was sent.
ReassemblyIsSound == BusTypeOK /\ DeliveredIsIntact /\ SlotsAreStreams

\* Ages, states, the event log and what a reader makes of it tell one story.
RosterIsSound == UnavailableIffStale /\ DeltaReplays /\ LatestAgreesWithRoster
=============================================================================
