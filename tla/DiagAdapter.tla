---------------------------- MODULE DiagAdapter ----------------------------
(***************************************************************************)
(* The diagnostics of the board adapter (boards/common adapter.rs) and the *)
(* loop they run in: the OBD-II service answers at most one request, the   *)
(* pressures and the sensors are captured, the tick steps the runtime and  *)
(* looks for new conditions, and the retained history is persisted when it *)
(* has changed.  Requests come at any time, a send, a board port or the    *)
(* store may fail, and the power may be cut between any two steps.         *)
(*                                                                         *)
(* The adapter is one record: the diagnostic log, the runtime's fault, the *)
(* last fault transition, the codes of the live conditions, the two range  *)
(* latches, the integrity latch, the retained history and the capture.  To *)
(* state what the history may hold, it also has the set of the codes       *)
(* raised since the last clear, which no operation reads.                  *)
(***************************************************************************)
EXTENDS Obd2Service

CONSTANTS
    ClearTime,      \* clear_time_s, in timer units
    MapMin, MapMax, \* SharedSensorLimits
    BrownoutMv, OvervoltageMv,
    OilMin, FuelMin,
    KnockThreshold, \* of the calibration, or Absent for a direct pulse-width table
    DiagScenarios   \* the inputs: [snaps, pressures, faults, requests, id,
                    \* cuts, fails, service, wrap]; the timer, a u32, wraps at wrap

ASSUME DiagAssumption ==
    /\ \A g \in DiagScenarios : g.wrap \in Nat \ {0}
    /\ ClearTime \in Nat
    /\ MapMin <= MapMax

VARIABLES
    given,      \* the inputs this behaviour draws from
    ad,         \* the adapter
    clock,      \* the timer
    turn,       \* the next step of the loop
    sidecar,    \* the retained history in the store, as words
    saved,      \* last_persisted_snapshot
    wire        \* this pump's request and answer, and whether it was sent

diagVars == <<given, ad, clock, turn, sidecar, saved, wire>>

Latches == {"MapRange", "TpsRange"}
Unlatched == [active |-> FALSE, since |-> 0]
LiveCodes == {"LowVoltage", "Overvoltage", "KnockDetected", "LambdaInvalid", "OilPressureLow",
              "FuelPressureLow"}

NewAdapter ==
    [log |-> NewDiagLog, fault |-> NoFault, trans |-> NoTransition, live |-> {},
     latch |-> [l \in Latches |-> Unlatched], integrity |-> FALSE,
     capture |-> Absent, hist |-> NewHistory(DefaultMessage(0)), raised |-> {}]

Quiet == [request |-> Absent, answer |-> Absent, sent |-> FALSE]

DiagInit ==
    /\ given \in DiagScenarios
    /\ ad = NewAdapter
    /\ clock = 0
    /\ turn = "pump"
    /\ sidecar = Erased(NewHistory(DefaultMessage(0)))
    /\ saved = NewHistory(DefaultMessage(0))
    /\ wire = Quiet

(***************************************************************************)
(* The adapter's operations.                                               *)
(***************************************************************************)
ValueSource(d) ==
    IF d.capture = Absent THEN DefaultMessage(0)
    ELSE SensorMessage(d.capture.snap, d.capture.at)

Recent(d) == SelectSeq(<<EventOfTransition(d.trans)>>, LAMBDA e : e # Absent)

Codes(events) == {e.code : e \in Range(events)}
FaultOf(f) == IF f.fault = "None" THEN {} ELSE {DiagCodeOf(f.fault)}

ObserveLive(d, events) ==
    [d EXCEPT !.hist = ObserveLiveDiagnostic(@, d.fault, EventOfFault(d.fault, ValueSource(d)),
                                             events, ValueSource(d))]

Reseed(d) == ObserveLive(d, LogEvents(d.log) \o Recent(d))

PushDiag(d, e) == Reseed([d EXCEPT !.log = PushLog(@, e), !.raised = @ \cup {e.code}])

\* A live condition is logged on its rising edge.
Edge(d, code, active, now) ==
    LET pushed == IF active /\ code \notin d.live THEN PushDiag(d, Event(code, now)) ELSE d
    IN  [pushed EXCEPT !.live = IF active THEN @ \cup {code} ELSE @ \ {code}]

\* A range latch: set by a reading out of range; the event is logged once
\* the readings have been in range for the clear time.  A since of zero
\* means that they have not begun to be.
Latch(d, l, outOfRange, now) ==
    LET active == d.latch[l].active
        since == IF d.latch[l].since = 0 THEN now ELSE d.latch[l].since
        recovered == (now - since) % given.wrap >= ClearTime
    IN  CASE outOfRange /\ ~active -> [d EXCEPT !.latch[l] = [active |-> TRUE, since |-> 0]]
          [] ~outOfRange /\ active /\ ~recovered -> [d EXCEPT !.latch[l].since = since]
          [] ~outOfRange /\ active /\ recovered ->
                [PushDiag(d, Event(l, now)) EXCEPT !.latch[l] = Unlatched]
          [] OTHER -> d

ObserveSensors(d, now) ==
    IF d.capture = Absent THEN d
    ELSE LET s == d.capture.snap
             d1 == Latch(d, "MapRange", s.map < MapMin \/ s.map > MapMax, now)
             d2 == Latch(d1, "TpsRange", s.tps \div 100 > 100, now)
             d3 == Edge(d2, "LowVoltage", s.vbatt > 0 /\ s.vbatt < BrownoutMv, now)
             d4 == Edge(d3, "Overvoltage", s.vbatt > OvervoltageMv, now)
             d5 == Edge(d4, "KnockDetected", /\ s.knockValid /\ KnockThreshold # Absent
                                             /\ s.knock >= KnockThreshold, now)
         IN  Edge(d5, "LambdaInvalid", s.lambda > 0 /\ ~s.lambdaValid, now)

ObservePressures(d, p, now) ==
    LET d1 == Edge(d, "OilPressureLow", p.oilValid /\ p.oil < OilMin, now)
    IN  Edge(d1, "FuelPressureLow", p.fuelValid /\ p.fuel < FuelMin, now)

\* The end of a tick: the fault the step left is compared with the fault
\* before it and with the last transition.  A step leaves the fault alone.
NoteTransition(d, now) ==
    LET cached == IF d.trans.changed THEN d.trans.current ELSE NoFault
        noted == [d EXCEPT !.trans = FaultTransition(now, cached, d.fault)]
    IN  IF d.fault = cached THEN d
        ELSE IF Recent(noted) = <<>> THEN noted
        ELSE PushDiag(noted, Recent(noted)[1])

\* Mutant of ClearDiagnostics: the live conditions are kept.
ClearDiagnosticsKeepingLive(d) ==
    [d EXCEPT !.fault = NoFault, !.log = NewDiagLog, !.integrity = FALSE,
              !.hist = ClearHistory(@), !.raised = Codes(Recent(d))]

ClearDiagnostics(d) ==
    [d EXCEPT !.fault = NoFault, !.log = NewDiagLog, !.integrity = FALSE,
              !.hist = ClearHistory(@), !.live = {},
              !.latch = [l \in Latches |-> Unlatched], !.raised = Codes(Recent(d))]

RecordStoreIntegrity(d, status) ==
    IF ~d.integrity /\ status \in {"Corrupt", "ValidWithCorruptSibling"}
    THEN [PushDiag(d, Event("PersistCrcFault", 0)) EXCEPT !.integrity = TRUE]
    ELSE d

(***************************************************************************)
(* The loop.                                                               *)
(***************************************************************************)
\* What a pump's observation leaves of the adapter.
Observed(d) ==
    ObserveLive(d, IF LogEvents(d.log) # <<>> THEN LogEvents(d.log) ELSE Recent(d))

\* pump_once without a request.
PumpIdle ==
    /\ turn = "pump"
    /\ turn' = "pressure"
    /\ ad' = IF given.service = "multi" THEN Observed(ad) ELSE ad
    /\ wire' = Quiet
    /\ UNCHANGED <<given, clock, sidecar, saved>>

\* Mutant of Answered: the diagnostics are cleared before the answer is sent.
ClearedFirst(request, ok) ==
    LET d == Observed(ad)
        answer == Dispatch(request, d.hist, given.id)
        clears == answer.verdict = "DtcClear"
    IN  /\ ad' = IF clears THEN ClearDiagnostics(d) ELSE d
        /\ wire' = [request |-> request, answer |-> answer, sent |-> ok]

\* The rest of pump_once: the answer is sent, and only an answer that was
\* sent clears the diagnostics.
Answered(request, ok) ==
    LET d == Observed(ad)
        answer == Dispatch(request, d.hist, given.id)
        clears == ok /\ answer.verdict = "DtcClear"
    IN  /\ ad' = IF clears THEN ClearDiagnostics(d) ELSE d
        /\ wire' = [request |-> request, answer |-> answer, sent |-> ok]

PumpRequest(request, ok) ==
    /\ turn = "pump"
    /\ turn' = "pressure"
    /\ given.service = "multi"
    /\ Answered(request, ok)
    /\ UNCHANGED <<given, clock, sidecar, saved>>

\* Obd2TransportService::pump_once: a service for Mode 04 alone, which
\* clears before it sends and leaves every other request unanswered.
PumpClearService(request, ok) ==
    LET clears == request.service = 4 /\ request.pid = Absent
    IN  /\ turn = "pump"
        /\ turn' = "pressure"
        /\ given.service = "clear"
        /\ ad' = IF clears THEN ClearDiagnostics(ad) ELSE ad
        /\ wire' = IF clears THEN [request |-> request, answer |-> DtcClearAnswer(Absent),
                                   sent |-> ok]
                   ELSE Quiet
        /\ UNCHANGED <<given, clock, sidecar, saved>>

\* BoardEvent::PressureSnapshot
PressureSnapshot(p) ==
    /\ turn = "pressure"
    /\ turn' = "capture"
    /\ ad' = ObservePressures(ad, p, clock)
    /\ wire' = Quiet
    /\ UNCHANGED <<given, clock, sidecar, saved>>

\* BoardEvent::SensorSnapshotCapture
Capture(snap) ==
    /\ turn = "capture"
    /\ turn' = "tick"
    /\ ad' = [ad EXCEPT !.capture = [snap |-> snap, at |-> clock]]
    /\ UNCHANGED <<given, clock, sidecar, saved, wire>>

\* BoardEvent::Tick.  When a port fails, execute_step's error ends the
\* handler before anything is observed.
Tick(ok) ==
    /\ turn = "tick"
    /\ turn' = "persist"
    /\ ad' = IF ok THEN NoteTransition(ObserveSensors(ad, clock), clock) ELSE ad
    /\ UNCHANGED <<given, clock, sidecar, saved, wire>>

\* persist_if_changed; the loop starts over.
Persist(ok) ==
    /\ turn = "persist"
    /\ turn' = "pump"
    /\ clock' = (clock + 1) % given.wrap
    /\ IF ok /\ ad.hist # saved
       THEN sidecar' = Sidecar(ad.hist) /\ saved' = ad.hist
       ELSE UNCHANGED <<sidecar, saved>>
    /\ UNCHANGED <<given, ad, wire>>

\* EngineRuntime::set_fault_state, by whoever holds the runtime.
SetFault(f) ==
    /\ f # ad.fault
    /\ ad' = [ad EXCEPT !.fault = f, !.raised = @ \cup FaultOf(f)]
    /\ UNCHANGED <<given, clock, turn, sidecar, saved, wire>>

\* The power is cut and the board boots: the integrity of the store is
\* recorded first, then the history is restored.
Restart(status) ==
    LET boot == RecordStoreIntegrity(NewAdapter, status)
        loaded == FromSidecar(sidecar)
        restored == IF loaded = Absent THEN boot
                    ELSE [boot EXCEPT !.hist = loaded, !.raised = @ \cup Range(loaded.stored)]
    IN  /\ ad' = restored
        /\ saved' = restored.hist
        /\ clock' = 0
        /\ turn' = "pump"
        /\ wire' = Quiet
        /\ UNCHANGED <<given, sidecar>>

\* Whether a call may fail.
Outcomes(call) == {TRUE} \cup {FALSE : f \in given.fails \cap {call}}

DiagNext ==
    \/ PumpIdle
    \/ \E request \in given.requests, ok \in Outcomes("send") :
          PumpRequest(request, ok) \/ PumpClearService(request, ok)
    \/ \E p \in given.pressures : PressureSnapshot(p)
    \/ \E snap \in given.snaps : Capture(snap)
    \/ \E ok \in Outcomes("port") : Tick(ok)
    \/ \E ok \in Outcomes("save") : Persist(ok)
    \/ \E f \in given.faults : SetFault(f)
    \/ \E status \in given.cuts : Restart(status)

DiagSpec == DiagInit /\ [][DiagNext]_diagVars

(***************************************************************************)
(* Properties.                                                             *)
(***************************************************************************)
\* The type invariant.
DiagTypeOK ==
    /\ given \in DiagScenarios
    /\ clock \in 0 .. given.wrap - 1
    /\ turn \in {"pump", "pressure", "capture", "tick", "persist"}
    /\ ad.raised \subseteq DiagCodes
    /\ ad.live \subseteq LiveCodes
    /\ ad.fault \in FaultStates
    /\ ad.log.head \in 0 .. HeadMod - 1
    /\ Len(ad.hist.stored) <= DtcCap /\ Range(ad.hist.stored) \subseteq DiagCodes
    /\ IsInjective(ad.hist.stored)

\* The freeze frame belongs to the first stored code: both are there or
\* neither is, and the data Mode 02 answers from was kept with them, however
\* observations, clears and restarts interleave.
FreezeFrameIsFirst ==
    LET h == ad.hist
    IN  /\ (h.stored = <<>>) <=> (h.freezeDtc = Absent)
        /\ (h.freezeDtc = Absent) <=> (h.frozen = Absent)
        /\ (h.freezeDtc = Absent) <=> (h.freezeEvent = Absent)
        /\ h.freezeDtc # Absent => h.freezeDtc = h.stored[1] /\ h.freezeEvent.code = h.freezeDtc

\* Every code Mode 03 answers with was raised since the last clear, or was
\* in the store at boot.  The one exception is the code of the last fault
\* transition: clear_diagnostics leaves the transition as it was, and a pump
\* before the next tick that completes stores its code again.
StoredWasRaised == Range(ad.hist.stored) \subseteq ad.raised

\* A condition that is live, and every event in the log once a pump has run,
\* has its code in the history unless the history is full: no order of
\* events, clears and restarts hides an active condition from the tester.
LiveIsStored ==
    \/ Len(ad.hist.stored) = DtcCap
    \/ /\ ad.live \subseteq Range(ad.hist.stored)
       /\ turn # "pump" => Codes(LogEvents(ad.log)) \subseteq Range(ad.hist.stored)

\* A stored code and its freeze frame go only with an answered request to
\* clear them, or with the power: a failed port, a full log and a failed save
\* keep them, and so does the multi-service when its answer is not sent.
NoDtcLost ==
    [][ \/ /\ IsPrefix(ad.hist.stored, ad'.hist.stored)
           /\ ad.hist.freezeDtc # Absent => ad'.hist.frozen = ad.hist.frozen
        \/ /\ wire'.answer # Absent /\ wire'.answer.verdict = "DtcClear"
           /\ wire'.sent \/ given.service = "clear"
           /\ ad'.hist.stored = <<>>
        \/ \E status \in given.cuts : Restart(status) ]_diagVars

\* What counts as persisted can be read back from the store: a failed save is
\* tried again by the next loop, and a restart restores it word for word.
SavedIsInStore ==
    turn = "pump" => FromSidecar(sidecar) \in {Absent, saved}

\* The discovery answers of Modes 01 and 09 tell the truth: an id is answered
\* if and only if the block it lies in announces it.
DiscoveryIsTruthful ==
    turn = "pump" => \A service \in {1, 9}, id \in Pids \cup InfoTypes \cup {3, 12, 227} :
       LET answer(pid) == Dispatch([service |-> service, pid |-> pid], ad.hist, given.id)
           block == answer(32 * (id \div 32))
       IN  IsPositive(answer(id)) <=> (block.verdict = "Discovery" /\ id \in block.body)

\* The voltage Mode 01 answers is within half a tenth of a volt of the
\* reading it was captured with, through both conversions.
VoltageIsClose ==
    LET mv == Dispatch([service |-> 1, pid |-> 66], ObserveLive(ad, <<>>).hist, given.id).body
    IN  ad.capture # Absent /\ ad.capture.snap.vbatt \in 1 .. 25500 =>
           mv - ad.capture.snap.vbatt \in -50 .. 50

\* The action the board reports of a fault transition is the runtime's,
\* except for a safety cut that is neither critical nor a shutdown: the
\* board's copy of the policy lacks that clause.
MildSafetyCut(f) ==
    f.fault = "SafetyCut" /\ f.severity # "Critical" /\ f.cancel # "SafetyShutdown"
BoardActionAgrees ==
    LET f == ad.trans.current
    IN  ad.trans.changed /\ f.fault # "None" /\ ~MildSafetyCut(f) =>
           ad.trans.action = SpecFaultAction(f)

\* The history holds what was raised, the first with its frame, holds what is
\* live unless it is full, and its retained copy is the one last saved.
HistoryIsFaithful ==
    /\ DiagTypeOK
    /\ FreezeFrameIsFirst
    /\ StoredWasRaised
    /\ LiveIsStored
    /\ SavedIsInStore

\* What a tester reads agrees with itself, with the capture and, but for the
\* safety cut of low severity, with the reference fault policy.
AnswersAreTruthful == DiscoveryIsTruthful /\ VoltageIsClose /\ BoardActionAgrees
============================================================================
