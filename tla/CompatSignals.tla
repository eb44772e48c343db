---------------------------- MODULE CompatSignals ----------------------------
(***************************************************************************)
(* What the compatibility core (crates/compat) makes of its signals: the   *)
(* decoder of the trigger wheel, the validation of a sensor's rate of      *)
(* change and the capture of frames around an event.                       *)
(***************************************************************************)
EXTENDS Integers, FiniteSetsExt, SequencesExt

CONSTANTS
    Teeth,          \* TEETH_PER_REV: the teeth there are on the wheel; two more are missing
    MinValidPeriod, \* MIN_VALID_PERIOD_US
    SyncTimeout,    \* SYNC_TIMEOUT_US
    ToothTime,      \* the time between two teeth
    Disturbances,   \* the times from an edge to a spurious one, or to the first after a stop
    Frames,         \* N of TriggeredCapture
    PostTriggers,   \* the values of post_trigger_samples
    Second,         \* a second, in units of the validator's clock
    MinInterval,    \* min_sample_interval_us
    MaxRate,        \* the greatest change of a reading in a second
    MulMax,         \* where the product of a change and a second saturates
    Readings,
    Gaps            \* the times between two readings

VARIABLES
    signal,     \* "crank", "capture" or "sensor": the one that is watched
    crank,      \* the wheel: [pos, ago, since, clean], the times since the tooth at pos and since the last edge
    decoder,    \* TriggerDecoder
    capture,    \* TriggeredCapture
    kept,       \* history: [mark, frames], the newest frame at the trigger (-1 for none) and the last Frames taken
    rate        \* RateValidator, and history: [run, held, seen]

signalvars == <<signal, crank, decoder, capture, kept, rate>>

-----------------------------------------------------------------------------
(* TriggerDecoder. *)

Synced(x) == x.sync # "Unsynced"

\* Mutant of ToothEdge: the tooth after a gap is not counted.
ToothEdgeCountsFromZero(x, period) ==
    LET y == IF Synced(x) /\ period > SyncTimeout
             THEN [x EXCEPT !.sync = "Unsynced", !.tooth = 0] ELSE x
        gap == x.period > MinValidPeriod /\ period > (x.period * 3) \div 2 /\ period < x.period * 10
    IN  CASE gap -> [y EXCEPT !.sync = "Provisional", !.tooth = 0, !.period = period]
          [] ~gap /\ Synced(y) -> [sync |-> "Locked", period |-> period,
                                   tooth |-> IF y.tooth + 1 > Teeth THEN 1 ELSE y.tooth + 1]
          [] ~gap /\ ~Synced(y) -> [y EXCEPT !.period = period]

\* A gap is a period of 1.5 to 10 of a valid one before it; it starts the count,
\* and so does the tooth after the last.
ToothEdge(x, period) ==
    LET y == IF Synced(x) /\ period > SyncTimeout
             THEN [x EXCEPT !.sync = "Unsynced", !.tooth = 0] ELSE x
        gap == x.period > MinValidPeriod /\ period > (x.period * 3) \div 2 /\ period < x.period * 10
    IN  CASE gap -> [y EXCEPT !.sync = "Provisional", !.tooth = 1, !.period = period]
          [] ~gap /\ Synced(y) -> [sync |-> "Locked", period |-> period,
                                   tooth |-> IF y.tooth + 1 > Teeth THEN 1 ELSE y.tooth + 1]
          [] ~gap /\ ~Synced(y) -> [y EXCEPT !.period = period]

CleanCap == Teeth + 2
NextTooth == IF crank.pos = Teeth THEN 1 ELSE crank.pos + 1
ToNext == (IF crank.pos = Teeth THEN 3 ELSE 1) * ToothTime

\* The next tooth is seen, or lost; or an edge that is none, of a wheel that
\* stands or turns; or the caller gives the sync up.
TrueEdge ==
    /\ signal = "crank"
    /\ crank' = [pos |-> NextTooth, ago |-> 0, since |-> 0,
                 clean |-> IF crank.ago = 0 /\ crank.since = 0 THEN Min({crank.clean + 1, CleanCap}) ELSE 0]
    /\ decoder' = ToothEdge(decoder, crank.since + ToNext - crank.ago)
    /\ UNCHANGED <<signal, capture, kept, rate>>

LostTooth ==
    /\ signal = "crank" /\ crank.since <= SyncTimeout
    /\ crank' = [pos |-> NextTooth, ago |-> 0, since |-> crank.since + ToNext - crank.ago, clean |-> 0]
    /\ UNCHANGED <<signal, decoder, capture, kept, rate>>

SpuriousTooth ==
    /\ signal = "crank"
    /\ \E t \in Disturbances :
        /\ crank' = [pos |-> crank.pos, ago |-> IF crank.ago + t < ToNext THEN crank.ago + t ELSE 0,
                     since |-> 0, clean |-> 0]
        /\ decoder' = ToothEdge(decoder, crank.since + t)
    /\ UNCHANGED <<signal, capture, kept, rate>>

reset_sync ==
    /\ signal = "crank"
    /\ decoder' = [decoder EXCEPT !.sync = "Unsynced", !.tooth = 0]
    /\ crank' = [crank EXCEPT !.clean = 0]
    /\ UNCHANGED <<signal, capture, kept, rate>>

-----------------------------------------------------------------------------
(* TriggeredCapture. *)

FrameIds == 0..(Frames + 1)

append_sample(c, f) ==
    [c EXCEPT !.buffer[c.head] = f, !.head = (@ + 1) % Frames, !.count = Min({@ + 1, Frames})]

Newest(c) == (c.head - 1) % Frames

Triggered(c) == [c EXCEPT !.state = "Capturing", !.reason = TRUE, !.index = Newest(c),
                          !.post = Min({c.want, Frames})]

\* A sample too soon after the last is dropped; one taken while armed may be a
\* spike of the speed that triggers.
sample ==
    /\ signal = "capture"
    /\ \E f \in FrameIds, spike \in BOOLEAN :
        LET c == append_sample(capture, f)
            post == Max({capture.post - 1, 0})
        IN  /\ \A i \in 0..(Frames - 1) : capture.buffer[i] # f
            /\ capture' = CASE capture.state = "Armed" -> IF spike THEN Triggered(c) ELSE c
                            [] capture.state = "Capturing" ->
                                 [c EXCEPT !.post = post, !.state = IF post = 0 THEN "Complete" ELSE @]
                            [] OTHER -> capture
            /\ kept' = [mark |-> IF capture.state = "Armed" /\ spike THEN f ELSE kept.mark,
                        frames |-> IF capture.state \in {"Armed", "Capturing"}
                                   THEN LET all == Append(kept.frames, f)
                                        IN  IF Len(all) > Frames THEN Tail(all) ELSE all
                                   ELSE kept.frames]
    /\ UNCHANGED <<signal, crank, decoder, rate>>

trigger ==
    /\ signal = "capture" /\ capture.state = "Armed"
    /\ capture' = Triggered(capture)
    /\ kept' = [kept EXCEPT !.mark = IF kept.frames = <<>> THEN -1 ELSE Last(kept.frames)]
    /\ UNCHANGED <<signal, crank, decoder, rate>>

\* reset and arm empty the buffer by its count, not its frames; disable and
\* enable leave what was captured.
reset_capture ==
    /\ signal = "capture"
    /\ capture' = [capture EXCEPT !.head = 0, !.count = 0, !.state = "Armed", !.reason = FALSE, !.index = 0,
                                  !.post = 0]
    /\ kept' = [kept EXCEPT !.frames = <<>>]
    /\ UNCHANGED <<signal, crank, decoder, rate>>

disable_enable ==
    /\ signal = "capture"
    /\ capture' = [capture EXCEPT !.state = IF @ = "Disabled" THEN "Armed" ELSE "Disabled"]
    /\ UNCHANGED <<signal, crank, decoder, kept, rate>>

get_sample(c, i) == c.buffer[((IF c.count = Frames THEN c.head ELSE 0) + i) % Frames]

-----------------------------------------------------------------------------
(* RateValidator. *)

Change(r, v) == Max({v - r.value, r.value - v})

\* The rate is over the time since the last value that was taken, not since
\* the last reading; its product saturates.
Rejected(r, v, elapsed) == Min({Change(r, v) * Second, MulMax}) \div elapsed > MaxRate

\* A reading within the minimum interval is taken as it is, and the fifth that
\* is rejected too: the value may be real. It is still called rejected.
validate(r, v, elapsed) ==
    LET taken == [r EXCEPT !.value = v, !.ago = 0, !.rejected = FALSE]
    IN  IF ~r.init \/ elapsed < MinInterval THEN [taken EXCEPT !.init = TRUE]
        ELSE IF ~Rejected(r, v, elapsed) THEN [taken EXCEPT !.rejects = 0]
        ELSE IF r.rejects + 1 >= 5 THEN [taken EXCEPT !.rejects = 0, !.rejected = TRUE]
        ELSE [r EXCEPT !.rejects = @ + 1, !.rejected = TRUE, !.ago = elapsed]

\* History: the readings refused since one passed, the time since the value was
\* taken and the reading that came.
validate_sensor_rates ==
    /\ signal = "sensor"
    /\ \E v \in Readings, gap \in Gaps :
        LET r == validate(rate, v, rate.ago + gap)
            held == rate.held + gap
        IN  rate' = [r EXCEPT !.run = IF r.value # v THEN @ + 1
                                      ELSE IF rate.init /\ held >= MinInterval THEN 0 ELSE @,
                              !.held = IF r.value = v THEN 0 ELSE held,
                              !.seen = [reading |-> v, after |-> held]]
    /\ UNCHANGED <<signal, crank, decoder, capture, kept>>

reset_rates ==
    /\ signal = "sensor"
    /\ \E v \in Readings :
        rate' = [rate EXCEPT !.value = v, !.ago = 0, !.rejected = FALSE, !.rejects = 0, !.init = TRUE,
                             !.run = 0, !.held = 0, !.seen = [reading |-> v, after |-> 0]]
    /\ UNCHANGED <<signal, crank, decoder, capture, kept>>

-----------------------------------------------------------------------------
SignalInit ==
    /\ signal \in {"crank", "capture", "sensor"}
    /\ crank \in [pos : 1..Teeth, ago : {0}, since : {0}, clean : {0}]
    /\ decoder = [sync |-> "Unsynced", tooth |-> 0, period |-> 0]
    /\ \E want \in PostTriggers :
         capture = [buffer |-> [i \in 0..(Frames - 1) |-> -1], head |-> 0, count |-> 0, state |-> "Armed",
                    reason |-> FALSE, index |-> 0, post |-> 0, want |-> want]
    /\ kept = [mark |-> -1, frames |-> <<>>]
    /\ rate = [value |-> 0, ago |-> 0, init |-> FALSE, rejects |-> 0, rejected |-> FALSE,
               run |-> 0, held |-> 0, seen |-> [reading |-> 0, after |-> 0]]

SignalNext ==
    \/ TrueEdge \/ LostTooth \/ SpuriousTooth \/ reset_sync
    \/ sample \/ trigger \/ reset_capture \/ disable_enable
    \/ validate_sensor_rates \/ reset_rates

SignalSpec == SignalInit /\ [][SignalNext]_signalvars

-----------------------------------------------------------------------------
\* A refused reading must come back some time: the run of them is short, what
\* is refused did move faster than the rate since the value was taken, and what
\* is taken did not, but for the first reading, one within the minimum interval,
\* the fifth in a run and one whose product saturated.
ReadingIsJudged ==
    LET moved == Change(rate, rate'.seen.reading) * Second
        after == rate'.seen.after
    IN  /\ rate'.run <= 4
        /\ rate'.value # rate'.seen.reading => moved > MaxRate * after
        /\ /\ rate.init /\ after >= MinInterval /\ rate.run < 4 /\ moved <= MulMax
           /\ rate'.value = rate'.seen.reading
           => moved < (MaxRate + 1) * after

\* What can be read from the ring is what was sampled last, in its order; the
\* frame of the trigger is where the capture says until as many frames as the
\* ring holds came after it, and is gone from the ring then.
CaptureIsRead ==
    /\ capture'.count = Len(kept'.frames)
    /\ \A i \in 1..capture'.count : get_sample(capture', i - 1) = kept'.frames[i]
    /\ capture'.state = "Complete" /\ kept'.mark # -1
         => IF capture'.want < Frames THEN capture'.buffer[capture'.index] = kept'.mark
            ELSE kept'.mark \notin ToSet(kept'.frames)

\* A signal is told as it was: once a revolution and two teeth have come in
\* clean the decoder is in sync and counts the tooth the wheel is at, whatever
\* spurious edges, stops and resets came before; a capture is read as it was
\* sampled; and a reading is refused for its rate and for nothing else.
SignalsAreFaithful ==
    [][/\ crank'.clean = CleanCap => Synced(decoder') /\ decoder'.tooth = crank'.pos
       /\ signal = "capture" => CaptureIsRead
       /\ signal = "sensor" => ReadingIsJudged]_signalvars
=============================================================================
