----------------------------- MODULE CompatTrims -----------------------------
(***************************************************************************)
(* The corrections the compatibility core (crates/compat) lays over fuel   *)
(* and spark: the knock controller, the cut of fuel on deceleration, the   *)
(* acceleration and after-start enrichments, the closed loop on the oxygen *)
(* sensor and the long-term trim it teaches.  Each keeps time stamps of    *)
(* its own and is called at its own times.                                 *)
(*                                                                         *)
(* A tick is 50 ms: knock recovery at the default 1.0 degree a second      *)
(* takes two ticks for a tenth of a degree.                                *)
(***************************************************************************)
EXTENDS Integers, FiniteSetsExt

CONSTANTS
    Turn,       \* where the u32 timer wraps, in ticks
    TrimCallers    \* the callers: which correction one drives, with which inputs and configuration

VARIABLES
    driver,     \* the caller
    at,         \* the time of the last call
    knock,      \* KnockState: for each cylinder [retard, run], and the last recovery
    dfco,       \* DfcoState
    ae,         \* AeState
    ase,        \* AseState
    refreshed,  \* the throttle and the pressure at the last refresh of the enrichments
    lambda,     \* LambdaState
    ltft,       \* LtftState, and one cell of LtftTable
    held        \* history: what each correction rests on

trimvars == <<driver, at, knock, dfco, ae, ase, refreshed, lambda, ltft, held>>

Advance == \E dt \in driver.steps : at' = (at + dt) % Turn
Since(t) == (at' - t) % Turn
HeldCap == 4
Longer(s) == IF s < 0 THEN s ELSE Min({s + Since(at), HeldCap})
Bounded(x, bound) == Max({-bound, Min({x, bound})})
Quotient(a, b) == IF a >= 0 THEN a \div b ELSE -((-a) \div b)

-----------------------------------------------------------------------------
(* Knock.  A step of retard after debounce_count knocking samples in a row *)
(* of one cylinder; the recovery truncates to tenths of a degree.          *)

Cylinders == {0, 1}
RetardStep == 2
RetardMax == 5
DebounceCount == 2

\* Mutant of KnockSample: a quiet sample keeps the run of knocks.
KnockSampleKeepsRun(c, loud) ==
    CASE loud /\ c.run + 1 >= DebounceCount -> [retard |-> Min({c.retard + RetardStep, RetardMax}), run |-> 0]
      [] loud /\ c.run + 1 < DebounceCount -> [c EXCEPT !.run = @ + 1]
      [] ~loud -> c

KnockSample(c, loud) ==
    CASE loud /\ c.run + 1 >= DebounceCount -> [retard |-> Min({c.retard + RetardStep, RetardMax}), run |-> 0]
      [] loud /\ c.run + 1 < DebounceCount -> [c EXCEPT !.run = @ + 1]
      [] ~loud -> [c EXCEPT !.run = 0]

\* The retard that a recovery at exactly the rate would leave, in ticks.  The
\* first recovery after a reset reckons from time zero: it owes nothing.
Owed(dt) == [c \in Cylinders |-> IF knock.last = 0 THEN 0 ELSE Max({held.owed[c] - dt, 0})]

\* process: below the enabling speed or temperature a sample is dropped, and
\* the run of knocks before it stands.
process_knock_sample ==
    /\ driver.use = "knock"
    /\ \E c \in Cylinders, loud \in BOOLEAN, enabled \in BOOLEAN :
        /\ knock' = IF enabled THEN [knock EXCEPT !.cyl[c] = KnockSample(@, loud)] ELSE knock
        /\ LET run == CASE ~enabled -> held.run[c] [] loud -> held.run[c] + 1 [] OTHER -> 0
           IN  held' = [held EXCEPT !.run[c] = IF run >= DebounceCount THEN 0 ELSE run,
                                    !.earned = run >= DebounceCount,
                                    !.owed[c] = IF run >= DebounceCount
                                                THEN Min({@ + 2 * RetardStep, 2 * RetardMax}) ELSE @]
    /\ UNCHANGED <<driver, at, dfco, ae, ase, refreshed, lambda, ltft>>

update_knock_recovery ==
    /\ driver.use = "knock"
    /\ Advance
    /\ LET recovery == Since(knock.last) \div 2
       IN  knock' = [cyl |-> [c \in Cylinders |-> [knock.cyl[c] EXCEPT !.retard = Max({@ - recovery, 0})]],
                     last |-> at']
    /\ held' = [held EXCEPT !.owed = Owed(Since(at))]
    /\ UNCHANGED <<driver, dfco, ae, ase, refreshed, lambda, ltft>>

reset_knock ==
    /\ driver.use = "knock"
    /\ knock' = [cyl |-> [c \in Cylinders |-> [retard |-> 0, run |-> 0]], last |-> 0]
    /\ held' = [held EXCEPT !.owed = [c \in Cylinders |-> 0], !.run = [c \in Cylinders |-> 0]]
    /\ UNCHANGED <<driver, at, dfco, ae, ase, refreshed, lambda, ltft>>

-----------------------------------------------------------------------------
(* The fuel cut on deceleration. *)

DfcoDelay == 3
ResumeHyst == 2

DfcoUpdate(s, allow) ==
    LET arms == allow /\ ~s.active /\ ~s.armed
        enter == IF arms THEN at' ELSE s.enter
    IN  CASE allow /\ ~s.active ->
                IF Since(enter) >= DfcoDelay
                THEN [active |-> TRUE, armed |-> TRUE, enter |-> enter, change |-> at']
                ELSE [s EXCEPT !.armed = TRUE, !.enter = enter]
          [] ~allow /\ s.active /\ Since(s.change) >= ResumeHyst ->
                [active |-> FALSE, armed |-> FALSE, enter |-> 0, change |-> at']
          [] ~allow /\ ~s.active -> [s EXCEPT !.armed = FALSE, !.enter = 0]
          [] OTHER -> s

update_dfco ==
    /\ driver.use = "dfco"
    /\ Advance
    /\ \E allow \in BOOLEAN :
        /\ dfco' = DfcoUpdate(dfco, allow)
        /\ held' = [held EXCEPT !.allow = CASE ~allow -> -1 [] held.allow < 0 -> 0 [] OTHER -> Longer(@),
                                !.since = IF dfco'.active # dfco.active THEN 0 ELSE Longer(@)]
    /\ UNCHANGED <<driver, knock, ae, ase, refreshed, lambda, ltft>>

-----------------------------------------------------------------------------
(* Enrichments: a stamp of zero reads as "never". *)

AeGain == 10
AeDecay == 5
AeLockout == 2
TpsdotThresh == 150
MapdotThresh == 80

AeUpdate(s, tpsdot, mapdot) ==
    LET age == Since(s.last)
        starts == /\ tpsdot >= TpsdotThresh \/ mapdot >= MapdotThresh
                  /\ (s.last = 0 /\ ~s.active) \/ age >= AeLockout
    IN  CASE starts -> [active |-> TRUE, percent |-> AeGain, last |-> at']
          [] ~starts /\ s.active ->
                IF age >= AeDecay THEN [s EXCEPT !.active = FALSE, !.percent = 0]
                ELSE [s EXCEPT !.percent = (AeGain * (AeDecay - age)) \div AeDecay]
          [] OTHER -> s

AseTaper == 2
AseLockout == 4
AseUpdate(s, started) ==
    LET starts == started /\ (s.last = 0 \/ Since(s.last) >= AseLockout)
        t == IF starts THEN [active |-> TRUE, start |-> at', last |-> at'] ELSE s
    IN  [t EXCEPT !.active = @ /\ Since(t.start) < AseTaper]

\* A change a second, over at least a microsecond and cut to an i16: a fast
\* fall comes out as a rise.
I16(x) == ((x + 32768) % 65536) - 32768
PerSecond(delta) == LET us == Max({Since(refreshed.last) * driver.us, 1}) IN Quotient(delta * 1000000, us)

\* The after-start enrichment can only start at the first refresh: it is the
\* only one at which the engine counts as just started.
refresh_enrichments ==
    /\ driver.use = "enrichment"
    /\ Advance
    /\ \E tps \in driver.tps, map \in driver.maps, running \in BOOLEAN :
        LET first == refreshed.last = 0
            tpsdot == IF first THEN 0 ELSE PerSecond(tps - refreshed.tps)
            mapdot == IF first THEN 0 ELSE PerSecond(map - refreshed.map)
        IN  /\ ae' = AeUpdate(ae, I16(tpsdot), I16(mapdot))
            /\ ase' = AseUpdate(ase, first /\ running)
            /\ refreshed' = [last |-> at', tps |-> tps, map |-> map]
            /\ held' = [held EXCEPT !.rose = tps > refreshed.tps \/ map > refreshed.map,
                                    !.fits = {tpsdot, mapdot} \subseteq -32768..32767,
                                    !.tip = IF ae'.percent > ae.percent THEN 0 ELSE Longer(@),
                                    !.start = IF ase'.active /\ (~ase.active \/ ase'.start # ase.start)
                                              THEN 0 ELSE Longer(@)]
    /\ UNCHANGED <<driver, knock, dfco, lambda, ltft>>

-----------------------------------------------------------------------------
(* Closed loop and long-term trim. *)

LambdaInterval == 2
LambdaAuthority == 3
Deadband == 2
StftThreshold == 2
SteadyTime == 3
MaxTrim == 2
LearnRate == 128

\* Below its temperature or speed, or at wide open throttle, the loop stops
\* and keeps its trim; running, it corrects once an interval.
LambdaUpdate(s, error, allowed) ==
    LET elapsed == Since(s.last)
        integral == Bounded(s.integral + Quotient(error * driver.ki * elapsed * 50, 100000), LambdaAuthority * 10)
        stft == Bounded(Quotient(error * driver.kp, 100) + Quotient(integral, 10), LambdaAuthority)
        due == s.last = 0 \/ elapsed >= LambdaInterval
        quiet == error \in -Deadband..Deadband
    IN  CASE ~allowed -> [s EXCEPT !.active = FALSE,
                                   !.integral = IF s.active THEN Quotient(@ * 9, 10) ELSE @]
          [] allowed /\ ~due -> s
          [] allowed /\ due /\ quiet -> [s EXCEPT !.active = TRUE, !.last = at']
          [] allowed /\ due /\ ~quiet -> [active |-> TRUE, last |-> at', integral |-> integral, stft |-> stft]

update_lambda ==
    /\ driver.use = "lambda"
    /\ Advance
    /\ \E error \in driver.errors, allowed \in BOOLEAN : lambda' = LambdaUpdate(lambda, error, allowed)
    /\ held' = [held EXCEPT !.steady = Longer(@)]
    /\ UNCHANGED <<driver, knock, dfco, ae, ase, refreshed, ltft>>

\* should_learn: with the loop stopped nothing is looked at, and the steady
\* state that was timed goes on; a large correction starts it over.
Stable(s, rpm, load) == rpm - s.rpm \in -200..200 /\ load - s.load \in -50..50

ShouldLearn(s, rpm, load, warm) ==
    LET large == lambda.stft \notin -StftThreshold..StftThreshold
        stable == Stable(s, rpm, load)
        steady == s.steady /\ ~large
        since == IF stable /\ ~steady THEN at' ELSE s.since
    IN  CASE ~lambda.active -> [s EXCEPT !.learning = FALSE]
          [] lambda.active /\ ~warm -> [s EXCEPT !.learning = FALSE, !.steady = FALSE]
          [] lambda.active /\ warm ->
                [s EXCEPT !.rpm = rpm, !.load = load, !.steady = stable, !.since = since,
                          !.learning = stable /\ Since(since) >= SteadyTime]

update_ltft ==
    /\ driver.use = "lambda"
    /\ Advance
    /\ \E rpm \in driver.rpms, load \in driver.loads, warm \in BOOLEAN :
        LET s == ShouldLearn(ltft, rpm, load, warm)
        IN  /\ ltft' = [s EXCEPT !.trim = IF s.learning
                          THEN Bounded(@ + Quotient((lambda.stft - @) * LearnRate, 256), MaxTrim) ELSE @]
            /\ held' = [held EXCEPT !.steady =
                  CASE ~lambda.active -> Longer(@)
                    [] lambda.active /\ (~warm \/ ~Stable(ltft, rpm, load)) -> -1
                    [] OTHER -> IF @ < 0 \/ lambda.stft \notin -StftThreshold..StftThreshold THEN 0 ELSE Longer(@)]
    /\ UNCHANGED <<driver, knock, dfco, ae, ase, refreshed, lambda>>

reset_ltft ==
    /\ driver.use = "lambda"
    /\ ltft' = [rpm |-> 0, load |-> 0, steady |-> FALSE, since |-> 0, learning |-> FALSE, trim |-> 0]
    /\ held' = [held EXCEPT !.steady = -1]
    /\ UNCHANGED <<driver, at, knock, dfco, ae, ase, refreshed, lambda>>

-----------------------------------------------------------------------------
TrimInit ==
    /\ driver \in TrimCallers
    /\ at = 0
    /\ knock = [cyl |-> [c \in Cylinders |-> [retard |-> 0, run |-> 0]], last |-> 0]
    /\ dfco = [active |-> FALSE, armed |-> FALSE, enter |-> 0, change |-> 0]
    /\ ae = [active |-> FALSE, percent |-> 0, last |-> 0]
    /\ ase = [active |-> FALSE, start |-> 0, last |-> 0]
    /\ refreshed = [last |-> 0, tps |-> 0, map |-> 1000]
    /\ lambda = [active |-> FALSE, stft |-> 0, integral |-> 0, last |-> 0]
    /\ ltft = [rpm |-> 0, load |-> 0, steady |-> FALSE, since |-> 0, learning |-> FALSE, trim |-> 0]
    /\ held = [run |-> [c \in Cylinders |-> 0], earned |-> FALSE, owed |-> [c \in Cylinders |-> 0],
               allow |-> -1, since |-> HeldCap, rose |-> FALSE, fits |-> TRUE, tip |-> HeldCap, start |-> HeldCap, steady |-> -1]

TrimNext ==
    \/ process_knock_sample \/ update_knock_recovery \/ reset_knock
    \/ update_dfco \/ refresh_enrichments
    \/ update_lambda \/ update_ltft \/ reset_ltft

TrimSpec == TrimInit /\ [][TrimNext]_trimvars

-----------------------------------------------------------------------------
\* Every correction is earned by what it claims to rest on, whatever happens
\* to the other cylinder, the other corrections and the timer in between:
\* a cylinder is retarded only after as many knocks in a row of its own as the
\* debounce asks, and gets its timing back no faster than the recovery rate,
\* but for the first recovery after a start or a reset (or one that falls on
\* time zero), which is reckoned from zero and may give all of it back;
\* fuel is cut on a deceleration that has lasted the delay and comes back no
\* sooner than the hysteresis; an enrichment starts again only after its
\* lockout, but for a start whose stamp was zero, and that of acceleration only
\* when throttle or pressure rose, or changed so fast that the i16 turned the
\* sign; the long-term trim moves only in a closed loop that has run at a
\* steady speed and load, with small corrections, for the steady time.
CorrectionsAreEarned ==
    [][/\ \A c \in Cylinders :
            /\ knock'.cyl[c].retard > knock.cyl[c].retard => held'.earned
            /\ 2 * knock'.cyl[c].retard + 1 >= held'.owed[c]
       /\ ~dfco.active /\ dfco'.active => held'.allow >= DfcoDelay
       /\ dfco.active /\ ~dfco'.active => held.since + Since(at) >= ResumeHyst
       /\ ae'.percent > ae.percent =>
            /\ held'.rose \/ ~held'.fits
            /\ held.tip + Since(at) >= AeLockout
       /\ held'.start = 0 /\ ase' # ase => held.start + Since(at) >= AseLockout \/ ase.last = 0
       /\ ltft'.trim # ltft.trim /\ ltft'.rpm # 0 => lambda.active /\ held'.steady >= SteadyTime]_trimvars
=============================================================================
