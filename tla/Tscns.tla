-------------------------------- MODULE Tscns --------------------------------
(***************************************************************************)
(* TSCNS (src/runtime_logger.h:140-244): the cycle counter with which      *)
(* TZ_LOG stamps an entry, and its conversion to nanoseconds, calibrated   *)
(* against the system clock when the program starts.                       *)
(*                                                                         *)
(* Time is counted in cycles.  The system clock is right and advances by   *)
(* NsPerCycle; reading either clock takes some cycles.  A double is an     *)
(* exact quotient here: its rounding is left out.                          *)
(*                                                                         *)
(* X_Fault above a definition X is X with a plausible bug, used only to    *)
(* show that the checked properties notice it.                             *)
(***************************************************************************)
EXTENDS Integers

CONSTANTS
    N,              \* tries of syncTime
    NsPerCycle,     \* true rate
    MinWaitNs,      \* what calibrate waits for
    Delays,         \* cycles that may pass before a clock is read
    MaxCycle        \* bound: neither init nor calibrate after it

ASSUME TscnsAssumption ==
    /\ N \in Nat \ {0}
    /\ NsPerCycle \in Nat \ {0}
    /\ MinWaitNs \in Nat \ {0}
    /\ Delays \subseteq Nat \ {0}
    /\ MaxCycle \in Nat

VARIABLES
    cycle,                  \* true time
    tscs, nses,             \* the arrays of syncTime
    i,                      \* how many of its tries are complete
    clockState,             \* what the next read is for
    base_tsc, base_ns,      \* the first synchronisation
    tsc_ghz_inv,            \* nanoseconds per cycle, a quotient
    ns_offset,
    delayed_tsc,            \* history: the second synchronisation in force
    gap                     \* history: the cycles its and the first one's best
                            \* try took

tscnsVars == <<cycle, tscs, nses, i, clockState, base_tsc, base_ns,
               tsc_ghz_inv, ns_offset, delayed_tsc, gap>>

clockVars == <<base_tsc, base_ns, tsc_ghz_inv, ns_offset, delayed_tsc, gap>>

Sync == {"init", "calibrate"}

TscnsInit ==
    /\ cycle = 0
    /\ tscs = [j \in 0..N |-> 0]
    /\ nses = [j \in 1..N |-> 0]
    /\ i = -1
    /\ clockState = "init"
    /\ base_tsc = 0 /\ base_ns = 0
    /\ tsc_ghz_inv = [ns |-> 1, cycles |-> 1]
    /\ ns_offset = 0
    /\ delayed_tsc = 0
    /\ gap = [init |-> 0, calibrate |-> 0]

-----------------------------------------------------------------------------
(* syncTime: N readings of the system clock, each between two of the       *)
(* counter                                                                 *)

rdtsc(t)   == t
rdsysns(t) == t * NsPerCycle

ReadTscFirst ==
    /\ clockState \in Sync /\ i = -1
    /\ \E d \in Delays : cycle' = cycle + d
    /\ tscs' = [tscs EXCEPT ![0] = rdtsc(cycle')]
    /\ i' = 0
    /\ UNCHANGED <<nses, clockState, clockVars>>

ReadPair ==
    /\ clockState \in Sync /\ i \in 0..(N - 1)
    /\ \E d, e \in Delays :
        /\ nses' = [nses EXCEPT ![i + 1] = rdsysns(cycle + d)]
        /\ tscs' = [tscs EXCEPT ![i + 1] = rdtsc(cycle + d + e)]
        /\ cycle' = cycle + d + e
    /\ i' = i + 1
    /\ UNCHANGED <<clockState, clockVars>>

Gap(j) == tscs[j] - tscs[j - 1]

\* The try in which the two readings of the counter are closest, the first of
\* them if there are several.
best == CHOOSE j \in 1..N :
            /\ \A m \in 1..N : Gap(j) <= Gap(m)
            /\ \A m \in 1..(j - 1) : Gap(j) < Gap(m)

tsc_LaterReading == tscs[best]
tsc == (tscs[best] + tscs[best - 1]) \div 2
ns  == nses[best]

\* The locals of syncTime go out of scope.
Forget ==
    /\ tscs' = [j \in 0..N |-> 0]
    /\ nses' = [j \in 1..N |-> 0]
    /\ i' = -1

-----------------------------------------------------------------------------
(* init and calibrate *)

\* (int64_t)((int64_t)t * tsc_ghz_inv)
Scaled(t, inv) == (t * inv.ns) \div inv.cycles

\* adjustOffset
Offset(b_tsc, b_ns, inv) == b_ns - Scaled(b_tsc, inv)

tsc2ns(t) == ns_offset + Scaled(t, tsc_ghz_inv)

\* init with a rate the user calibrated before: no waiting.
InitKnownRate ==
    /\ clockState = "init" /\ i = N
    /\ base_tsc' = tsc /\ base_ns' = ns
    /\ tsc_ghz_inv' = [ns |-> NsPerCycle, cycles |-> 1]
    /\ ns_offset' = Offset(tsc, ns, tsc_ghz_inv')
    /\ delayed_tsc' = tsc
    /\ gap' = [gap EXCEPT !.init = Gap(best)]
    /\ clockState' = "ready"
    /\ Forget
    /\ UNCHANGED cycle

\* init without one: calibrate.
InitBase ==
    /\ clockState = "init" /\ i = N
    /\ base_tsc' = tsc /\ base_ns' = ns
    /\ gap' = [gap EXCEPT !.init = Gap(best)]
    /\ clockState' = "calibrate"
    /\ Forget
    /\ UNCHANGED <<cycle, tsc_ghz_inv, ns_offset, delayed_tsc>>

\* while ((delayed_ns - base_ns) < min_wait_ns)
CalibrateAgain ==
    /\ clockState = "calibrate" /\ i = N
    /\ ns - base_ns < MinWaitNs
    /\ Forget
    /\ UNCHANGED <<cycle, clockState, clockVars>>

CalibrateEnds ==
    /\ clockState = "calibrate" /\ i = N
    /\ ns - base_ns >= MinWaitNs
    /\ tsc_ghz_inv' = [ns |-> ns - base_ns, cycles |-> tsc - base_tsc]
    /\ ns_offset' = Offset(base_tsc, base_ns, tsc_ghz_inv')
    /\ delayed_tsc' = tsc
    /\ gap' = [gap EXCEPT !.calibrate = Gap(best)]
    /\ clockState' = "ready"
    /\ Forget
    /\ UNCHANGED <<cycle, base_tsc, base_ns>>

\* "Of course you can calibrate again later": against the old base.
Recalibrate ==
    /\ clockState = "ready" /\ cycle <= MaxCycle
    /\ clockState' = "calibrate"
    /\ UNCHANGED <<cycle, tscs, nses, i, clockVars>>

\* "you can re-init and calibrate TSCNS at later times": with a new base.
InitAgain ==
    /\ clockState = "ready" /\ cycle <= MaxCycle
    /\ clockState' = "init"
    /\ UNCHANGED <<cycle, tscs, nses, i, clockVars>>

TscnsNext ==
    \/ ReadTscFirst
    \/ ReadPair
    \/ InitKnownRate
    \/ InitBase
    \/ CalibrateAgain
    \/ CalibrateEnds
    \/ Recalibrate
    \/ InitAgain

TscnsSpec == TscnsInit /\ [][TscnsNext]_tscnsVars

-----------------------------------------------------------------------------
(* Properties *)

TscnsTypeOK ==
    /\ cycle \in Nat
    /\ tscs \in [0..N -> Nat] /\ nses \in [1..N -> Nat]
    /\ i \in -1..N
    /\ clockState \in Sync \cup {"ready"}
    /\ base_tsc \in Nat /\ base_ns \in Nat /\ delayed_tsc \in Nat
    /\ tsc_ghz_inv \in [ns : Nat, cycles : Nat \ {0}]
    /\ ns_offset \in Int
    /\ gap \in [Sync -> Nat]

\* How far the two clocks of the first synchronisation lie apart, doubled: less
\* than the tightest pair of counter readings took (syncTime).
SyncIsTight ==
    clockState # "init" =>
        LET error == 2 * (base_ns - rdsysns(base_tsc))
        IN  -(NsPerCycle * gap.init) < error /\ error < NsPerCycle * gap.init

Error(t) == LET e == tsc2ns(t) - rdsysns(t) IN IF e < 0 THEN -e ELSE e

\* The time computed for a counter value differs from the system clock's by no
\* more than the readings allow between the two synchronisations, and grows
\* from there with the distance in units of what calibrate waited: "the longer
\* you wait the more precise" (src/runtime_logger.h:145-146).
ClockIsClose ==
    clockState = "ready" =>
        LET worst  == IF gap.init > gap.calibrate THEN gap.init ELSE gap.calibrate
            waited == delayed_tsc - base_tsc
        IN  \A t \in base_tsc..(2 * MaxCycle) :
                IF t <= delayed_tsc \/ waited = 0
                THEN 2 * (Error(t) - 1) < NsPerCycle * worst
                ELSE 2 * (Error(t) - 1) * waited
                        < NsPerCycle * (gap.calibrate * waited
                                + (gap.init + gap.calibrate) * (t - delayed_tsc))

=============================================================================
