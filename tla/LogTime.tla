-------------------------------- MODULE LogTime --------------------------------
(***************************************************************************)
(* The time of a log line, from the counter value TZ_LOG stored            *)
(* (src/tz_logger.h:509) through Tscns to the text the sink thread writes  *)
(* (src/runtime_logger.cpp:283, 316).                                      *)
(*                                                                         *)
(* The singleton with its sink, and so the formatter, is constructed       *)
(* before TimeIniter calibrates the clock: both are static objects of      *)
(* runtime_logger.cpp, defined in this order.                              *)
(***************************************************************************)
EXTENDS Tscns, TimestampFormatter

CONSTANT Ages   \* cycles an entry may have waited for the sink thread

ASSUME LogTimeAssumption == Ages \subseteq Nat

logTimeVars == <<tscnsVars, formatterVars>>

Init == TscnsInit /\ FormatterInit

\* RuntimeLogger::tzLogSingleton; the first expansion is for the time it is now.
Construct ==
    /\ \/ \E f \in Formats : ConstructorThrows(f)
       \/ \E f \in Formats :
              Constructor(f) /\ cached' = rdsysns(cycle) \div SECOND
       \/ timestamp_ns = -1 /\ FormatterStep
    /\ UNCHANGED tscnsVars

\* TimeIniter, or a later calibration while no line is formatted.
Calibrate == formatterState = "idle" /\ TscnsNext /\ UNCHANGED formatterVars

\* The sink thread formats an entry stamped at some earlier cycle: those of
\* different threads do not arrive in order.
FormatEntry ==
    /\ clockState = "ready"
    /\ \E age \in Ages :
        cycle - age >= base_tsc /\ FormatTimestamp(tsc2ns(cycle - age))
    /\ UNCHANGED tscnsVars

FormatStep == timestamp_ns # -1 /\ FormatterStep /\ UNCHANGED tscnsVars

Next == Construct \/ Calibrate \/ FormatEntry \/ FormatStep

Spec == Init /\ [][Next]_logTimeVars

\* A call in progress goes on.
FairSpec == Spec /\ WF_logTimeVars(FormatterStep /\ UNCHANGED tscnsVars)

TypeOK == TscnsTypeOK /\ FormatterTypeOK
===============================================================================
