---------------------------- MODULE Collectors ----------------------------
(* The two servers that collect what others send them, one at a time: the  *)
(* audit relay, or the telemetry server.  They share nothing, and a        *)
(* behaviour runs the one that its initial state chose.                    *)
EXTENDS Relay

CONSTANTS MaxReports, MaxBatch, LastSecond, MaxReportFailures

ASSUME TelemetryAssumption ==
    /\ MaxReports \in Nat /\ MaxBatch \in Nat /\ LastSecond \in Nat
    /\ MaxReportFailures \in Nat /\ Torn \notin 1 .. MaxReports

VARIABLES program,
    reports, files, clock, request, outgoing, delivered, made, accepted, spent,
    repeated, unseen, unwritten, undelivered, starts

T == INSTANCE Telemetry WITH MaxFailures <- MaxReportFailures,
         disk <- files, unread <- unseen, failures <- unwritten, restarts <- starts

telemetryVars == <<reports, files, clock, request, outgoing, delivered, made,
                   accepted, spent, repeated, unseen, unwritten, undelivered, starts>>

allVars == <<program, vars, telemetryVars>>

OneInit == Init /\ T!Init /\ program \in {"relay", "telemetry"}

OneNext == /\ UNCHANGED program
           /\ \/ program = "relay" /\ Next /\ UNCHANGED telemetryVars
              \/ program = "telemetry" /\ T!Next /\ UNCHANGED vars

OneSpec == OneInit /\ [][OneNext]_allVars

TelemetryTypeOK == T!TypeOK
FilesAreKept == T!FilesAreKept
OneFaultLosesNothing == T!OneFaultLosesNothing
===========================================================================
