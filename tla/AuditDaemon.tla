---------------------------- MODULE AuditDaemon ----------------------------
(***************************************************************************)
(* `veil-guard audit --daemon`: run_daemon in src/auditor.rs, the audit it *)
(* runs request by request at every tick, and send_alert in                *)
(* src/alerting.rs.  The origin may change between any two requests.       *)
(*                                                                         *)
(* One target, as the command line gives it.  Time is the day a signature  *)
(* is judged on, and for the heartbeat the number of intervals since the   *)
(* last alert.  Pushing the snapshot to a relay, whose outcome the daemon  *)
(* ignores, changes nothing here.                                          *)
(***************************************************************************)
EXTENDS Auditor

CONSTANTS
    Answers,        \* per file, what the origin may answer
    Honest,         \* the answers of the deployment as it was first signed
    NextRelease,    \* the answers of the release after it
    TrustRootFile, PinnedVersion, FailOn, GraphOnly,
    Heartbeat,      \* heartbeat_interval_secs, in intervals; 0 for none
    MaxDay,         \* bound: the clock stops here
    MaxChanges,     \* bound on the changes of the origin
    MaxIncidents,   \* bound on failed requests and deaths of the daemon
    Idle, NoAlert, Silent

VARIABLES
    origin,         \* what the origin answers for each file
    day,
    changes, incidents,
    audit,          \* the audit that is running
    status,         \* state[url]: is_failing, and the age of last_alert
    alert,          \* the alert that is being sent
    inbox,          \* the last event the webhook took
    steady          \* history: nothing changed since the audit began, and
                    \* each of its requests was answered

daemon == <<audit, status, alert>>
vars == <<origin, day, changes, incidents, daemon, inbox, steady>>

Event == {"TRIGGER", "RESOLVE"}
Steps == {"manifest", "sig", "revocation", "revocation_sig", "pages", "assets",
          "done"}

ASSUME DaemonAssumption ==
    /\ Heartbeat \in Nat /\ MaxDay \in Nat \ {0} /\ MaxChanges \in Nat
    /\ MaxIncidents \in Nat /\ PinnedVersion \in Nat /\ GraphOnly \in BOOLEAN
    /\ {Honest, NextRelease} \subseteq [Files -> UNION {Answers[f] : f \in Files}]
    /\ \A f \in Files :
         /\ {Honest[f], NextRelease[f]} \subseteq Answers[f]
         /\ NoAnswer \notin Answers[f]
         /\ \A res \in Answers[f] :
              /\ res = [status |-> res.status, body |-> res.body,
                        content_type |-> res.content_type]
              /\ res.status \in Nat
    \* What parses as a manifest names its assets by their keys.
    /\ \A res \in Answers["manifest.json"] :
         Ok(res) /\ StructurallyValid(res.body) => DOMAIN res.body.assets \subseteq Paths
    /\ TrustRootFile \in TrustRoot /\ Silent \notin Event

Init ==
    /\ origin = Honest /\ day = 1 /\ changes = 0 /\ incidents = 0
    /\ audit = Idle /\ alert = NoAlert /\ inbox = Silent /\ steady = TRUE
    /\ status = [is_failing |-> FALSE, age |-> 0]

----------------------------------------------------------------------------
(* The origin, the clock and the network.                                  *)

\* One file becomes another, or is put back.
Change(f) ==
    /\ changes < MaxChanges
    /\ \E res \in Answers[f] \ {origin[f]} : origin' = [origin EXCEPT ![f] = res]
    /\ changes' = changes + 1
    /\ steady' = FALSE
    /\ UNCHANGED <<day, incidents, daemon, inbox>>

\* A host that switches from one release to the other at once, and may go back.
Deploy ==
    /\ changes < MaxChanges
    /\ origin' \in {Honest, NextRelease} \ {origin}
    /\ changes' = changes + 1
    /\ steady' = FALSE
    /\ UNCHANGED <<day, incidents, daemon, inbox>>

NextDay ==
    /\ day < MaxDay
    /\ day' = day + 1
    /\ steady' = FALSE
    /\ UNCHANGED <<origin, changes, incidents, daemon, inbox>>

Incident == incidents < MaxIncidents /\ incidents' = incidents + 1

\* Client::get: no retry, and no caching on the way.
Get(f, res) == \/ res = origin[f] /\ UNCHANGED incidents
               \/ res = NoAnswer /\ Incident

Answer(f) == {origin[f], NoAnswer}

----------------------------------------------------------------------------
(* An audit.  A request that fails ends it, but for those of a revocation. *)

Running(step) == audit # Idle /\ audit.step = step
Environment == <<origin, day, changes, inbox>>
Unasked == [manifest |-> NoAnswer, sig |-> NoAnswer, revocation |-> NoAnswer]

\* The tick of the interval: missed ticks are skipped.
Tick ==
    /\ audit = Idle /\ alert = NoAlert
    /\ audit' = [step |-> "manifest", got |-> Unasked, todo |-> {}, findings |-> {}]
    /\ \E elapsed \in {1, Heartbeat} : LET age == status.age + elapsed IN
         status' = [status EXCEPT !.age = IF age < Heartbeat THEN age ELSE Heartbeat]
    /\ steady' = TRUE
    /\ UNCHANGED <<origin, day, changes, incidents, alert, inbox>>

\* Mutant: a request that failed is taken for a finding.
FailsAsFinding == audit' = [audit EXCEPT !.step = "done", !.findings = Unavailable]

Fails == audit' = Idle

Take(name, res, step) ==
    audit' = [audit EXCEPT !.got[name] = res, !.step = step]

Done(findings) ==
    audit' = [step |-> "done", got |-> Unasked, todo |-> {}, findings |-> findings]

GetManifest ==
    /\ Running("manifest")
    /\ \E res \in Answer("manifest.json") :
         /\ Get("manifest.json", res)
         /\ IF res = NoAnswer THEN Fails ELSE Take("manifest", res, "sig")
    /\ UNCHANGED <<Environment, steady, status, alert>>

GetSig ==
    /\ Running("sig")
    /\ \E res \in Answer("manifest.sig") :
         /\ Get("manifest.sig", res)
         /\ IF res = NoAnswer THEN Fails
            ELSE IF Ok(audit.got.manifest) /\ Ok(res) THEN Take("sig", res, "revocation")
            ELSE Done(Unavailable)
    /\ UNCHANGED <<Environment, steady, status, alert>>

GetRevocation ==
    /\ Running("revocation")
    /\ \E res \in Answer("revocation.json") :
         /\ Get("revocation.json", res)
         /\ steady' = (steady /\ res # NoAnswer)
         /\ Take("revocation", res, "revocation_sig")
    /\ UNCHANGED <<Environment, status, alert>>

Manifest == audit.got.manifest.body

\* The verdict on the manifest, on the day it is reached.
Judge(revoked) ==
    LET state == VerifyManifestWithRevocation(Manifest, audit.got.sig.body,
                    TrustRootFile, PinnedVersion, day, Supported, revoked)
        findings == RevocationFindings(revoked) \cup StateFindings(state)
    IN  IF state \in HardFailures THEN Done(findings)
        ELSE audit' = [step |-> "pages",
                       got |-> [Unasked EXCEPT !.manifest = audit.got.manifest],
                       todo |-> Pages(Manifest), findings |-> findings]

GetRevocationSig ==
    /\ Running("revocation_sig")
    /\ \E res \in Answer("revocation.sig") :
         /\ Get("revocation.sig", res)
         /\ steady' = (steady /\ res # NoAnswer)
         /\ Judge(RevokedKeys(audit.got.revocation, res, TrustRootFile, day))
    /\ UNCHANGED <<Environment, status, alert>>

\* The manifest's order is left open.
WalkPage(path) ==
    /\ Running("pages") /\ path \in audit.todo
    /\ \E res \in Answer(path) :
         /\ Get(path, res)
         /\ IF res = NoAnswer THEN Fails
            ELSE audit' = [audit EXCEPT !.todo = @ \ {path},
                     !.findings = @ \cup PageFindings(path, res, Manifest)]
    /\ UNCHANGED <<Environment, steady, status, alert>>

EndWalk ==
    /\ Running("pages") /\ audit.todo = {}
    /\ IF GraphOnly THEN Done(audit.findings)
       ELSE audit' = [audit EXCEPT !.step = "assets", !.todo = DOMAIN Manifest.assets]
    /\ UNCHANGED <<Environment, steady, incidents, status, alert>>

ProbeAsset(path) ==
    /\ Running("assets") /\ path \in audit.todo
    /\ \E res \in Answer(path) :
         /\ Get(path, res)
         /\ IF res = NoAnswer THEN Fails
            ELSE audit' = [audit EXCEPT !.todo = @ \ {path},
                     !.findings = @ \cup AssetFindings(path, res, Manifest.assets[path])]
    /\ UNCHANGED <<Environment, steady, status, alert>>

EndProbe ==
    /\ Running("assets") /\ audit.todo = {}
    /\ Done(audit.findings)
    /\ UNCHANGED <<Environment, steady, incidents, status, alert>>

----------------------------------------------------------------------------
(* The state machine of a target.                                          *)

Send(event) == alert' = [event |-> event, attempts |-> 0]

\* Mutant: last_alert is the last time the failure was seen.
ReportSeen ==
    LET has_failures == Worst(audit.findings, FailOn)
    IN  /\ IF has_failures # status.is_failing
           THEN Send(IF has_failures THEN "TRIGGER" ELSE "RESOLVE")
           ELSE IF has_failures /\ Heartbeat > 0 /\ status.age >= Heartbeat
           THEN Send("TRIGGER") ELSE UNCHANGED alert
        /\ status' = [is_failing |-> has_failures, age |-> 0]

\* Mutant: the end of a failure is announced and not noted.
ReportLatched ==
    LET has_failures == Worst(audit.findings, FailOn)
    IN  /\ status' = IF has_failures THEN [is_failing |-> TRUE, age |-> 0] ELSE status
        /\ IF has_failures # status.is_failing
           THEN Send(IF has_failures THEN "TRIGGER" ELSE "RESOLVE")
           ELSE UNCHANGED alert

Report ==
    LET has_failures == Worst(audit.findings, FailOn)
        failing == [is_failing |-> TRUE, age |-> 0]
    IN  \/ /\ has_failures /\ ~status.is_failing
           /\ status' = failing /\ Send("TRIGGER")
        \/ /\ has_failures /\ status.is_failing
           /\ IF Heartbeat > 0 /\ status.age >= Heartbeat
              THEN status' = failing /\ Send("TRIGGER")
              ELSE UNCHANGED <<status, alert>>
        \/ /\ ~has_failures /\ status.is_failing
           /\ status' = [is_failing |-> FALSE, age |-> 0] /\ Send("RESOLVE")
        \/ /\ ~has_failures /\ ~status.is_failing
           /\ UNCHANGED <<status, alert>>

Finish ==
    /\ Running("done")
    /\ audit' = Idle
    /\ Report
    /\ UNCHANGED <<Environment, steady, incidents>>

\* Mutant: off by one.
AttemptsLeftOneMore(attempts) == attempts <= 3

AttemptsLeft(attempts) == attempts < 3

\* send_alert: an attempt is over, and the webhook took it or not.
Attempt ==
    /\ alert # NoAlert
    /\ \/ inbox' = alert.event /\ alert' = NoAlert /\ UNCHANGED incidents
       \/ /\ Incident                       \* HTTP 4xx: no other attempt
          /\ alert' = NoAlert /\ UNCHANGED inbox
       \/ /\ Incident                       \* HTTP 5xx, or no answer
          /\ inbox' \in {inbox, alert.event}
          /\ alert' = IF AttemptsLeft(alert.attempts + 1)
                      THEN [alert EXCEPT !.attempts = @ + 1] ELSE NoAlert
    /\ UNCHANGED <<origin, day, changes, audit, status, steady>>

\* The daemon dies, or ctrl-c: what it knew is gone.
Restart ==
    /\ Incident
    /\ audit' = Idle /\ alert' = NoAlert
    /\ status' = [is_failing |-> FALSE, age |-> 0]
    /\ UNCHANGED <<Environment, steady>>

Progress ==
    \/ Tick \/ GetManifest \/ GetSig \/ GetRevocation \/ GetRevocationSig
    \/ EndWalk \/ EndProbe \/ Finish \/ Attempt
    \/ \E path \in Paths : WalkPage(path) \/ ProbeAsset(path)

Next == \/ Progress \/ Restart \/ NextDay \/ Deploy
        \/ \E f \in Files : Change(f)

Spec == Init /\ [][Next]_vars /\ WF_vars(Progress)

----------------------------------------------------------------------------
TypeOK ==
    /\ \A f \in Files : origin[f] \in Answers[f]
    /\ day \in 1 .. MaxDay /\ changes \in 0 .. MaxChanges
    /\ incidents \in 0 .. MaxIncidents /\ steady \in BOOLEAN
    /\ audit # Idle =>
         /\ audit.step \in Steps /\ audit.todo \subseteq Paths
         /\ audit.got \in [manifest: Answers["manifest.json"] \cup {NoAnswer},
                           sig: Answers["manifest.sig"] \cup {NoAnswer},
                           revocation: Answers["revocation.json"] \cup {NoAnswer}]
    /\ status \in [is_failing: BOOLEAN, age: 0 .. Heartbeat]
    /\ alert \in [event: Event, attempts: 0 .. 2] \cup {NoAlert}
    /\ inbox \in Event \cup {Silent}

\* A tag whose resource is another origin's, or is signed, with the integrity that
\* it needs.
Sound(tag, signed) ==
    \/ tag.ref = CrossOrigin
    \/ /\ tag.ref \in DOMAIN signed
       /\ IF tag.integrity = NoIntegrity
          THEN tag.name # "script" /\ ~tag.stylesheet
          ELSE signed[tag.ref].sha \in tag.integrity

\* An answer with the signed bytes, under their type or under none.
AsSigned(res, entry) == /\ res.status = 200 /\ res.body = entry.sha
                        /\ res.content_type \in {entry.content_type, Untyped}

\* What was signed is what is there: the reference an audit is held to.
Deployed(served, revoked, today) ==
    LET manifest == served["manifest.json"].body
        signed   == manifest.assets
    IN  /\ Ok(served["manifest.json"]) /\ Ok(served["manifest.sig"])
        /\ VerifyManifestWithRevocation(manifest, served["manifest.sig"].body,
              TrustRootFile, PinnedVersion, today, Supported, revoked) = "VALID"
        /\ \A p \in DOMAIN signed : AsSigned(served[p], signed[p])
        /\ \A p \in Pages(manifest) :
             /\ Tags[signed[p].sha] # Unscannable
             /\ \A tag \in Tags[signed[p].sha] : Sound(tag, signed)

RevokedBy(served, today) == RevokedKeys(served["revocation.json"],
                                served["revocation.sig"], TrustRootFile, today)

Genuine == Deployed(origin, RevokedBy(origin, day), day)

\* What was first deployed is genuine on its day, with or without its revocation.
HonestDeployment ==
    \A revoked \in {{}, RevokedBy(Honest, 1)} : Deployed(Honest, revoked, 1)

\* An audit that was answered throughout, and during which nothing changed, finds
\* a failure exactly when what the origin serves is not what was signed, whatever
\* the order of its requests and whichever of them it never came to.
AuditTellsTheTruth ==
    Running("done") /\ steady => (Worst(audit.findings, Warning) <=> ~Genuine)

\* While the origin serves what it always served, no failure of the network,
\* of the webhook or of the daemon ever pages anyone.
NetworkNeverPages ==
    changes = 0 /\ day = 1 => /\ inbox # "TRIGGER"
                              /\ alert # NoAlert => alert.event # "TRIGGER"

\* A deviation that lasts is in the end what the webhook was told last, however
\* many alerts were lost, repeated or late, if there is a heartbeat.
LastingFailureIsPaged == <>[](~Genuine) => <>[](inbox = "TRIGGER")

\* An audit that a deploy went through the middle of may find what nobody served;
\* once the origin holds still again, a later one takes the failure back.
FalseAlarmsEnd == <>[]Genuine => <>[](~status.is_failing)
============================================================================
