------------------------- MODULE ServiceWorkerProofs -------------------------
(***************************************************************************)
(* What ServiceWorker guarantees for any number of roots, workers, tasks   *)
(* and faults, and any bound on the clock.                                 *)
(***************************************************************************)
EXTENDS ServiceWorker, SequenceTheorems, TLAPS

USE DEF world, publisher, storage

----------------------------------------------------------------------------
(* The inductive invariant.                                                *)

\* What a refresh has in hand at each step: no pin before it is read, both
\* pins during a walk, the two files from readPin on.
StepOK(tk) ==
    /\ tk.step \in {"fetch", "mirror", "readPin"}
         => tk.pin = NoPin /\ tk.walked = NoPin
    /\ tk.step \in {"walk", "writeRotation"}
         => tk.pin # NoPin /\ tk.walked # NoPin
    /\ tk.step = "verify" => (tk.pin = NoPin <=> tk.walked = NoPin)
    /\ tk.step \in {"writePin", "saveManifest", "saveSig", "commit"}
         => tk.pin # NoPin
    /\ tk.step \notin {"fetch", "mirror"}
         => tk.manifest # NoManifest /\ tk.sig # NoManifest

StepInv == \A t \in Tasks : task[t] # NoTask => StepOK(task[t])

\* A pin a refresh is about to store for the first time.
Adopting(tk) == tk.step = "writePin" /\ tk.walked = NoPin

\* Every pin a refresh holds descends from an anchor, but for the one that is
\* about to become an anchor itself.
Descends(tk) ==
    /\ tk.walked # NoPin => Trusted(tk.walked.trustRoot)
    /\ tk.pin # NoPin /\ ~Adopting(tk) => Trusted(tk.pin.trustRoot)

TasksDescend == \A t \in Tasks : task[t] # NoTask => Descends(task[t])

ChainSigned == \A i \in 1 .. Len(chain) : chain[i] \in statements

Typed == TypeOK /\ StepInv
IInv  == Typed /\ ChainSigned /\ PinDescendsFromAnchor /\ TasksDescend

----------------------------------------------------------------------------
(* Typing.                                                                 *)

\* A task that is somewhere in refresh() is a task record.
LEMMA TaskTyped ==
    ASSUME TypeOK, NEW t \in Tasks, task[t] # NoTask
    PROVE  task[t] \in Task
  BY DEF TypeOK

\* Finish clears the task and its single flight, and keeps both typed.
LEMMA FinishTyped ==
    ASSUME TypeOK, NEW t \in Tasks, Finish(t)
    PROVE  /\ task' \in [Tasks -> Task \cup {NoTask}]
           /\ readying' \in [Workers -> Tasks \cup {NoTask}]
  BY DEF TypeOK, Finish, Update

LEMMA JudgementTyped ==
    ASSUME NEW t
    PROVE  Judgement(t) \in HardStates \cup SoftStates
  BY DEF Judgement, VerifyManifest, IsHardFailure, HardStates, SoftStates

LEMMA InitTyped == Init => TypeOK
  BY ConstantsAssumption
  DEF Init, TypeOK, FirstRelease, Manifest, Version, EmptyMirror, File,
      ColdMemory, HardStates, SoftStates

LEMMA TipTyped == ASSUME TypeOK PROVE Tip \in Roots
<1>1. CASE chain = <<>>
  BY <1>1, ConstantsAssumption DEF Tip
<1>2. CASE chain # <<>>
  <2>1. chain \in Seq(Statement) /\ Len(chain) \in 1 .. Len(chain)
    BY <1>2 DEF TypeOK
  <2>2. chain[Len(chain)] \in Statement
    BY <2>1
  <2> QED BY <1>2, <2>2 DEF Tip, Statement
<1> QED BY <1>1, <1>2

\* The publisher's actions keep every variable typed.
LEMMA PublishTyped == ASSUME TypeOK, Publish PROVE TypeOK'
<1>1. CASE SignRelease
  <2> DEFINE m == [version |-> clock, root |-> current, genuine |-> TRUE]
  <2>1. m \in Manifest
    BY DEF TypeOK, Manifest
  <2>2. /\ signed' = signed \cup {m}
        /\ origin' = [origin EXCEPT !.release = m]
        /\ UNCHANGED <<clock, chain, current, statements, pin, mirror, anchors,
                       memory, readying, task, faults>>
    BY <1>1 DEF SignRelease
  <2> QED BY <2>1, <2>2 DEF TypeOK
<1>2. CASE SwitchRoot
  BY <1>2, TipTyped DEF TypeOK, SwitchRoot
<1>3. CASE \E m \in signed : Redeploy(m)
  BY <1>3 DEF TypeOK, Redeploy, Fault
<1>4. CASE Corrupt
  <2> DEFINE m == [origin.release EXCEPT !.genuine = FALSE]
  <2>1. m \in Manifest
    BY DEF TypeOK, Manifest
  <2>2. origin' = [origin EXCEPT !.manifest = m]
    BY <1>4 DEF Corrupt
  <2>3. /\ faults' = faults + 1
        /\ UNCHANGED <<clock, chain, current, signed, statements, pin, mirror,
                       anchors, memory, readying, task>>
    BY <1>4 DEF Corrupt, Fault
  <2> HIDE DEF m
  <2> QED BY <2>1, <2>2, <2>3 DEF TypeOK
<1>5. CASE \E file \in {"manifest", "sig"} : Upload(file)
  BY <1>5 DEF TypeOK, Upload
<1>6. ASSUME NEW to \in Roots, PublishRotation(to) PROVE TypeOK'
  <2> DEFINE st == [from |-> Tip, to |-> to, version |-> clock]
  <2>1. st \in Statement
    BY TipTyped DEF TypeOK, Statement
  <2>2. Append(chain, st) \in Seq(Statement) /\ <<st>> \in Seq(Statement)
    BY <2>1 DEF TypeOK
  <2>3. /\ chain' \in {Append(chain, st), <<st>>}
        /\ statements' = statements \cup {st}
        /\ UNCHANGED <<clock, origin, current, signed, pin, mirror, anchors,
                       memory, readying, task, faults>>
    BY <1>6 DEF PublishRotation
  <2> QED BY <2>1, <2>2, <2>3 DEF TypeOK
<1> QED BY <1>1, <1>2, <1>3, <1>4, <1>5, <1>6 DEF Publish

LEMMA NewTaskTyped ==
    ASSUME NEW w \in Workers
    PROVE  NewTask(w) \in Task /\ StepOK(NewTask(w))
  BY DEF NewTask, Task, Steps, File, StepOK, SoftStates

\* Replacing one task's record by a good one keeps the invariant of all.
LEMMA UpdateStep ==
    ASSUME Typed, NEW t \in Tasks, NEW tk \in Task \cup {NoTask},
           tk # NoTask => StepOK(tk), Update(t, tk)
    PROVE  task' \in [Tasks -> Task \cup {NoTask}] /\ StepInv'
  BY DEF Typed, TypeOK, StepInv, Update, StepOK

LEMMA FinishStep ==
    ASSUME Typed, NEW t \in Tasks, Finish(t)
    PROVE  /\ task' \in [Tasks -> Task \cup {NoTask}] /\ StepInv'
           /\ readying' \in [Workers -> Tasks \cup {NoTask}]
<1>1. Update(t, NoTask)
  BY DEF Finish
<1>2. task' \in [Tasks -> Task \cup {NoTask}] /\ StepInv'
  BY <1>1, UpdateStep
<1> QED BY <1>2, FinishTyped DEF Typed

LEMMA GotoStep ==
    ASSUME Typed, NEW t \in Tasks, task[t] # NoTask, NEW s \in Steps,
           Goto(t, s), StepOK([task[t] EXCEPT !.step = s])
    PROVE  task' \in [Tasks -> Task \cup {NoTask}] /\ StepInv'
<1>1. [task[t] EXCEPT !.step = s] \in Task
  BY TaskTyped DEF Typed, Task
<1> QED BY <1>1, UpdateStep DEF Goto

\* Every step of a refresh keeps the typing and what is in hand.
LEMMA RefreshTyped ==
    ASSUME Typed, NEW t \in Tasks,
           Refresh(t) \/ FetchFails(t) \/ WriteFails(t) \/ SaveFails(t)
    PROVE  Typed'
<1> DEFINE tk == task[t]
<1> USE DEF At, Typed
<1>0. tk # NoTask => tk \in Task /\ StepOK(tk)
  BY TaskTyped DEF StepInv
<1>1. ASSUME NEW file \in {"manifest", "sig"}, Fetch(t, file) PROVE Typed'
  <2> DEFINE next(s) == [tk EXCEPT ![file] = origin[file], !.step = s]
             s == IF tk.manifest = NoManifest /\ tk.sig = NoManifest
                  THEN "fetch" ELSE "readPin"
  <2>1. tk \in Task /\ StepOK(tk) /\ origin[file] \in Manifest /\ tk.step = "fetch"
    BY <1>0, <1>1 DEF Fetch, TypeOK
  <2>5. origin[file] \in File
    BY <2>1 DEF File
  <2>2. next(s) \in Task
    BY <2>1, <2>5 DEF Task, Steps
  <2>3. StepOK(next(s))
    BY <2>1, <2>2, ConstantsAssumption, <1>1 DEF StepOK, Task, Fetch
  <2>4. /\ Update(t, next(s))
        /\ UNCHANGED <<clock, origin, chain, current, signed, statements, pin,
                       mirror, anchors, memory, readying, faults>>
    BY <1>1 DEF Fetch
  <2> HIDE DEF next
  <2> QED BY <2>2, <2>3, <2>4, UpdateStep DEF TypeOK
<1>2. CASE FetchFails(t)
  <2> DEFINE next == [tk EXCEPT !.step = "mirror", !.manifest = NoManifest,
                                !.sig = NoManifest]
  <2>1. next \in Task /\ StepOK(next)
    BY <1>0, <1>2 DEF FetchFails, Task, Steps, File, StepOK
  <2> QED BY <1>2, <2>1, UpdateStep DEF TypeOK, FetchFails, Fault
<1>3. ASSUME NEW file \in {"manifest", "sig"}, LoadControl(t, file) PROVE Typed'
  <2> DEFINE next(s) == [tk EXCEPT ![file] = mirror[file], !.fromCache = TRUE,
                                   !.step = s]
             s == IF tk.manifest = NoManifest /\ tk.sig = NoManifest
                  THEN "mirror" ELSE "readPin"
  <2>1. /\ tk \in Task /\ StepOK(tk) /\ tk.step = "mirror"
        /\ mirror[file] \in File /\ mirror[file] # NoManifest
    BY <1>0, <1>3 DEF LoadControl, TypeOK
  <2>2. next(s) \in Task
    BY <2>1 DEF Task, Steps
  <2>3. StepOK(next(s))
    BY <2>1, <2>2, <1>3 DEF StepOK, Task, LoadControl
  <2>4. /\ Update(t, next(s))
        /\ UNCHANGED <<clock, origin, chain, current, signed, statements, pin,
                       mirror, anchors, memory, readying, faults>>
    BY <1>3 DEF LoadControl
  <2> HIDE DEF next
  <2> QED BY <2>2, <2>3, <2>4, UpdateStep DEF TypeOK
<1>4. CASE Unreachable(t)
  <2>1. memory' \in [Workers -> [state: HardStates \cup SoftStates,
                                 manifest: File]]
    BY <1>0, <1>4 DEF TypeOK, Unreachable, Task, HardStates, SoftStates
  <2> QED BY <1>4, <2>1, FinishStep DEF TypeOK, Unreachable
<1>5. CASE ReadPin(t)
  <2>1. PICK p \in {pin, NoPin} :
          /\ IF p = pin THEN NoFault ELSE Fault("readPin")
          /\ Update(t, [tk EXCEPT !.pin = p, !.walked = p, !.base = p,
               !.step = IF p # NoPin /\ p.trustRootId # Baked[tk.worker]
                        THEN "walk" ELSE "verify"])
    BY <1>5 DEF ReadPin
  <2> DEFINE s == IF p # NoPin /\ p.trustRootId # Baked[tk.worker]
                  THEN "walk" ELSE "verify"
             next == [tk EXCEPT !.pin = p, !.walked = p, !.base = p, !.step = s]
  <2>2. p \in Pin \cup {NoPin} /\ tk \in Task /\ StepOK(tk) /\ tk.step = "readPin"
    BY <1>0, <1>5 DEF ReadPin, TypeOK
  <2>3. next \in Task /\ StepOK(next)
    BY <2>2 DEF Task, Steps, StepOK
  <2>4. task' \in [Tasks -> Task \cup {NoTask}] /\ StepInv'
    BY <2>1, <2>3, UpdateStep
  <2> QED BY <1>5, <2>1, <2>4 DEF TypeOK, ReadPin, Fault, NoFault
<1>6. CASE WalkLink(t)
  <2> DEFINE st == chain[tk.index + 1]
             moved == Rotated(tk.walked, st)
             next == [tk EXCEPT !.walked = moved, !.index = tk.index + 1,
                                !.applied = tk.applied \cup {st.to}]
  <2>1. /\ tk \in Task /\ StepOK(tk) /\ tk.step = "walk"
        /\ tk.index \in Nat /\ tk.walked \in Pin
    BY <1>0, <1>6 DEF WalkLink, Task, StepOK
  <2>2. st \in Statement
    BY <1>6, <2>1, ConstantsAssumption, ElementOfSeq
    DEF WalkLink, LinkApplies, LinkServed, TypeOK
  <2>3. moved \in Pin
    BY <2>1, <2>2 DEF Rotated, Pin, Statement
  <2>4. moved # NoPin /\ st.to \in Roots
    BY <2>2, <2>3, ConstantsAssumption DEF Statement
  <2>5. /\ Update(t, next)
        /\ UNCHANGED <<clock, origin, chain, current, signed, statements, pin,
                       mirror, anchors, memory, readying, faults>>
    BY <1>6 DEF WalkLink, Update
  <2> DEFINE applied == tk.applied \cup {st.to}
  <2>8. applied \in SUBSET Roots /\ tk.index + 1 \in Nat
    BY <2>1, <2>4 DEF Task
  <2> HIDE DEF moved, st, applied
  <2>6. next \in Task
    BY <2>1, <2>3, <2>8 DEF Task, applied
  <2>7. StepOK(next)
    BY <2>1, <2>4 DEF StepOK, Task
  <2> HIDE DEF next
  <2> QED BY <2>5, <2>6, <2>7, UpdateStep DEF TypeOK
<1>7. CASE WalkRefused(t)
  <2>1. StepOK([tk EXCEPT !.step = "verify"])
    BY <1>0, <1>7 DEF WalkRefused, StepOK, Task
  <2> QED BY <1>7, <2>1, GotoStep DEF TypeOK, WalkRefused, Steps
<1>8. CASE WalkEnds(t)
  <2> DEFINE next == [tk EXCEPT !.step = "writeRotation", !.pin = tk.walked]
  <2>1. next \in Task /\ StepOK(next) /\ StepOK([tk EXCEPT !.step = "verify"])
    BY <1>0, <1>8 DEF WalkEnds, Task, Steps, StepOK
  <2>2. task' \in [Tasks -> Task \cup {NoTask}] /\ StepInv'
    BY <1>8, <2>1, UpdateStep, GotoStep DEF WalkEnds, Steps
  <2> QED BY <1>8, <2>2 DEF TypeOK, WalkEnds, Fault, NoFault
<1>9. CASE WriteRotation(t)
  <2> DEFINE next == [tk EXCEPT !.base = tk.pin, !.step = "verify"]
  <2>1. /\ tk \in Task /\ StepOK(tk) /\ tk.step = "writeRotation"
        /\ tk.pin \in Pin \cup {NoPin}
    BY <1>0, <1>9 DEF WriteRotation, Task
  <2>2. next \in Task /\ StepOK(next)
    BY <2>1 DEF StepOK, Task, Steps
  <2>3. task' \in [Tasks -> Task \cup {NoTask}] /\ StepInv'
    BY <1>9, <2>2, UpdateStep DEF WriteRotation
  <2> QED BY <1>9, <2>1, <2>3 DEF TypeOK, WriteRotation
<1>10. CASE RefuseManifest(t)
  <2>1. memory' \in [Workers -> [state: HardStates \cup SoftStates,
                                 manifest: File]]
    BY <1>10, JudgementTyped DEF TypeOK, RefuseManifest, File
  <2> QED BY <1>10, <2>1, FinishStep DEF TypeOK, RefuseManifest
<1>11. CASE AcceptManifest(t)
  <2> DEFINE m == tk.manifest
             p == tk.pin
             transition == PinTransition(p, m)
             newPin == CASE transition = "adopt" -> Adopted(RootOf(t), m)
                         [] transition = "advance" ->
                              [p EXCEPT !.version = m.version,
                                        !.trustRoot = RootOf(t)]
                         [] OTHER -> p
             s == IF transition # "unchanged" THEN "writePin"
                  ELSE IF tk.fromCache THEN "commit" ELSE "saveManifest"
             next == [tk EXCEPT !.verdict = Judgement(t), !.pin = newPin,
                                !.step = s]
  <2>1. /\ tk \in Task /\ StepOK(tk) /\ tk.step = "verify"
        /\ m \in Manifest /\ tk.sig # NoManifest /\ p \in Pin \cup {NoPin}
    BY <1>0, <1>11 DEF AcceptManifest, Task, File, StepOK
  <2>2. RootOf(t) \in Roots
    BY <2>1, ConstantsAssumption DEF RootOf, Task, Pin
  <2>3. newPin \in Pin
    <3>1. CASE p = NoPin
      <4>1. newPin = Adopted(RootOf(t), m)
        BY <3>1 DEF PinTransition
      <4>2. 0 \in Version
        BY ConstantsAssumption DEF Version
      <4>3. m.root \in Roots /\ m.version \in Version
        BY <2>1 DEF Manifest
      <4>4. Adopted(RootOf(t), m) \in Pin
        BY <4>2, <4>3, <2>2 DEF Adopted, Pin
      <4> QED BY <4>1, <4>4
    <3>2. CASE p # NoPin
      <4>1. \/ newPin = p
            \/ newPin = [p EXCEPT !.version = m.version, !.trustRoot = RootOf(t)]
        BY <3>2 DEF PinTransition
      <4> QED BY <4>1, <3>2, <2>1, <2>2 DEF Pin, Manifest
    <3> QED BY <3>1, <3>2
  <2>4. newPin # NoPin
    BY <2>3, ConstantsAssumption
  <2>5. /\ Update(t, next)
        /\ UNCHANGED <<clock, origin, chain, current, signed, statements, pin,
                       mirror, anchors, memory, readying, faults>>
    BY <1>11 DEF AcceptManifest
  <2> HIDE DEF newPin, transition
  <2>6. next \in Task
    BY <2>1, <2>3, JudgementTyped DEF Task, Steps
  <2>7. StepOK(next)
    BY <2>1, <2>4 DEF StepOK, Task
  <2> HIDE DEF next
  <2> QED BY <2>5, <2>6, <2>7, UpdateStep DEF TypeOK
<1>12. CASE WritePin(t)
  <2> DEFINE s == IF tk.fromCache THEN "commit" ELSE "saveManifest"
  <2>1. tk \in Task /\ StepOK(tk) /\ tk.pin \in Pin
    BY <1>0, <1>12 DEF WritePin, StepOK, Task
  <2>2. [tk EXCEPT !.base = tk.pin, !.step = s] \in Task
    BY <1>12, <2>1 DEF Task, Steps
  <2>7. StepOK([tk EXCEPT !.base = tk.pin, !.step = s])
    BY <1>12, <2>1 DEF WritePin, StepOK, Task
  <2>3. task' \in [Tasks -> Task \cup {NoTask}] /\ StepInv'
    BY <1>12, <2>2, <2>7, UpdateStep DEF WritePin
  <2>4. anchors' \subseteq Roots
    BY <1>12, <2>1 DEF Pin, TypeOK, WritePin
  <2>5. pin' \in Pin \cup {NoPin}
    BY <1>12, <2>1 DEF WritePin
  <2>6. UNCHANGED <<clock, origin, chain, current, signed, statements, faults,
                    mirror, memory, readying>>
    BY <1>12 DEF WritePin
  <2> QED BY <2>3, <2>4, <2>5, <2>6 DEF TypeOK
<1>13. CASE WriteFails(t)
  BY <1>13, FinishStep DEF TypeOK, WriteFails, Fault
<1>14. CASE SaveManifest(t)
  <2>1. StepOK([tk EXCEPT !.step = "saveSig"]) /\ tk.manifest \in File
    BY <1>0, <1>14 DEF SaveManifest, StepOK, Task
  <2> QED BY <1>14, <2>1, GotoStep DEF TypeOK, SaveManifest, Steps
<1>15. CASE SaveSig(t)
  <2>1. StepOK([tk EXCEPT !.step = "commit"]) /\ tk.sig \in File
    BY <1>0, <1>15 DEF SaveSig, StepOK, Task
  <2> QED BY <1>15, <2>1, GotoStep DEF TypeOK, SaveSig, Steps
<1>16. CASE SaveFails(t)
  <2>1. StepOK([tk EXCEPT !.step = "commit"])
    BY <1>0, <1>16 DEF SaveFails, StepOK, Task
  <2>2. task' \in [Tasks -> Task \cup {NoTask}] /\ StepInv'
    BY <1>16, <2>1, GotoStep DEF SaveFails, Steps
  <2> QED BY <1>16, <2>2 DEF TypeOK, SaveFails, Fault
<1>17. CASE Commit(t)
  <2>1. memory' \in [Workers -> [state: HardStates \cup SoftStates,
                                 manifest: File]]
    BY <1>0, <1>17 DEF TypeOK, Commit, Task
  <2> QED BY <1>17, <2>1, FinishStep DEF TypeOK, Commit
<1> QED BY <1>1, <1>2, <1>3, <1>4, <1>5, <1>6, <1>7, <1>8, <1>9, <1>10,
           <1>11, <1>12, <1>13, <1>14, <1>15, <1>16, <1>17 DEF Refresh

\* A refresh that starts keeps the typing.
LEMMA StartTyped ==
    ASSUME Typed, NEW w \in Workers, NEW t \in Tasks,
           StartRefresh(w, t) \/ EnsureReady(w, t)
    PROVE  Typed'
<1>1. Update(t, NewTask(w))
  BY DEF StartRefresh, EnsureReady, Start
<1>2. task' \in [Tasks -> Task \cup {NoTask}] /\ StepInv'
  BY <1>1, NewTaskTyped, UpdateStep
<1> QED BY <1>2 DEF Typed, TypeOK, StartRefresh, EnsureReady

\* Every step keeps the typing.
LEMMA NextTyped == ASSUME Typed, [Next]_vars PROVE Typed'
<1>1. CASE Tick
  BY <1>1, ConstantsAssumption DEF Typed, TypeOK, StepInv, Tick, Version, StepOK
<1>2. CASE Publish
  <2>1. UNCHANGED task
    BY <1>2 DEF Publish, SignRelease, SwitchRoot, Redeploy, Corrupt, Upload,
                PublishRotation
  <2> QED BY <1>2, <2>1, PublishTyped DEF Typed, StepInv, StepOK
<1>3. CASE Evict
  <2>1. EmptyMirror \in [manifest: File, sig: File]
    BY DEF EmptyMirror, File
  <2> QED BY <1>3, <2>1 DEF Typed, TypeOK, StepInv, StepOK, Evict, Fault
<1>4. ASSUME NEW w \in Workers, Restart(w) PROVE Typed'
  <2>1. ColdMemory \in [state: HardStates \cup SoftStates, manifest: File]
    BY DEF ColdMemory, SoftStates, File
  <2>2. /\ memory' = [memory EXCEPT ![w] = ColdMemory]
        /\ readying' = [readying EXCEPT ![w] = NoTask]
        /\ task' = [t \in Tasks |-> IF task[t] # NoTask /\ task[t].worker = w
                                    THEN NoTask ELSE task[t]]
        /\ faults' = faults + 1
        /\ UNCHANGED <<clock, origin, chain, current, signed, statements, pin,
                       mirror, anchors>>
    BY <1>4 DEF Restart, Fault
  <2>3. TypeOK'
    BY <2>1, <2>2 DEF Typed, TypeOK
  <2>4. StepInv'
    BY <2>2 DEF Typed, StepInv, StepOK
  <2> QED BY <2>3, <2>4 DEF Typed
<1>5. CASE UNCHANGED vars
  BY <1>5 DEF vars, Typed, TypeOK, StepInv, StepOK
<1> QED BY <1>1, <1>2, <1>3, <1>4, <1>5, StartTyped, RefreshTyped DEF Next

\* Every variable stays in its type, and a refresh has in hand at each step
\* what the step uses, for any interleaving and any faults.
THEOREM Typing == Spec => []TypeOK
<1>1. Init => Typed
  BY InitTyped DEF Init, Typed, StepInv
<1>2. Typed /\ [Next]_vars => Typed'
  BY NextTyped
<1>3. Typed => TypeOK
  BY DEF Typed
<1> QED BY <1>1, <1>2, <1>3, PTL DEF Spec

----------------------------------------------------------------------------
(* The pinned root.                                                        *)

Growing == anchors \subseteq anchors' /\ statements \subseteq statements'

\* Anchors and signed statements are never forgotten, so neither is trust.
LEMMA TrustGrows ==
    ASSUME Growing, NEW root, Trusted(root)
    PROVE  Trusted(root)'
  BY DEF Growing, Trusted, ClosedUnderRotation

\* One signed statement further is still trusted.
LEMMA TrustFollowsRotation ==
    ASSUME NEW st \in statements, Trusted(st.from)
    PROVE  Trusted(st.to)
  BY DEF Trusted, ClosedUnderRotation

\* A root that is trusted, or is becoming an anchor in this step.
Anchored(root) == Trusted(root) \/ root \in anchors'

LEMMA AnchoredStays ==
    ASSUME Growing, NEW root, Anchored(root)
    PROVE  Trusted(root)'
  BY TrustGrows DEF Anchored, Trusted

\* When one task's record is replaced, what the pins of the others descend
\* from is not touched.
LEMMA UpdateDescends ==
    ASSUME Typed, TasksDescend, Growing, NEW t \in Tasks, NEW tk, Update(t, tk),
           tk # NoTask =>
             /\ tk.walked # NoPin => Trusted(tk.walked.trustRoot)
             /\ tk.pin # NoPin /\ ~Adopting(tk) => Anchored(tk.pin.trustRoot)
    PROVE  TasksDescend'
<1> SUFFICES ASSUME NEW u \in Tasks, task'[u] # NoTask
             PROVE  Descends(task[u])'
  BY DEF TasksDescend
<1> PICK x : x = task'[u]
  OBVIOUS
<1>1. x = IF u = t THEN tk ELSE task[u]
  BY DEF Update, Typed, TypeOK
<1>2. /\ x.walked # NoPin => Trusted(x.walked.trustRoot)
      /\ x.pin # NoPin /\ ~Adopting(x) => Anchored(x.pin.trustRoot)
  BY <1>1 DEF TasksDescend, Descends, Anchored
<1>3. x.walked # NoPin => Trusted(x.walked.trustRoot)'
  BY <1>2, TrustGrows
<1>4. x.pin # NoPin /\ ~Adopting(x) => Trusted(x.pin.trustRoot)'
  BY <1>2, AnchoredStays
<1> QED BY <1>3, <1>4 DEF Descends, Adopting, Trusted, ClosedUnderRotation

LEMMA PinStaysDescended ==
    ASSUME Growing, NEW p, pin' = p, p # NoPin => Anchored(p.trustRoot)
    PROVE  PinDescendsFromAnchor'
<1>1. p # NoPin => Trusted(p.trustRoot)'
  BY AnchoredStays
<1> QED BY <1>1 DEF PinDescendsFromAnchor, Trusted, ClosedUnderRotation

\* Nothing about trust depends on anything but the pin, the tasks, the
\* anchors and the statements, and the last two only grow.
LEMMA DescentFramed ==
    ASSUME PinDescendsFromAnchor, TasksDescend, Growing,
           pin' \in {pin, NoPin},
           \A u \in Tasks : task'[u] \in {task[u], NoTask}
    PROVE  PinDescendsFromAnchor' /\ TasksDescend'
<1>1. PinDescendsFromAnchor'
  BY PinStaysDescended DEF PinDescendsFromAnchor, Anchored
<1>2. ASSUME NEW u \in Tasks, task'[u] # NoTask PROVE Descends(task[u])'
  <2> PICK x : x = task'[u]
    OBVIOUS
  <2>1. Descends(x)
    BY <1>2 DEF TasksDescend
  <2>2. x.walked # NoPin => Trusted(x.walked.trustRoot)'
    BY <2>1, TrustGrows DEF Descends
  <2>3. x.pin # NoPin /\ ~Adopting(x) => Trusted(x.pin.trustRoot)'
    BY <2>1, TrustGrows DEF Descends
  <2> QED BY <2>2, <2>3 DEF Descends, Adopting, Trusted, ClosedUnderRotation
<1> QED BY <1>1, <1>2 DEF TasksDescend

\* A task that ends or moves on without touching its pins, the stored pin and
\* the anchors keeps the descent of all.
LEMMA GotoDescends ==
    ASSUME Typed, PinDescendsFromAnchor, TasksDescend, NEW t \in Tasks,
           task[t] # NoTask, NEW s \in Steps,
           Goto(t, s), ~Adopting(task[t]), s # "writePin",
           UNCHANGED <<pin, anchors, statements>>
    PROVE  PinDescendsFromAnchor' /\ TasksDescend'
<1> DEFINE tk == [task[t] EXCEPT !.step = s]
<1>1. task[t] \in Task /\ Descends(task[t])
  BY TaskTyped DEF Typed, TasksDescend
<1>2. /\ tk.walked # NoPin => Trusted(tk.walked.trustRoot)
      /\ tk.pin # NoPin /\ ~Adopting(tk) => Anchored(tk.pin.trustRoot)
  BY <1>1 DEF Task, Descends, Anchored
<1>3. Update(t, tk) /\ Growing
  BY DEF Goto, Growing
<1> HIDE DEF tk
<1>4. TasksDescend'
  BY <1>2, <1>3, UpdateDescends
<1> QED BY <1>4 DEF PinDescendsFromAnchor, Trusted, ClosedUnderRotation

LEMMA FinishDescends ==
    ASSUME Typed, PinDescendsFromAnchor, TasksDescend, NEW t \in Tasks,
           Finish(t), UNCHANGED <<pin, anchors, statements>>
    PROVE  PinDescendsFromAnchor' /\ TasksDescend'
<1>1. Update(t, NoTask) /\ Growing
  BY DEF Finish, Growing
<1>2. TasksDescend'
  BY <1>1, UpdateDescends
<1> QED BY <1>2 DEF PinDescendsFromAnchor, Trusted, ClosedUnderRotation

\* Every step of a refresh keeps the descent of the pin and of the tasks.
LEMMA RefreshDescends ==
    ASSUME Typed, ChainSigned, PinDescendsFromAnchor, TasksDescend,
           NEW t \in Tasks,
           Refresh(t) \/ FetchFails(t) \/ WriteFails(t) \/ SaveFails(t)
    PROVE  PinDescendsFromAnchor' /\ TasksDescend'
<1> DEFINE tk == task[t]
           Good(r) == /\ r.walked # NoPin => Trusted(r.walked.trustRoot)
                      /\ r.pin # NoPin /\ ~Adopting(r) => Anchored(r.pin.trustRoot)
<1> USE DEF At
<1>0. tk # NoTask => tk \in Task /\ StepOK(tk) /\ Descends(tk)
  BY TaskTyped DEF Typed, StepInv, TasksDescend
\* Steps that replace a record but touch neither the pin nor the anchors.
<1>a. ASSUME NEW r, Update(t, r), r # NoTask => Good(r),
             UNCHANGED <<pin, anchors, statements>>
      PROVE  PinDescendsFromAnchor' /\ TasksDescend'
  <2>1. TasksDescend'
    BY <1>a, UpdateDescends DEF Growing
  <2> QED BY <1>a, <2>1 DEF PinDescendsFromAnchor, Trusted, ClosedUnderRotation
<1>1. ASSUME NEW file \in {"manifest", "sig"}, Fetch(t, file)
      PROVE  PinDescendsFromAnchor' /\ TasksDescend'
  <2> DEFINE r == [tk EXCEPT
               ![file] = origin[file],
               !.step = IF tk.manifest = NoManifest /\ tk.sig = NoManifest
                        THEN "fetch" ELSE "readPin"]
  <2>1. Update(t, r) /\ UNCHANGED <<pin, anchors, statements>>
    BY <1>1 DEF Fetch
  <2>2. r.pin = NoPin /\ r.walked = NoPin
    BY <1>0, <1>1 DEF Fetch, StepOK, Task
  <2> HIDE DEF r
  <2> QED BY <1>a, <2>1, <2>2
<1>2. CASE FetchFails(t)
  <2> DEFINE r == [tk EXCEPT !.step = "mirror", !.manifest = NoManifest,
                             !.sig = NoManifest]
  <2>1. Update(t, r) /\ UNCHANGED <<pin, anchors, statements>>
    BY <1>2 DEF FetchFails
  <2>2. r.pin = NoPin /\ r.walked = NoPin
    BY <1>0, <1>2 DEF FetchFails, StepOK, Task
  <2> HIDE DEF r
  <2> QED BY <1>a, <2>1, <2>2
<1>3. ASSUME NEW file \in {"manifest", "sig"}, LoadControl(t, file)
      PROVE  PinDescendsFromAnchor' /\ TasksDescend'
  <2> DEFINE r == [tk EXCEPT
               ![file] = mirror[file], !.fromCache = TRUE,
               !.step = IF tk.manifest = NoManifest /\ tk.sig = NoManifest
                        THEN "mirror" ELSE "readPin"]
  <2>1. Update(t, r) /\ UNCHANGED <<pin, anchors, statements>>
    BY <1>3 DEF LoadControl
  <2>2. r.pin = NoPin /\ r.walked = NoPin
    BY <1>0, <1>3 DEF LoadControl, StepOK, Task
  <2> HIDE DEF r
  <2> QED BY <1>a, <2>1, <2>2
<1>4. CASE Unreachable(t)
  BY <1>4, FinishDescends DEF Unreachable
<1>5. CASE ReadPin(t)
  <2>1. PICK p \in {pin, NoPin} :
          Update(t, [tk EXCEPT !.pin = p, !.walked = p, !.base = p,
            !.step = IF p # NoPin /\ p.trustRootId # Baked[tk.worker]
                     THEN "walk" ELSE "verify"])
    BY <1>5 DEF ReadPin
  <2> DEFINE r == [tk EXCEPT !.pin = p, !.walked = p, !.base = p,
               !.step = IF p # NoPin /\ p.trustRootId # Baked[tk.worker]
                        THEN "walk" ELSE "verify"]
  <2>2. r.pin = p /\ r.walked = p
    BY <1>0, <1>5 DEF ReadPin, Task
  <2>3. p # NoPin => Trusted(p.trustRoot)
    BY DEF PinDescendsFromAnchor
  <2>4. Update(t, r) /\ UNCHANGED <<pin, anchors, statements>>
    BY <1>5, <2>1 DEF ReadPin
  <2> HIDE DEF r
  <2> QED BY <1>a, <2>2, <2>3, <2>4 DEF Anchored
<1>6. CASE WalkLink(t)
  <2> DEFINE st == chain[tk.index + 1]
             r == [tk EXCEPT !.walked = Rotated(tk.walked, st),
                             !.applied = tk.applied \cup {st.to},
                             !.index = tk.index + 1]
  <2>1. /\ tk \in Task /\ Descends(tk) /\ tk.step = "walk"
        /\ tk.index \in Nat /\ tk.walked \in Pin /\ tk.walked # NoPin
    BY <1>0, <1>6 DEF WalkLink, Task, StepOK
  <2>2. st \in statements /\ st.from = tk.walked.trustRoot
    BY <1>6, <2>1, ConstantsAssumption
    DEF WalkLink, LinkApplies, LinkServed, RotationAccepted, ChainSigned,
        Typed, TypeOK
  <2>3. Trusted(st.to)
    BY <2>1, <2>2, TrustFollowsRotation DEF Descends
  <2>4. Rotated(tk.walked, st).trustRoot = st.to
    BY <2>1 DEF Rotated, Pin
  <2>5. r.walked = Rotated(tk.walked, st) /\ r.pin = tk.pin /\ r.step = "walk"
    BY <2>1 DEF Task
  <2>6. tk.pin # NoPin => Trusted(tk.pin.trustRoot)
    BY <2>1 DEF Descends, Adopting
  <2>7. Update(t, r) /\ UNCHANGED <<pin, anchors, statements>>
    BY <1>6 DEF WalkLink, Update
  <2>8. Good(r)
    BY <2>3, <2>4, <2>5, <2>6 DEF Anchored
  <2> HIDE DEF r, st
  <2> QED BY <1>a, <2>7, <2>8
<1>7. CASE WalkRefused(t)
  BY <1>7, GotoDescends DEF WalkRefused, Steps, Adopting
<1>8. CASE WalkEnds(t)
  <2>1. CASE tk.applied = {}
    BY <1>8, <2>1, GotoDescends DEF WalkEnds, Steps, Adopting
  <2>2. CASE tk.applied # {}
    <3> DEFINE r == [tk EXCEPT !.step = "writeRotation", !.pin = tk.walked]
    <3>1. Update(t, r) /\ UNCHANGED <<pin, anchors, statements>>
      BY <1>8, <2>2 DEF WalkEnds
    <3>2. r.walked = tk.walked /\ r.pin = tk.walked
      BY <1>0, <1>8 DEF WalkEnds, Task
    <3>3. tk.walked # NoPin => Trusted(tk.walked.trustRoot)
      BY <1>0, <1>8 DEF WalkEnds, Descends
    <3> HIDE DEF r
    <3> QED BY <1>a, <3>1, <3>2, <3>3 DEF Anchored
  <2> QED BY <2>1, <2>2
<1>9. CASE WriteRotation(t)
  <2> DEFINE r == [tk EXCEPT !.base = tk.pin, !.step = "verify"]
  <2>1. /\ tk \in Task /\ tk.step = "writeRotation" /\ Descends(tk)
        /\ Update(t, r) /\ pin' = tk.pin /\ Growing
    BY <1>0, <1>9 DEF WriteRotation, Growing
  <2>2. r.walked = tk.walked /\ r.pin = tk.pin
    BY <2>1 DEF Task
  <2>3. Good(tk) /\ Good(r)
    BY <2>1, <2>2 DEF Descends, Anchored, Adopting
  <2>4. tk.pin # NoPin => Anchored(tk.pin.trustRoot)
    BY <2>1, <2>3 DEF Adopting
  <2> HIDE DEF r
  <2>5. TasksDescend'
    BY <2>1, <2>3, UpdateDescends
  <2> QED BY <2>1, <2>4, <2>5, PinStaysDescended
<1>10. CASE RefuseManifest(t)
  BY <1>10, FinishDescends DEF RefuseManifest
<1>11. CASE AcceptManifest(t)
  <2> DEFINE m == tk.manifest
             p == tk.pin
             transition == PinTransition(p, m)
             newPin == CASE transition = "adopt" -> Adopted(RootOf(t), m)
                         [] transition = "advance" ->
                              [p EXCEPT !.version = m.version,
                                        !.trustRoot = RootOf(t)]
                         [] OTHER -> p
             s == IF transition # "unchanged" THEN "writePin"
                  ELSE IF tk.fromCache THEN "commit" ELSE "saveManifest"
             r == [tk EXCEPT !.verdict = Judgement(t), !.pin = newPin,
                             !.step = s]
  <2>1. /\ tk \in Task /\ tk.step = "verify" /\ Descends(tk) /\ StepOK(tk)
        /\ Update(t, r) /\ UNCHANGED <<pin, anchors, statements>>
    BY <1>0, <1>11 DEF AcceptManifest
  <2>2. r.walked = tk.walked /\ r.pin = newPin /\ r.step = s
    BY <2>1 DEF Task
  <2>3. CASE p = NoPin
    <3>1. s = "writePin"
      BY <2>3 DEF PinTransition
    <3>2. tk.walked = NoPin
      BY <2>1, <2>3 DEF StepOK
    <3> QED BY <1>a, <2>1, <2>2, <3>1, <3>2 DEF Adopting
  <2>4. CASE p # NoPin
    <3>1. p \in Pin /\ RootOf(t) = p.trustRoot
      BY <2>1, <2>4 DEF Task, RootOf
    <3>2. \/ newPin = p
          \/ newPin = [p EXCEPT !.version = m.version, !.trustRoot = RootOf(t)]
      BY <2>4 DEF PinTransition
    <3>3. newPin.trustRoot = p.trustRoot
      BY <3>1, <3>2 DEF Pin
    <3>4. Good(r)
      BY <2>1, <2>2, <2>4, <3>3 DEF Descends, Adopting, Anchored
    <3> HIDE DEF r
    <3> QED BY <1>a, <2>1, <3>4
  <2> QED BY <2>3, <2>4
<1>12. CASE WritePin(t)
  <2> DEFINE s == IF tk.fromCache THEN "commit" ELSE "saveManifest"
             r == [tk EXCEPT !.base = tk.pin, !.step = s]
  <2>1. /\ tk \in Task /\ Descends(tk) /\ StepOK(tk) /\ tk.step = "writePin"
        /\ Update(t, r) /\ pin' = tk.pin /\ Growing
        /\ tk.walked = NoPin => tk.pin.trustRoot \in anchors'
    BY <1>0, <1>12 DEF WritePin, Growing
  <2>2. r.walked = tk.walked /\ r.pin = tk.pin
    BY <2>1 DEF Task
  <2>3. Anchored(tk.pin.trustRoot)
    BY <2>1 DEF Descends, Adopting, Anchored, StepOK
  <2>4. Good(r)
    BY <2>1, <2>2, <2>3 DEF Descends
  <2> HIDE DEF r
  <2>5. TasksDescend'
    BY <2>1, <2>4, UpdateDescends
  <2> QED BY <2>1, <2>3, <2>5, PinStaysDescended
<1>13. CASE WriteFails(t)
  BY <1>13, FinishDescends DEF WriteFails
<1>14. CASE SaveManifest(t)
  BY <1>14, GotoDescends DEF SaveManifest, Steps, Adopting
<1>15. CASE SaveSig(t)
  BY <1>15, GotoDescends DEF SaveSig, Steps, Adopting
<1>16. CASE SaveFails(t)
  BY <1>16, GotoDescends DEF SaveFails, Steps, Adopting
<1>17. CASE Commit(t)
  BY <1>17, FinishDescends DEF Commit
<1> QED BY <1>1, <1>2, <1>3, <1>4, <1>5, <1>6, <1>7, <1>8, <1>9, <1>10,
           <1>11, <1>12, <1>13, <1>14, <1>15, <1>16, <1>17 DEF Refresh

\* Every step keeps the descent of the pin and of the tasks.
LEMMA NextDescends == ASSUME IInv, [Next]_vars PROVE IInv'
<1> USE DEF IInv
<1>0. Typed'
  BY NextTyped
<1>1. CASE Tick
  BY <1>0, <1>1, DescentFramed DEF Tick, ChainSigned, Growing
<1>2. CASE Publish
  <2>1. /\ UNCHANGED <<pin, task, anchors>> /\ Growing
        /\ ChainSigned'
    <3>1. ASSUME NEW to \in Roots, PublishRotation(to)
          PROVE  /\ UNCHANGED <<pin, task, anchors>> /\ Growing
                 /\ ChainSigned'
      <4> DEFINE st == [from |-> Tip, to |-> to, version |-> clock]
      <4>1. /\ UNCHANGED <<pin, task, anchors>>
            /\ chain' = Append(chain, st) \/ chain' = <<st>>
            /\ statements' = statements \cup {st}
        BY <3>1 DEF PublishRotation
      <4>2. chain \in Seq(Statement)
        BY DEF Typed, TypeOK
      <4> HIDE DEF st
      <4> QED BY <4>1, <4>2 DEF Growing, ChainSigned
    <3>2. CASE \/ SignRelease \/ SwitchRoot \/ Corrupt
               \/ \E m \in signed : Redeploy(m)
               \/ \E file \in {"manifest", "sig"} : Upload(file)
      BY <3>2 DEF SignRelease, SwitchRoot, Redeploy, Corrupt, Upload, Growing,
                  ChainSigned
    <3> QED BY <1>2, <3>1, <3>2 DEF Publish
  <2> QED BY <1>0, <2>1, DescentFramed
<1>3. CASE Evict
  BY <1>0, <1>3, DescentFramed DEF Evict, ChainSigned, Growing
<1>4. ASSUME NEW w \in Workers, Restart(w) PROVE IInv'
  BY <1>0, <1>4, DescentFramed DEF Restart, ChainSigned, Growing
<1>5. ASSUME NEW w \in Workers, NEW t \in Tasks,
             StartRefresh(w, t) \/ EnsureReady(w, t)
      PROVE  IInv'
  <2> DEFINE tk == NewTask(w)
  <2>1. Update(t, tk) /\ Growing /\ UNCHANGED <<pin, anchors, chain, statements>>
    BY <1>5 DEF StartRefresh, EnsureReady, Start, Growing
  <2>2. tk.pin = NoPin /\ tk.walked = NoPin
    BY DEF NewTask
  <2> HIDE DEF tk
  <2>3. TasksDescend'
    BY <2>1, <2>2, UpdateDescends
  <2>4. PinDescendsFromAnchor' /\ ChainSigned'
    BY <2>1 DEF PinDescendsFromAnchor, Trusted, ClosedUnderRotation, ChainSigned
  <2> QED BY <1>0, <2>3, <2>4
<1>6. ASSUME NEW t \in Tasks,
             Refresh(t) \/ FetchFails(t) \/ WriteFails(t) \/ SaveFails(t)
      PROVE  IInv'
  <2>1. UNCHANGED <<chain, statements>>
    BY <1>6 DEF Refresh, Fetch, FetchFails, LoadControl, Unreachable, ReadPin,
       WalkLink, WalkRefused, WalkEnds, WriteRotation, RefuseManifest,
       AcceptManifest, WritePin, WriteFails, SaveManifest, SaveSig, SaveFails,
       Commit
  <2> QED BY <1>0, <1>6, <2>1, RefreshDescends DEF ChainSigned
<1>7. CASE UNCHANGED vars
  BY <1>0, <1>7, DescentFramed DEF vars, ChainSigned, Growing
<1> QED BY <1>1, <1>2, <1>3, <1>4, <1>5, <1>6, <1>7 DEF Next

LEMMA InitDescends == Init => IInv
  BY InitTyped, ConstantsAssumption
  DEF Init, IInv, Typed, StepInv, ChainSigned, PinDescendsFromAnchor,
      TasksDescend

\* Wherever refreshes are cut short, interleave, fail to write or fail to read
\* the pin, and whatever the origin serves: the pinned root was adopted on
\* first use, or signed rotation statements lead to it from one that was.
THEOREM PinnedRootDescends == Spec => []PinDescendsFromAnchor
<1>1. IInv /\ [Next]_vars => IInv'
  BY NextDescends
<1>2. IInv => PinDescendsFromAnchor
  BY DEF IInv
<1> QED BY InitDescends, <1>1, <1>2, PTL DEF Spec

----------------------------------------------------------------------------
(* What is served, and what serving may rely on.                           *)

\* From here on a refresh has accepted its manifest.
Accepted == {"writePin", "saveManifest", "saveSig", "commit"}
Usable   == {"VALID", "EXPIRED"}

\* A pin names the root it holds: the id and the copy are never of two roots.
Whole(p) == p # NoPin => p.trustRootId = p.trustRoot

\* A signature bundle is of a signed release wherever it came from; a manifest
\* need not be, until the refresh has compared the two.
TaskSigned(tk) ==
    /\ tk.sig \in signed \cup {NoManifest}
    /\ tk.step \in Accepted => /\ tk.manifest \in signed /\ tk.verdict \in Usable
                              /\ tk.manifest.root = tk.pin.trustRoot
    /\ Whole(tk.pin) /\ Whole(tk.walked)

TasksSigned == \A t \in Tasks : task[t] # NoTask => TaskSigned(task[t])

\* Two files of one release, or none, or torn: the signatures are genuine.
FilesSigned ==
    /\ origin.release \in signed /\ origin.sig \in signed
    /\ mirror.sig \in signed \cup {NoManifest}

\* What is in memory was signed, and its verdict allows using it.
SignedMemory ==
    \A w \in Workers : memory[w].manifest # NoManifest =>
        memory[w].manifest \in signed /\ memory[w].state \in Usable

SignedInv == Typed /\ FilesSigned /\ Whole(pin) /\ TasksSigned /\ SignedMemory

\* A manifest that is not refused is the one its bundle signs, its root is the
\* one verified against, and pinTransition has nothing to add.
LEMMA AcceptedIsSigned ==
    ASSUME SignedInv, NEW t \in Tasks, At(t, {"verify"}),
           ~IsHardFailure(VerifyManifest(task[t].manifest, task[t].sig, RootOf(t),
                                         PinnedVersion(t)))
    PROVE  LET m == task[t].manifest
               p == task[t].pin
           IN  /\ m \in signed /\ m.root = RootOf(t)
               /\ PinTransition(p, m) \in {"adopt", "advance", "unchanged"}
               /\ Judgement(t) \in Usable
               /\ p # NoPin => p.trustRootId = m.root
<1> DEFINE m == task[t].manifest
           p == task[t].pin
           v == VerifyManifest(m, task[t].sig, RootOf(t), PinnedVersion(t))
<1>1. /\ task[t] \in Task /\ StepOK(task[t]) /\ TaskSigned(task[t])
      /\ task[t].step = "verify"
  BY TaskTyped DEF At, SignedInv, Typed, StepInv, TasksSigned
<1>2. /\ m = task[t].sig /\ task[t].sig.root = RootOf(t)
      /\ ~(m.version < PinnedVersion(t)) /\ v \in Usable
  BY DEF VerifyManifest, IsHardFailure, HardStates, Usable
<1>3. m \in signed /\ m \in Manifest
  BY <1>1, <1>2 DEF StepOK, TaskSigned, SignedInv, Typed, TypeOK
<1>4. p # NoPin => /\ p \in Pin /\ RootOf(t) = p.trustRoot
                   /\ p.trustRootId = p.trustRoot /\ PinnedVersion(t) = p.version
  BY <1>1 DEF Task, RootOf, PinnedVersion, TaskSigned, Whole
<1>5. PinTransition(p, m) \in {"adopt", "advance", "unchanged"}
  BY <1>2, <1>3, <1>4 DEF PinTransition, Manifest, Pin, Version
<1>6. Judgement(t) = v
  BY <1>5 DEF Judgement, IsHardFailure
<1> QED BY <1>2, <1>3, <1>4, <1>5, <1>6

\* A refusal by pinTransition would be a hard failure of Judgement.
LEMMA JudgedIsVerified ==
    ASSUME NEW t, ~IsHardFailure(Judgement(t))
    PROVE  ~IsHardFailure(VerifyManifest(task[t].manifest, task[t].sig, RootOf(t),
                                         PinnedVersion(t)))
  BY DEF Judgement

\* Replacing one task's record by a good one, and a worker's memory by what was
\* signed, keeps the rest.
LEMMA TaskReplaced ==
    ASSUME SignedInv, NEW t \in Tasks, NEW r, task' = [task EXCEPT ![t] = r],
           r # NoTask => TaskSigned(r), UNCHANGED signed
    PROVE  TasksSigned'
  BY DEF SignedInv, Typed, TypeOK, TasksSigned, TaskSigned, Whole

LEMMA MemoryReplaced ==
    ASSUME SignedInv, NEW w \in Workers, NEW mem,
           memory' = [memory EXCEPT ![w] = mem], UNCHANGED signed,
           mem.manifest # NoManifest => mem.manifest \in signed /\ mem.state \in Usable
    PROVE  SignedMemory'
  BY DEF SignedInv, Typed, TypeOK, SignedMemory, Usable

\* A step of a refresh that touches nothing of the publisher or of memory.
LEMMA QuietStep ==
    ASSUME SignedInv, Typed', NEW t \in Tasks, NEW r, Update(t, r),
           r # NoTask => TaskSigned(r), Whole(pin'),
           mirror'.sig \in signed \cup {NoManifest},
           UNCHANGED <<origin, signed, memory>>
    PROVE  SignedInv'
<1>1. TasksSigned'
  BY TaskReplaced DEF Update
<1> QED BY <1>1 DEF SignedInv, FilesSigned, SignedMemory, Whole

LEMMA GotoSigned ==
    ASSUME SignedInv, Typed', NEW t \in Tasks, task[t] # NoTask, NEW s \in Steps,
           Goto(t, s), s \in Accepted => task[t].step \in Accepted,
           Whole(pin'), mirror'.sig \in signed \cup {NoManifest},
           UNCHANGED <<origin, signed, memory>>
    PROVE  SignedInv'
<1> DEFINE r == [task[t] EXCEPT !.step = s]
<1>1. task[t] \in Task /\ TaskSigned(task[t])
  BY TaskTyped DEF SignedInv, Typed, TasksSigned
<1>2. TaskSigned(r)
  BY <1>1 DEF Task, TaskSigned
<1>3. Update(t, r)
  BY DEF Goto
<1> HIDE DEF r
<1> QED BY <1>2, <1>3, QuietStep

\* A refresh ends.
LEMMA FinishSigned ==
    ASSUME SignedInv, Typed', NEW t \in Tasks, Finish(t), SignedMemory',
           UNCHANGED <<origin, signed, pin, mirror>>
    PROVE  SignedInv'
<1>1. TasksSigned'
  BY TaskReplaced DEF Finish, Update
<1> QED BY <1>1 DEF SignedInv, FilesSigned, Whole

LEMMA RefreshSigned ==
    ASSUME SignedInv, Typed', NEW t \in Tasks,
           Refresh(t) \/ FetchFails(t) \/ WriteFails(t) \/ SaveFails(t)
    PROVE  SignedInv'
<1> DEFINE tk == task[t]
<1> USE DEF At
<1>0. /\ tk # NoTask => tk \in Task /\ StepOK(tk) /\ TaskSigned(tk)
      /\ Whole(pin) /\ FilesSigned /\ mirror.sig \in signed \cup {NoManifest}
  BY TaskTyped DEF SignedInv, Typed, StepInv, TasksSigned, FilesSigned
<1>1. ASSUME NEW file \in {"manifest", "sig"}, Fetch(t, file) PROVE SignedInv'
  <2> DEFINE r == [tk EXCEPT
               ![file] = origin[file],
               !.step = IF tk.manifest = NoManifest /\ tk.sig = NoManifest
                        THEN "fetch" ELSE "readPin"]
  <2>1. Update(t, r) /\ UNCHANGED <<origin, signed, memory, pin, mirror>>
    BY <1>1 DEF Fetch
  <2>2. tk \in Task /\ TaskSigned(tk) /\ tk.pin = NoPin /\ tk.walked = NoPin
    BY <1>0, <1>1 DEF Fetch, StepOK
  <2>3. TaskSigned(r)
    <3>1. CASE file = "manifest"
      BY <2>2, <3>1 DEF Task, TaskSigned, Whole, Accepted
    <3>2. CASE file = "sig"
      BY <1>0, <2>2, <3>2 DEF Task, TaskSigned, Whole, Accepted, FilesSigned
    <3> QED BY <3>1, <3>2
  <2> HIDE DEF r
  <2> QED BY <1>0, <2>1, <2>3, QuietStep
<1>2. CASE FetchFails(t)
  <2> DEFINE r == [tk EXCEPT !.step = "mirror", !.manifest = NoManifest,
                             !.sig = NoManifest]
  <2>1. Update(t, r) /\ UNCHANGED <<origin, signed, memory, pin, mirror>>
    BY <1>2 DEF FetchFails
  <2>2. TaskSigned(r)
    BY <1>0, <1>2 DEF FetchFails, Task, TaskSigned, Accepted
  <2> HIDE DEF r
  <2> QED BY <1>0, <2>1, <2>2, QuietStep
<1>3. ASSUME NEW file \in {"manifest", "sig"}, LoadControl(t, file) PROVE SignedInv'
  <2> DEFINE r == [tk EXCEPT
               ![file] = mirror[file], !.fromCache = TRUE,
               !.step = IF tk.manifest = NoManifest /\ tk.sig = NoManifest
                        THEN "mirror" ELSE "readPin"]
  <2>1. Update(t, r) /\ UNCHANGED <<origin, signed, memory, pin, mirror>>
    BY <1>3 DEF LoadControl
  <2>2. tk \in Task /\ TaskSigned(tk) /\ tk.pin = NoPin /\ tk.walked = NoPin
    BY <1>0, <1>3 DEF LoadControl, StepOK
  <2>3. TaskSigned(r)
    <3>1. CASE file = "manifest"
      BY <2>2, <3>1 DEF Task, TaskSigned, Whole, Accepted
    <3>2. CASE file = "sig"
      BY <1>0, <2>2, <3>2 DEF Task, TaskSigned, Whole, Accepted
    <3> QED BY <3>1, <3>2
  <2> HIDE DEF r
  <2> QED BY <1>0, <2>1, <2>3, QuietStep
<1>4. CASE Unreachable(t)
  <2>1. SignedMemory'
    <3> DEFINE w == tk.worker
               s == IF memory[w].manifest # NoManifest THEN memory[w].state
                    ELSE "NETWORK_FAIL"
    <3>1. w \in Workers /\ memory' = [memory EXCEPT ![w].state = s]
      BY <1>0, <1>4 DEF Unreachable, Task
    <3> QED BY <1>4, <3>1 DEF SignedInv, Typed, TypeOK, SignedMemory, Unreachable
  <2> QED BY <1>4, <2>1, FinishSigned DEF Unreachable
<1>5. CASE ReadPin(t)
  <2>1. PICK p \in {pin, NoPin} :
          Update(t, [tk EXCEPT !.pin = p, !.walked = p, !.base = p,
            !.step = IF p # NoPin /\ p.trustRootId # Baked[tk.worker]
                     THEN "walk" ELSE "verify"])
    BY <1>5 DEF ReadPin
  <2> DEFINE s == IF p # NoPin /\ p.trustRootId # Baked[tk.worker]
                  THEN "walk" ELSE "verify"
             r == [tk EXCEPT !.pin = p, !.walked = p, !.base = p, !.step = s]
  <2>2. tk \in Task /\ TaskSigned(tk) /\ Whole(p)
    BY <1>0, <1>5 DEF ReadPin, Whole
  <2>3. s \notin Accepted
    BY DEF Accepted
  <2>5. Update(t, r) /\ UNCHANGED <<origin, signed, memory, pin, mirror>>
    BY <1>5, <2>1 DEF ReadPin
  <2> HIDE DEF s
  <2>4. TaskSigned(r)
    BY <2>2, <2>3 DEF Task, TaskSigned
  <2> HIDE DEF r
  <2> QED BY <1>0, <2>4, <2>5, QuietStep
<1>6. CASE WalkLink(t)
  <2> DEFINE st == chain[tk.index + 1]
             moved == Rotated(tk.walked, st)
             r == [tk EXCEPT !.walked = moved, !.index = tk.index + 1,
                             !.applied = tk.applied \cup {st.to}]
  <2>1. /\ tk \in Task /\ TaskSigned(tk) /\ tk.step = "walk" /\ tk.walked \in Pin
        /\ Update(t, r) /\ UNCHANGED <<origin, signed, memory, pin, mirror>>
    BY <1>0, <1>6 DEF WalkLink, Task, StepOK, Update
  <2>2. Whole(moved)
    BY <2>1 DEF Whole, Rotated, Pin
  <2> HIDE DEF moved, st
  <2>3. TaskSigned(r)
    BY <2>1, <2>2 DEF Task, TaskSigned
  <2> HIDE DEF r
  <2> QED BY <1>0, <2>1, <2>3, QuietStep
<1>7. CASE WalkRefused(t)
  BY <1>0, <1>7, GotoSigned DEF WalkRefused, Steps, Accepted
<1>8. CASE WalkEnds(t)
  <2>1. CASE tk.applied = {}
    BY <1>0, <1>8, <2>1, GotoSigned DEF WalkEnds, Steps, Accepted
  <2>2. CASE tk.applied # {}
    <3> DEFINE r == [tk EXCEPT !.step = "writeRotation", !.pin = tk.walked]
    <3>1. Update(t, r) /\ UNCHANGED <<origin, signed, memory, pin, mirror>>
      BY <1>8, <2>2 DEF WalkEnds
    <3>2. TaskSigned(r)
      BY <1>0, <1>8 DEF WalkEnds, Task, TaskSigned, Accepted
    <3> HIDE DEF r
    <3> QED BY <1>0, <3>1, <3>2, QuietStep
  <2> QED BY <2>1, <2>2
<1>9. CASE WriteRotation(t)
  <2> DEFINE r == [tk EXCEPT !.base = tk.pin, !.step = "verify"]
  <2>1. Whole(pin') /\ Update(t, r) /\ UNCHANGED <<origin, signed, memory, mirror>>
    BY <1>0, <1>9 DEF WriteRotation, TaskSigned
  <2>2. TaskSigned(r)
    BY <1>0, <1>9 DEF WriteRotation, Task, TaskSigned, Accepted
  <2> HIDE DEF r
  <2> QED BY <1>0, <2>1, <2>2, QuietStep
<1>10. CASE RefuseManifest(t)
  <2>1. SignedMemory'
    BY <1>0, <1>10, MemoryReplaced DEF RefuseManifest, Task
  <2> QED BY <1>10, <2>1, FinishSigned DEF RefuseManifest
<1>11. CASE AcceptManifest(t)
  <2> DEFINE m == tk.manifest
             p == tk.pin
             transition == PinTransition(p, m)
             newPin == CASE transition = "adopt" -> Adopted(RootOf(t), m)
                         [] transition = "advance" ->
                              [p EXCEPT !.version = m.version,
                                        !.trustRoot = RootOf(t)]
                         [] OTHER -> p
             s == IF transition # "unchanged" THEN "writePin"
                  ELSE IF tk.fromCache THEN "commit" ELSE "saveManifest"
             r == [tk EXCEPT !.verdict = Judgement(t), !.pin = newPin,
                             !.step = s]
  <2>1. /\ tk \in Task /\ TaskSigned(tk) /\ tk.step = "verify" /\ Update(t, r)
        /\ UNCHANGED <<origin, signed, memory, pin, mirror>>
    BY <1>0, <1>11 DEF AcceptManifest
  <2>2. /\ m \in signed /\ m.root = RootOf(t) /\ Judgement(t) \in Usable
        /\ p # NoPin => p.trustRootId = m.root
    BY <1>11, JudgedIsVerified, AcceptedIsSigned DEF AcceptManifest
  <2>3. Whole(newPin) /\ m.root = newPin.trustRoot
    <3>1. CASE p = NoPin
      <4>1. newPin = Adopted(RootOf(t), m)
        BY <3>1 DEF PinTransition
      <4>2. /\ Whole(Adopted(RootOf(t), m))
            /\ Adopted(RootOf(t), m).trustRoot = m.root
        BY <2>2 DEF Adopted, Whole
      <4> HIDE DEF newPin
      <4> QED BY <4>1, <4>2
    <3>2. CASE p # NoPin
      <4>1. \/ newPin = p
            \/ newPin = [p EXCEPT !.version = m.version, !.trustRoot = RootOf(t)]
        BY <3>2 DEF PinTransition
      <4>2. p \in Pin /\ Whole(p)
        BY <2>1, <3>2 DEF Task, TaskSigned
      <4> QED BY <2>2, <3>2, <4>1, <4>2 DEF Whole, Pin
    <3> QED BY <3>1, <3>2
  <2> HIDE DEF newPin, transition
  <2>4. TaskSigned(r)
    BY <2>1, <2>2, <2>3 DEF Task, TaskSigned
  <2> HIDE DEF r
  <2> QED BY <1>0, <2>1, <2>4, QuietStep
<1>12. CASE WritePin(t)
  <2> DEFINE s == IF tk.fromCache THEN "commit" ELSE "saveManifest"
             r == [tk EXCEPT !.base = tk.pin, !.step = s]
  <2>1. Whole(pin') /\ Update(t, r) /\ UNCHANGED <<origin, signed, memory, mirror>>
    BY <1>0, <1>12 DEF WritePin, TaskSigned
  <2>2. TaskSigned(r)
    BY <1>0, <1>12 DEF WritePin, Task, TaskSigned, Accepted
  <2> HIDE DEF r
  <2> QED BY <1>0, <2>1, <2>2, QuietStep
<1>13. CASE WriteFails(t)
  BY <1>13, FinishSigned DEF WriteFails, SignedInv, SignedMemory
<1>14. CASE SaveManifest(t)
  <2>1. mirror'.sig = mirror.sig
    BY <1>14 DEF SaveManifest, SignedInv, Typed, TypeOK
  <2> QED BY <1>0, <1>14, <2>1, GotoSigned DEF SaveManifest, Steps, Accepted
<1>15. CASE SaveSig(t)
  <2>1. mirror'.sig \in signed \cup {NoManifest}
    BY <1>0, <1>15 DEF SaveSig, SignedInv, Typed, TypeOK, TaskSigned
  <2> QED BY <1>0, <1>15, <2>1, GotoSigned DEF SaveSig, Steps, Accepted
<1>16. CASE SaveFails(t)
  BY <1>0, <1>16, GotoSigned DEF SaveFails, Steps, Accepted
<1>17. CASE Commit(t)
  <2>1. SignedMemory'
    BY <1>0, <1>17, MemoryReplaced DEF Commit, Task, TaskSigned, Accepted
  <2> QED BY <1>17, <2>1, FinishSigned DEF Commit
<1> QED BY <1>1, <1>2, <1>3, <1>4, <1>5, <1>6, <1>7, <1>8, <1>9, <1>10,
           <1>11, <1>12, <1>13, <1>14, <1>15, <1>16, <1>17 DEF Refresh

LEMMA NextSigned == ASSUME SignedInv, [Next]_vars PROVE SignedInv'
<1>0. Typed'
  BY NextTyped DEF SignedInv
<1>1. CASE Tick \/ UNCHANGED vars
  BY <1>0, <1>1 DEF Tick, vars, SignedInv, FilesSigned, Whole, TasksSigned,
                    TaskSigned, SignedMemory
<1>2. CASE Publish
  <2>1. /\ UNCHANGED <<pin, mirror, task, memory>> /\ signed \subseteq signed'
        /\ FilesSigned'
    <3>1. CASE SignRelease
      BY <3>1 DEF SignRelease, SignedInv, Typed, TypeOK, FilesSigned
    <3>2. CASE \E m \in signed : Redeploy(m)
      BY <3>2 DEF Redeploy, SignedInv, Typed, TypeOK, FilesSigned
    <3>3. CASE Corrupt
      BY <3>3 DEF Corrupt, SignedInv, Typed, TypeOK, FilesSigned
    <3>4. CASE \E file \in {"manifest", "sig"} : Upload(file)
      BY <3>4 DEF Upload, SignedInv, Typed, TypeOK, FilesSigned
    <3>5. CASE SwitchRoot \/ \E to \in Roots : PublishRotation(to)
      BY <3>5 DEF SwitchRoot, PublishRotation, SignedInv, FilesSigned
    <3> QED BY <1>2, <3>1, <3>2, <3>3, <3>4, <3>5 DEF Publish
  <2> QED BY <1>0, <2>1 DEF SignedInv, Whole, TasksSigned, TaskSigned,
                            SignedMemory
<1>3. CASE Evict
  BY <1>0, <1>3 DEF Evict, EmptyMirror, SignedInv, FilesSigned, Whole, TasksSigned,
                    TaskSigned, SignedMemory
<1>4. ASSUME NEW w \in Workers, Restart(w) PROVE SignedInv'
  <2>1. SignedMemory'
    BY <1>4, MemoryReplaced DEF Restart, ColdMemory
  <2>2. TasksSigned'
    BY <1>4 DEF Restart, SignedInv, TasksSigned, TaskSigned, Whole
  <2> QED BY <1>0, <1>4, <2>1, <2>2 DEF Restart, SignedInv, FilesSigned, Whole
<1>5. ASSUME NEW w \in Workers, NEW t \in Tasks,
             StartRefresh(w, t) \/ EnsureReady(w, t)
      PROVE  SignedInv'
  <2>1. /\ Update(t, NewTask(w)) /\ UNCHANGED <<origin, signed, memory, pin, mirror>>
        /\ TaskSigned(NewTask(w))
    BY <1>5 DEF StartRefresh, EnsureReady, Start, NewTask, TaskSigned, Whole, Accepted
  <2> QED BY <1>0, <2>1, QuietStep DEF SignedInv, FilesSigned
<1>6. ASSUME NEW t \in Tasks,
             Refresh(t) \/ FetchFails(t) \/ WriteFails(t) \/ SaveFails(t)
      PROVE  SignedInv'
  BY <1>0, <1>6, RefreshSigned
<1> QED BY <1>1, <1>2, <1>3, <1>4, <1>5, <1>6 DEF Next

LEMMA InitSigned == Init => SignedInv
  BY InitTyped DEF Init, SignedInv, Typed, StepInv, FilesSigned, EmptyMirror, Whole,
     TasksSigned, SignedMemory, ColdMemory

LEMMA SignedInvariant == Spec => []SignedInv
  BY InitSigned, NextSigned, PTL DEF Spec

\* The history of anchors and of signed statements is never rewritten.
LEMMA NextGrows == ASSUME [Next]_vars PROVE Growing
<1>1. Tick \/ Publish \/ Evict \/ UNCHANGED vars => Growing
  BY DEF Growing, Tick, Publish, SignRelease, SwitchRoot, Redeploy, Corrupt, Upload,
         PublishRotation, Evict, vars
<1>2. ASSUME NEW w \in Workers,
             Restart(w) \/ \E t \in Tasks : StartRefresh(w, t) \/ EnsureReady(w, t)
      PROVE  Growing
  BY <1>2 DEF Growing, Restart, StartRefresh, EnsureReady
<1>3. ASSUME NEW t \in Tasks,
             Refresh(t) \/ FetchFails(t) \/ WriteFails(t) \/ SaveFails(t)
      PROVE  Growing
  BY <1>3 DEF Growing, Refresh, Fetch, FetchFails, LoadControl, Unreachable, ReadPin,
     WalkLink, WalkRefused, WalkEnds, WriteRotation, RefuseManifest, AcceptManifest,
     WritePin, WriteFails, SaveManifest, SaveSig, SaveFails, Commit
<1> QED BY <1>1, <1>2, <1>3 DEF Next

\* The root of what is in memory is an adopted one, or statements lead to it.
TrustedMemory ==
    \A w \in Workers : memory[w].manifest # NoManifest => Trusted(memory[w].manifest.root)

\* A manifest gets into memory by a commit only.
LEMMA MemoryIsCommitted ==
    ASSUME Typed, [Next]_vars, NEW w \in Workers, memory'[w].manifest # NoManifest
    PROVE  \/ memory'[w].manifest = memory[w].manifest
           \/ \E t \in Tasks : Commit(t) /\ memory'[w].manifest = task[t].manifest
<1> DEFINE Goal == \/ memory'[w].manifest = memory[w].manifest
                   \/ \E t \in Tasks : Commit(t) /\ memory'[w].manifest = task[t].manifest
<1>0. memory \in [Workers -> [state: HardStates \cup SoftStates, manifest: File]]
  BY DEF Typed, TypeOK
<1>1. CASE UNCHANGED memory
  BY <1>1
<1>2. ASSUME NEW v \in Workers, Restart(v) PROVE Goal
  BY <1>0, <1>2 DEF Restart, ColdMemory
<1>3. ASSUME NEW t \in Tasks, Unreachable(t) PROVE Goal
  BY <1>0, <1>3 DEF Unreachable
<1>4. ASSUME NEW t \in Tasks, RefuseManifest(t) PROVE Goal
  BY <1>0, <1>4 DEF RefuseManifest
<1>5. ASSUME NEW t \in Tasks, Commit(t) PROVE Goal
  BY <1>0, <1>5 DEF Commit
<1> QED
  BY <1>1, <1>2, <1>3, <1>4, <1>5
  DEF Next, vars, Tick, Publish, SignRelease, SwitchRoot, Redeploy, Corrupt, Upload,
      PublishRotation, Evict, StartRefresh, EnsureReady, Refresh, Fetch, FetchFails,
      LoadControl, ReadPin, WalkLink, WalkRefused, WalkEnds, WriteRotation,
      AcceptManifest, WritePin, WriteFails, SaveManifest, SaveSig, SaveFails

LEMMA NextTrusted ==
    ASSUME IInv, SignedInv, TrustedMemory, [Next]_vars
    PROVE  TrustedMemory'
<1> SUFFICES ASSUME NEW w \in Workers, memory'[w].manifest # NoManifest
             PROVE  Trusted(memory[w].manifest.root)'
  BY DEF TrustedMemory
<1> PICK m : m = memory'[w].manifest
  OBVIOUS
<1>1. ASSUME m = memory[w].manifest PROVE Trusted(m.root)
  BY <1>1 DEF TrustedMemory
<1>2. ASSUME NEW t \in Tasks, Commit(t), m = task[t].manifest
      PROVE  Trusted(m.root)
  <2>1. /\ StepOK(task[t]) /\ TaskSigned(task[t]) /\ Descends(task[t])
        /\ task[t].step = "commit"
    BY <1>2 DEF Commit, At, IInv, Typed, StepInv, SignedInv, TasksSigned, TasksDescend
  <2> QED BY <1>2, <2>1 DEF StepOK, TaskSigned, Accepted, Descends, Adopting
<1>3. Trusted(m.root)
  BY <1>1, <1>2, MemoryIsCommitted DEF IInv, TrustedMemory
<1>4. Trusted(m.root)'
  BY <1>3, NextGrows, TrustGrows
<1> QED BY <1>4 DEF Trusted, ClosedUnderRotation

\* ServesOnlySigned: torn uploads, corrupted files, torn mirrors and refreshes that
\* overwrite each other's mirror and pin never get into memory what was not signed as
\* a whole, or was signed under a root the worker has no reason to trust.
THEOREM WorkerServesOnlySigned == Spec => []ServesOnlySigned
<1> DEFINE Inv == IInv /\ SignedInv /\ TrustedMemory
<1>1. Init => Inv
  BY InitDescends, InitSigned DEF Init, TrustedMemory, ColdMemory
<1>2. Inv /\ [Next]_vars => Inv'
  BY NextDescends, NextSigned, NextTrusted
<1>3. Inv => ServesOnlySigned
  BY DEF SignedInv, SignedMemory, TrustedMemory, ServesOnlySigned, Usable
<1> QED BY <1>1, <1>2, <1>3, PTL DEF Spec

\* TransitionNeverRejects: with any number of refreshes that walk, rotate and adopt
\* beside each other, a pin's id is that of the root it holds, so that what passed
\* verification is never refused by pinTransition.
THEOREM VerifiedIsNeverRejected == Spec => []TransitionNeverRejects
<1>1. SignedInv => TransitionNeverRejects
  BY AcceptedIsSigned DEF TransitionNeverRejects
<1> QED BY <1>1, SignedInvariant, PTL

----------------------------------------------------------------------------
(* The memory of one worker, and its protocol.                             *)

\* What one worker's memory may do in a step.
MemoryStep(w) == [Memory(w)!Next]_<<memory[w], signed>>

LEMMA OthersMemory ==
    ASSUME Typed, NEW v \in Workers, NEW w \in Workers, NEW mem,
           memory' = [memory EXCEPT ![v] = mem], UNCHANGED signed,
           v # w
    PROVE  MemoryStep(w)
<1>1. memory'[w] = memory[w]
  BY DEF Typed, TypeOK
<1> QED BY <1>1 DEF MemoryStep

LEMMA RefreshMemory ==
    ASSUME SignedInv, NEW w \in Workers, NEW t \in Tasks,
           Refresh(t) \/ FetchFails(t) \/ WriteFails(t) \/ SaveFails(t)
    PROVE  MemoryStep(w)
<1> DEFINE tk == task[t]
           v  == tk.worker
<1>0. /\ tk # NoTask => tk \in Task /\ TaskSigned(tk) /\ v \in Workers
      /\ Typed
  BY TaskTyped DEF SignedInv, Typed, TasksSigned, Task
<1>1. CASE UNCHANGED <<memory, signed>>
  BY <1>1 DEF MemoryStep
<1>2. CASE Unreachable(t)
  <2> DEFINE s == IF memory[v].manifest # NoManifest THEN memory[v].state
                  ELSE "NETWORK_FAIL"
  <2>1. v \in Workers /\ memory' = [memory EXCEPT ![v].state = s] /\ signed' = signed
    BY <1>0, <1>2 DEF Unreachable, At
  <2>2. CASE v = w
    <3>1. memory'[w] = [memory[w] EXCEPT !.state = s]
      BY <2>1, <2>2, <1>0 DEF Typed, TypeOK
    <3>2. Memory(w)!Unreachable
      BY <3>1, <2>1, <2>2 DEF Memory!Unreachable
    <3> QED BY <3>2 DEF MemoryStep, Memory!Next
  <2> QED BY <2>1, <2>2, <1>0, OthersMemory
<1>3. CASE RefuseManifest(t)
  <2>1. v \in Workers /\ signed' = signed /\ Judgement(t) \in HardStates
        /\ memory' = [memory EXCEPT ![v] =
                       [state |-> Judgement(t), manifest |-> NoManifest]]
    BY <1>0, <1>3 DEF RefuseManifest, At, IsHardFailure
  <2>2. CASE v = w
    <3>1. memory'[w] = [state |-> Judgement(t), manifest |-> NoManifest]
      BY <2>1, <2>2, <1>0 DEF Typed, TypeOK
    <3>2. Memory(w)!Refuse
      BY <3>1, <2>1 DEF Memory!Refuse
    <3> QED BY <3>2 DEF MemoryStep, Memory!Next
  <2> QED BY <2>1, <2>2, <1>0, OthersMemory
<1>4. CASE Commit(t)
  <2>1. v \in Workers /\ signed' = signed /\ tk.verdict \in Usable
        /\ tk.manifest \in signed
        /\ memory' = [memory EXCEPT ![v] =
                       [state |-> tk.verdict, manifest |-> tk.manifest]]
    BY <1>0, <1>4 DEF Commit, At, TaskSigned, Accepted
  <2>2. CASE v = w
    <3>1. memory'[w] = [state |-> tk.verdict, manifest |-> tk.manifest]
      BY <2>1, <2>2, <1>0 DEF Typed, TypeOK
    <3>2. Memory(w)!Accept
      BY <3>1, <2>1 DEF Memory!Accept, Usable
    <3> QED BY <3>2 DEF MemoryStep, Memory!Next
  <2> QED BY <2>1, <2>2, <1>0, OthersMemory
<1> QED
  BY <1>1, <1>2, <1>3, <1>4
  DEF Refresh, Fetch, FetchFails, LoadControl, ReadPin, WalkLink, WalkRefused,
      WalkEnds, WriteRotation, AcceptManifest, WritePin, WriteFails, SaveManifest,
      SaveSig, SaveFails

LEMMA NextMemory ==
    ASSUME SignedInv, [Next]_vars, NEW w \in Workers
    PROVE  MemoryStep(w)
<1>1. CASE UNCHANGED <<memory, signed>>
  BY <1>1 DEF MemoryStep
<1>2. CASE SignRelease
  <2>1. Memory(w)!Sign
    BY <1>2 DEF SignRelease, Memory!Sign
  <2> QED BY <2>1 DEF MemoryStep, Memory!Next
<1>3. ASSUME NEW v \in Workers, Restart(v) PROVE MemoryStep(w)
  <2>1. CASE v = w
    <3>1. Memory(w)!Restart
      BY <1>3, <2>1 DEF Restart, Memory!Restart, Memory!Cold, ColdMemory, SignedInv,
                        Typed, TypeOK
    <3> QED BY <3>1 DEF MemoryStep, Memory!Next
  <2> QED BY <1>3, <2>1, OthersMemory DEF Restart, SignedInv
<1>4. ASSUME NEW t \in Tasks,
             Refresh(t) \/ FetchFails(t) \/ WriteFails(t) \/ SaveFails(t)
      PROVE  MemoryStep(w)
  BY <1>4, RefreshMemory
<1> QED
  BY <1>1, <1>2, <1>3, <1>4
  DEF Next, vars, Tick, Publish, SwitchRoot, Redeploy, Corrupt, Upload,
      PublishRotation, Evict, StartRefresh, EnsureReady

\* MemoryProtocol: whatever refreshes do to each other, each worker's memory moves
\* only as WorkerMemory allows: it is filled from a signed manifest or keeps what it
\* has, and only a restart empties it.
THEOREM MemoryKeepsToProtocol == Spec => MemoryProtocol
<1>1. Init => \A w \in Workers : Memory(w)!Init
  BY DEF Init, Memory!Init, Memory!Cold, ColdMemory
<1>2. SignedInv /\ [Next]_vars => [\A w \in Workers : MemoryStep(w)]_vars
  BY NextMemory
<1>3. SignedInv /\ [Next]_vars =>
        [\A w \in Workers : [Memory(w)!Next]_<<memory[w], signed>>]_vars
  BY <1>2 DEF MemoryStep
<1> QED BY <1>1, <1>3, SignedInvariant, PTL DEF Spec, MemoryProtocol

----------------------------------------------------------------------------
(* What refreshes that overlap do to the stored pin.                       *)

\* n statements lead on from pin p, each from the root the one before moved to.
WalkFrom(p, links, n) ==
    /\ links[1].from = p.trustRoot
    /\ links[1].version > p.rotationVersion
    /\ \A i \in 2 .. n : /\ links[i].from = links[i - 1].to
                         /\ links[i].version > links[i - 1].version
    /\ \A i, j \in 1 .. n : i # j => links[i].to # links[j].to

\* The links a refresh has walked start from the pin it read, follow published
\* statements, and never come back to a root they have been at.
Walked(tk) ==
    \/ tk.applied = {} /\ tk.index = 0 /\ tk.walked = tk.base
    \/ /\ tk.index \in 1 .. MAX_ROTATION_CHAIN
       /\ \E links \in [1 .. tk.index -> statements] :
            /\ WalkFrom(tk.base, links, tk.index)
            /\ tk.applied = {links[i].to : i \in 1 .. tk.index}
            /\ tk.walked = Rotated(tk.base, links[tk.index])

\* What a refresh is about to write moves the pin that it read forward, whatever
\* became of the stored one since.
Founded(tk) ==
    /\ tk.step \in {"fetch", "mirror", "readPin"} => tk.index = 0 /\ tk.applied = {}
    /\ tk.step \in {"walk", "writeRotation"} => tk.base # NoPin /\ Walked(tk)
    /\ tk.step \in {"walk", "verify"} => tk.pin = tk.base
    /\ tk.step = "writeRotation" => tk.pin = tk.walked /\ tk.applied # {}
    /\ tk.step = "writePin" =>
         IF tk.base = NoPin THEN tk.pin = Adopted(tk.manifest.root, tk.manifest)
         ELSE /\ tk.pin = [tk.base EXCEPT !.version = tk.manifest.version]
              /\ tk.manifest.root = tk.base.trustRoot
              /\ tk.manifest.version > tk.base.version
    /\ tk.step \in {"saveManifest", "saveSig", "commit"} =>
         tk.base # NoPin /\ tk.manifest.version <= tk.base.version

TasksFounded == \A t \in Tasks : task[t] # NoTask => Founded(task[t])
FoundedInv   == IInv /\ SignedInv /\ TasksFounded

\* One more accepted link makes a longer walk.
LEMMA WalkExtends ==
    ASSUME TypeOK, NEW tk \in Task, tk.base # NoPin, Walked(tk),
           tk.index < MAX_ROTATION_CHAIN, NEW st \in statements,
           RotationAccepted(st, tk.walked), st.to \notin tk.applied,
           NEW r, r = [tk EXCEPT !.walked = Rotated(tk.walked, st),
                                 !.applied = tk.applied \cup {st.to},
                                 !.index = tk.index + 1]
    PROVE  Walked(r)
<1> DEFINE n == tk.index
           p == tk.base
<1>1. /\ n \in Nat /\ n + 1 \in 1 .. MAX_ROTATION_CHAIN
      /\ p \in Pin /\ st \in Statement
  BY ConstantsAssumption DEF TypeOK, Task
<1>2. /\ r.index = n + 1 /\ r.applied = tk.applied \cup {st.to}
      /\ r.walked = Rotated(tk.walked, st) /\ r.base = p
  BY DEF Task
<1>3. CASE tk.applied = {} /\ n = 0 /\ tk.walked = p
  <2> DEFINE links == [i \in 1 .. 1 |-> st]
  <2>1. links \in [1 .. 1 -> statements] /\ links[1] = st
    OBVIOUS
  <2>2. WalkFrom(p, links, 1)
    BY <1>3, <2>1 DEF WalkFrom, RotationAccepted
  <2>3. {links[i].to : i \in 1 .. 1} = {st.to}
    BY <2>1
  <2> HIDE DEF links
  <2> QED BY <1>1, <1>2, <1>3, <2>1, <2>2, <2>3 DEF Walked
<1>4. ASSUME NEW old \in [1 .. n -> statements], n \in 1 .. MAX_ROTATION_CHAIN,
             WalkFrom(p, old, n),
             tk.applied = {old[i].to : i \in 1 .. n},
             tk.walked = Rotated(p, old[n])
      PROVE  Walked(r)
  <2> DEFINE links == [i \in 1 .. n + 1 |-> IF i = n + 1 THEN st ELSE old[i]]
  <2>1. /\ links \in [1 .. n + 1 -> statements] /\ links[n + 1] = st
        /\ \A i \in 1 .. n : links[i] = old[i]
    BY <1>1
  <2> HIDE DEF links
  <2>2. st.from = old[n].to /\ st.version > old[n].version
    BY <1>1, <1>4 DEF RotationAccepted, Rotated, Pin
  <2>3. \A i \in 1 .. n : st.to # old[i].to
    BY <1>4
  <2>4. WalkFrom(p, links, n + 1)
    <3>1. links[1].from = p.trustRoot /\ links[1].version > p.rotationVersion
      BY <1>1, <1>4, <2>1 DEF WalkFrom
    <3>2. \A i \in 2 .. n + 1 : /\ links[i].from = links[i - 1].to
                                /\ links[i].version > links[i - 1].version
      BY <1>1, <1>4, <2>1, <2>2 DEF WalkFrom
    <3>3. \A i, j \in 1 .. n + 1 : i # j => links[i].to # links[j].to
      BY <1>1, <1>4, <2>1, <2>3 DEF WalkFrom
    <3> QED BY <3>1, <3>2, <3>3 DEF WalkFrom
  <2>5. r.applied = {links[i].to : i \in 1 .. n + 1}
    BY <1>1, <1>2, <1>4, <2>1
  <2>6. r.walked = Rotated(p, links[n + 1])
    BY <1>1, <1>2, <1>4, <2>1 DEF Rotated, Pin
  <2> QED BY <1>1, <1>2, <2>1, <2>4, <2>5, <2>6 DEF Walked
<1> QED BY <1>3, <1>4 DEF Walked

\* Statements published during a walk do not disturb it.
LEMMA FoundedStays ==
    ASSUME NEW tk, Founded(tk), statements \subseteq statements'
    PROVE  Founded(tk)'
<1>1. Walked(tk) => Walked(tk)'
  BY DEF Walked, WalkFrom
<1> QED BY <1>1 DEF Founded

\* One refresh moves on; the others stand as they stood.
LEMMA FoundedStep ==
    ASSUME TypeOK, TasksFounded, NEW t \in Tasks, NEW r, Update(t, r),
           r # NoTask => Founded(r), UNCHANGED statements
    PROVE  TasksFounded'
<1> SUFFICES ASSUME NEW u \in Tasks, task'[u] # NoTask PROVE Founded(task[u])'
  BY DEF TasksFounded
<1> PICK x : x = task'[u]
  OBVIOUS
<1>1. x = IF u = t THEN r ELSE task[u]
  BY DEF TypeOK, Update
<1>2. Founded(x)
  BY <1>1 DEF TasksFounded
<1>3. Founded(x)'
  BY <1>2, FoundedStays
<1> QED BY <1>3 DEF Founded, Walked, WalkFrom

LEMMA FinishFounded ==
    ASSUME TypeOK, TasksFounded, NEW t \in Tasks, Finish(t), UNCHANGED statements
    PROVE  TasksFounded'
  BY FoundedStep DEF Finish

LEMMA RefreshFounded ==
    ASSUME FoundedInv, NEW t \in Tasks,
           Refresh(t) \/ FetchFails(t) \/ WriteFails(t) \/ SaveFails(t)
    PROVE  TasksFounded'
<1> DEFINE tk == task[t]
<1> USE DEF At
<1>0. /\ tk # NoTask => tk \in Task /\ StepOK(tk) /\ TaskSigned(tk) /\ Founded(tk)
      /\ TypeOK /\ SignedInv /\ TasksFounded
  BY TaskTyped DEF FoundedInv, SignedInv, Typed, StepInv, TasksSigned, TasksFounded
<1>1. ASSUME NEW file \in {"manifest", "sig"}, Fetch(t, file) PROVE TasksFounded'
  <2>1. PICK r : r = [tk EXCEPT
               ![file] = origin[file],
               !.step = IF tk.manifest = NoManifest /\ tk.sig = NoManifest
                        THEN "fetch" ELSE "readPin"]
    OBVIOUS
  <2>2. r.step \in {"fetch", "readPin"} /\ r.index = 0 /\ r.applied = {}
    BY <1>0, <1>1, <2>1 DEF Fetch, Task, Founded
  <2>3. Founded(r)
    BY <2>2 DEF Founded
  <2> QED BY <1>0, <1>1, <2>1, <2>3, FoundedStep DEF Fetch
<1>2. CASE FetchFails(t)
  <2>1. PICK r : r = [tk EXCEPT !.step = "mirror", !.manifest = NoManifest,
                                !.sig = NoManifest]
    OBVIOUS
  <2>2. r.step = "mirror" /\ r.index = 0 /\ r.applied = {}
    BY <1>0, <1>2, <2>1 DEF FetchFails, Task, Founded
  <2>3. Founded(r)
    BY <2>2 DEF Founded
  <2> QED BY <1>0, <1>2, <2>1, <2>3, FoundedStep DEF FetchFails
<1>3. ASSUME NEW file \in {"manifest", "sig"}, LoadControl(t, file) PROVE TasksFounded'
  <2>1. PICK r : r = [tk EXCEPT
               ![file] = mirror[file], !.fromCache = TRUE,
               !.step = IF tk.manifest = NoManifest /\ tk.sig = NoManifest
                        THEN "mirror" ELSE "readPin"]
    OBVIOUS
  <2>2. r.step \in {"mirror", "readPin"} /\ r.index = 0 /\ r.applied = {}
    BY <1>0, <1>3, <2>1 DEF LoadControl, Task, Founded
  <2>3. Founded(r)
    BY <2>2 DEF Founded
  <2> QED BY <1>0, <1>3, <2>1, <2>3, FoundedStep DEF LoadControl
<1>4. CASE Unreachable(t)
  BY <1>0, <1>4, FinishFounded DEF Unreachable
<1>5. CASE ReadPin(t)
  <2>1. PICK p \in {pin, NoPin} : Update(t, [tk EXCEPT
                 !.pin = p, !.walked = p, !.base = p,
                 !.step = IF p # NoPin /\ p.trustRootId # Baked[tk.worker]
                          THEN "walk" ELSE "verify"])
    BY <1>5 DEF ReadPin
  <2>2. PICK r : r = [tk EXCEPT
                 !.pin = p, !.walked = p, !.base = p,
                 !.step = IF p # NoPin /\ p.trustRootId # Baked[tk.worker]
                          THEN "walk" ELSE "verify"]
    OBVIOUS
  <2>3. tk \in Task /\ tk.index = 0 /\ tk.applied = {}
    BY <1>0, <1>5 DEF ReadPin, Founded
  <2>4. /\ r.step \in {"walk", "verify"}
        /\ r.step = "walk" => p # NoPin
        /\ r.pin = p /\ r.walked = p /\ r.base = p /\ r.index = 0 /\ r.applied = {}
    BY <2>2, <2>3 DEF Task
  <2>5. Walked(r)
    BY <2>4 DEF Walked
  <2>6. Founded(r)
    BY <2>4, <2>5 DEF Founded
  <2> QED BY <1>0, <1>5, <2>1, <2>2, <2>6, FoundedStep DEF ReadPin
<1>6. CASE WalkLink(t)
  <2> DEFINE st == chain[tk.index + 1]
  <2>1. PICK r : r = [tk EXCEPT !.walked = Rotated(tk.walked, st),
                                !.applied = tk.applied \cup {st.to},
                                !.index = tk.index + 1]
    OBVIOUS
  <2>2. /\ tk \in Task /\ tk.step = "walk" /\ tk.base # NoPin /\ Walked(tk)
        /\ tk.pin = tk.base /\ Update(t, r) /\ UNCHANGED statements
        /\ RotationAccepted(st, tk.walked) /\ st.to \notin tk.applied
        /\ tk.index < MAX_ROTATION_CHAIN /\ tk.index < Len(chain)
    BY <1>0, <1>6, <2>1 DEF WalkLink, LinkApplies, LinkServed, Founded
  <2>3. st \in statements
    BY <1>0, <2>2 DEF FoundedInv, IInv, ChainSigned, TypeOK, Task
  <2> HIDE DEF st
  <2>4. Walked(r)
    BY <1>0, <2>1, <2>2, <2>3, WalkExtends
  <2>5. r.step = "walk" /\ r.pin = tk.base /\ r.base = tk.base
    BY <2>1, <2>2 DEF Task
  <2>6. Founded(r)
    BY <2>2, <2>4, <2>5 DEF Founded
  <2> QED BY <1>0, <2>2, <2>6, FoundedStep
<1>7. CASE WalkRefused(t)
  <2>1. PICK r : r = [tk EXCEPT !.step = "verify"]
    OBVIOUS
  <2>2. r.step = "verify" /\ r.pin = r.base
    BY <1>0, <1>7, <2>1 DEF WalkRefused, Task, Founded
  <2>3. Founded(r)
    BY <2>2 DEF Founded
  <2> QED BY <1>0, <1>7, <2>1, <2>3, FoundedStep DEF WalkRefused, Goto
<1>8. CASE WalkEnds(t)
  <2>1. /\ tk \in Task /\ tk.base # NoPin /\ Walked(tk) /\ tk.pin = tk.base
        /\ UNCHANGED statements
    BY <1>0, <1>8 DEF WalkEnds, Founded
  <2>2. CASE tk.applied = {}
    <3>1. PICK r : r = [tk EXCEPT !.step = "verify"]
      OBVIOUS
    <3>2. r.step = "verify" /\ r.pin = r.base
      BY <2>1, <3>1 DEF Task
    <3>3. Founded(r)
      BY <3>2 DEF Founded
    <3> QED BY <1>0, <1>8, <2>1, <2>2, <3>1, <3>3, FoundedStep DEF WalkEnds, Goto
  <2>3. CASE tk.applied # {}
    <3>1. PICK r : r = [tk EXCEPT !.step = "writeRotation", !.pin = tk.walked]
      OBVIOUS
    <3>2. /\ r.step = "writeRotation" /\ r.pin = r.walked /\ r.applied # {}
          /\ r.applied = tk.applied /\ r.index = tk.index /\ r.walked = tk.walked
          /\ r.base = tk.base
      BY <2>1, <2>3, <3>1 DEF Task
    <3>3. Founded(r)
      BY <2>1, <3>2 DEF Founded, Walked
    <3> QED BY <1>0, <1>8, <2>1, <2>3, <3>1, <3>3, FoundedStep DEF WalkEnds
  <2> QED BY <2>2, <2>3
<1>9. CASE WriteRotation(t)
  <2>1. PICK r : r = [tk EXCEPT !.base = tk.pin, !.step = "verify"]
    OBVIOUS
  <2>2. r.step = "verify" /\ r.pin = r.base
    BY <1>0, <1>9, <2>1 DEF WriteRotation, Task
  <2>3. Founded(r)
    BY <2>2 DEF Founded
  <2> QED BY <1>0, <1>9, <2>1, <2>3, FoundedStep DEF WriteRotation
<1>10. CASE RefuseManifest(t)
  BY <1>0, <1>10, FinishFounded DEF RefuseManifest
<1>11. CASE AcceptManifest(t)
  <2> DEFINE m == tk.manifest
             p == tk.base
             newPin == CASE PinTransition(p, m) = "adopt" -> Adopted(RootOf(t), m)
                         [] PinTransition(p, m) = "advance" ->
                              [p EXCEPT !.version = m.version,
                                        !.trustRoot = RootOf(t)]
                         [] OTHER -> p
             s == IF PinTransition(p, m) # "unchanged" THEN "writePin"
                  ELSE IF tk.fromCache THEN "commit" ELSE "saveManifest"
  <2>1. tk \in Task /\ tk.step = "verify" /\ tk.pin = p /\ UNCHANGED statements
    BY <1>0, <1>11 DEF AcceptManifest, Founded
  <2>2. PICK r : r = [tk EXCEPT !.verdict = Judgement(t), !.pin = newPin, !.step = s]
    OBVIOUS
  <2>3. Update(t, r)
    BY <1>11, <2>1, <2>2 DEF AcceptManifest
  <2>4. /\ m \in signed /\ m.root = RootOf(t)
        /\ PinTransition(p, m) \in {"adopt", "advance", "unchanged"}
    BY <1>0, <1>11, <2>1, JudgedIsVerified, AcceptedIsSigned DEF AcceptManifest
  <2>5. m \in Manifest
    BY <1>0, <2>4 DEF TypeOK
  <2>6. r.step = s /\ r.pin = newPin /\ r.manifest = m /\ r.base = p
    BY <2>1, <2>2 DEF Task
  <2>7. Founded(r)
    <3>1. CASE p = NoPin
      <4>1. s = "writePin" /\ newPin = Adopted(m.root, m)
        BY <2>4, <3>1 DEF PinTransition
      <4> HIDE DEF s, newPin
      <4> QED BY <2>1, <2>6, <3>1, <4>1 DEF Founded
    <3>2. CASE p # NoPin
      <4>1. p \in Pin /\ RootOf(t) = p.trustRoot
        BY <2>1, <3>2 DEF Task, RootOf
      <4>2. CASE PinTransition(p, m) = "advance"
        <5>1. s = "writePin" /\ m.version > p.version
          BY <2>5, <3>2, <4>1, <4>2 DEF PinTransition, Pin, Manifest, Version
        <5>2. newPin = [p EXCEPT !.version = m.version]
          BY <4>1, <4>2 DEF Pin
        <5> HIDE DEF s, newPin
        <5> QED BY <2>1, <2>4, <2>6, <3>2, <4>1, <5>1, <5>2 DEF Founded
      <4>3. CASE PinTransition(p, m) = "unchanged"
        <5>1. s \in {"saveManifest", "commit"} /\ m.version <= p.version
          BY <2>5, <3>2, <4>1, <4>3 DEF PinTransition, Pin, Manifest, Version
        <5> HIDE DEF s, newPin
        <5> QED BY <2>1, <2>6, <3>2, <5>1 DEF Founded
      <4>4. PinTransition(p, m) # "adopt"
        BY <3>2 DEF PinTransition
      <4> QED BY <2>4, <4>2, <4>3, <4>4
    <3> QED BY <3>1, <3>2
  <2> HIDE DEF newPin, s
  <2> QED BY <1>0, <2>1, <2>3, <2>7, FoundedStep
<1>12. CASE WritePin(t)
  <2> DEFINE s == IF tk.fromCache THEN "commit" ELSE "saveManifest"
  <2>1. PICK r : r = [tk EXCEPT !.base = tk.pin, !.step = s]
    OBVIOUS
  <2>2. /\ tk \in Task /\ r.step \in {"saveManifest", "commit"} /\ Update(t, r)
        /\ r.manifest = tk.manifest /\ r.base = tk.pin /\ UNCHANGED statements
    BY <1>0, <1>12, <2>1 DEF WritePin, Task
  <2>3. tk.pin # NoPin /\ tk.pin.version = tk.manifest.version /\ tk.manifest \in Manifest
    BY <1>0, <1>12, <2>2 DEF WritePin, Founded, StepOK, Adopted, Task, Pin, File
  <2>4. Founded(r)
    BY <2>2, <2>3 DEF Founded, Manifest, Version
  <2> QED BY <1>0, <2>2, <2>4, FoundedStep
<1>13. CASE WriteFails(t)
  BY <1>0, <1>13, FinishFounded DEF WriteFails
<1>14. CASE SaveManifest(t)
  <2>1. PICK r : r = [tk EXCEPT !.step = "saveSig"]
    OBVIOUS
  <2>2. r.step = "saveSig" /\ r.manifest = tk.manifest /\ r.base = tk.base
    BY <1>0, <1>14, <2>1 DEF SaveManifest, Task
  <2>3. Founded(r)
    BY <1>0, <1>14, <2>2 DEF SaveManifest, Founded
  <2> QED BY <1>0, <1>14, <2>1, <2>3, FoundedStep DEF SaveManifest, Goto
<1>15. CASE SaveSig(t) \/ SaveFails(t)
  <2>1. PICK r : r = [tk EXCEPT !.step = "commit"]
    OBVIOUS
  <2>2. r.step = "commit" /\ r.manifest = tk.manifest /\ r.base = tk.base
    BY <1>0, <1>15, <2>1 DEF SaveSig, SaveFails, Task
  <2>3. Founded(r)
    BY <1>0, <1>15, <2>2 DEF SaveSig, SaveFails, Founded
  <2> QED BY <1>0, <1>15, <2>1, <2>3, FoundedStep DEF SaveSig, SaveFails, Goto
<1>16. CASE Commit(t)
  BY <1>0, <1>16, FinishFounded DEF Commit
<1> QED BY <1>1, <1>2, <1>3, <1>4, <1>5, <1>6, <1>7, <1>8, <1>9, <1>10, <1>11,
           <1>12, <1>13, <1>14, <1>15, <1>16 DEF Refresh

LEMMA NextFounded == ASSUME FoundedInv, [Next]_vars PROVE FoundedInv'
<1>0. IInv' /\ SignedInv' /\ TypeOK /\ TasksFounded
  BY NextDescends, NextSigned DEF FoundedInv, SignedInv, Typed
<1>1. ASSUME \A t \in Tasks : task'[t] \in {NoTask, task[t]},
             statements \subseteq statements'
      PROVE  TasksFounded'
  <2> SUFFICES ASSUME NEW u \in Tasks, task'[u] # NoTask PROVE Founded(task[u])'
    BY DEF TasksFounded
  <2> PICK x : x = task'[u]
    OBVIOUS
  <2>1. Founded(x)
    BY <1>0, <1>1 DEF TasksFounded
  <2>2. Founded(x)'
    BY <1>1, <2>1, FoundedStays
  <2> QED BY <2>2 DEF Founded, Walked, WalkFrom
<1>2. ASSUME NEW w \in Workers, NEW t \in Tasks,
             StartRefresh(w, t) \/ EnsureReady(w, t)
      PROVE  TasksFounded'
  <2>1. Update(t, NewTask(w)) /\ UNCHANGED statements
    BY <1>2 DEF StartRefresh, EnsureReady, Start
  <2>2. Founded(NewTask(w))
    BY DEF Founded, NewTask
  <2> QED BY <1>0, <2>1, <2>2, FoundedStep
<1>3. ASSUME NEW t \in Tasks,
             Refresh(t) \/ FetchFails(t) \/ WriteFails(t) \/ SaveFails(t)
      PROVE  TasksFounded'
  BY <1>3, RefreshFounded
<1>4. Tick \/ Publish \/ Evict \/ UNCHANGED vars \/ (\E w \in Workers : Restart(w)) =>
        /\ \A t \in Tasks : task'[t] \in {NoTask, task[t]}
        /\ statements \subseteq statements'
  BY DEF Tick, Publish, SignRelease, SwitchRoot, Redeploy, Corrupt, Upload,
         PublishRotation, Evict, Restart, vars
<1>5. TasksFounded'
  BY <1>1, <1>2, <1>3, <1>4 DEF Next
<1> QED BY <1>0, <1>5 DEF FoundedInv

LEMMA FoundedInvariant == Spec => []FoundedInv
<1>1. Init => FoundedInv
  BY InitDescends, InitSigned DEF Init, FoundedInv, TasksFounded
<1> QED BY <1>1, NextFounded, PTL DEF Spec

----------------------------------------------------------------------------
(* The stored pin keeps to TrustPin, lost updates apart.                   *)

\* The pin and the release as TrustPin sees them.
AbstractOf(p) == [root |-> p.trustRoot, version |-> p.version,
                  rotationVersion |-> p.rotationVersion]
Abstracted(m) == [version |-> m.version, root |-> m.root]

LEMMA AbstractRotates ==
    ASSUME NEW p \in Pin, NEW st
    PROVE  AbstractOf(Rotated(p, st)) =
             [AbstractOf(p) EXCEPT !.root = st.to, !.rotationVersion = st.version]
<1> DEFINE a == AbstractOf(p)
<1>1. AbstractOf(Rotated(p, st)) =
        [root |-> st.to, version |-> a.version, rotationVersion |-> st.version]
  BY DEF AbstractOf, Rotated, Pin
<1>2. a \in [root: Roots, version: Version, rotationVersion: Version]
  BY DEF AbstractOf, Pin
<1> HIDE DEF a
<1>3. PICK moved : moved = [a EXCEPT !.root = st.to, !.rotationVersion = st.version]
  OBVIOUS
<1>4. moved =
        [root |-> st.to, version |-> a.version, rotationVersion |-> st.version]
  BY <1>2, <1>3
<1> QED BY <1>1, <1>3, <1>4 DEF a

LEMMA SignedAbstracts ==
    ASSUME TypeOK, TypeOK', signed \subseteq signed', statements \subseteq statements',
           UNCHANGED pin
    PROVE  AbstractPin!Publish
<1>1. {Abstracted(m) : m \in signed'} \subseteq AbstractPin!Release
  BY ConstantsAssumption DEF TypeOK, Manifest, Version, AbstractPin!Release, Abstracted
<1>2. statements' \subseteq AbstractPin!Statement
  BY ConstantsAssumption DEF TypeOK, Statement, Version, AbstractPin!Statement
<1> QED BY <1>1, <1>2 DEF AbstractPin!Publish, Abstracted

\* Every step maps to a step of TrustPin, leaves its variables alone, or is the
\* write of a refresh that no longer knows what is stored.
LEMMA PinStep ==
    ASSUME FoundedInv, [Next]_vars
    PROVE  [LostUpdate \/ AbstractPin!Next]_AbstractPin!vars
<1>0. TypeOK /\ TypeOK' /\ SignedInv
  BY NextSigned DEF FoundedInv, SignedInv, Typed
<1>1. CASE UNCHANGED <<pin, signed, statements>>
  BY <1>1 DEF AbstractPin!vars
<1>2. CASE SignRelease \/ \E to \in Roots : PublishRotation(to)
  <2>1. AbstractPin!Publish
    BY <1>0, <1>2, SignedAbstracts DEF SignRelease, PublishRotation
  <2> QED BY <2>1 DEF AbstractPin!Next
<1>3. ASSUME NEW t \in Tasks, WriteRotation(t) \/ WritePin(t)
      PROVE  LostUpdate \/ AbstractPin!Next
  <2> DEFINE tk == task[t]
  <2>1. /\ tk # NoTask /\ tk \in Task /\ StepOK(tk) /\ TaskSigned(tk) /\ Founded(tk)
        /\ pin' = tk.pin /\ pin' # NoPin /\ pin' \in Pin /\ pin \in Pin \cup {NoPin}
        /\ UNCHANGED <<signed, statements>>
    BY <1>0, <1>3, TaskTyped DEF WriteRotation, WritePin, At, FoundedInv, SignedInv,
       Typed, StepInv, TasksSigned, TasksFounded, StepOK, TypeOK
  <2>2. CASE tk.base # pin
    BY <1>3, <2>1, <2>2 DEF LostUpdate
  <2>3. CASE tk.base = pin /\ WriteRotation(t)
    <3> DEFINE n == tk.index
    <3>1. PICK links \in [1 .. n -> statements] :
            /\ n \in 1 .. MAX_ROTATION_CHAIN
            /\ WalkFrom(pin, links, n) /\ tk.walked = Rotated(pin, links[n])
      BY <2>1, <2>3 DEF WriteRotation, At, Founded, Walked
    <3>2. pin \in Pin /\ pin # NoPin /\ pin' = Rotated(pin, links[n])
      BY <2>1, <2>3, <3>1 DEF WriteRotation, At, Founded
    <3>3. AbstractOf(pin') = [AbstractOf(pin) EXCEPT !.root = links[n].to,
                                            !.rotationVersion = links[n].version]
      BY <3>2, AbstractRotates
    <3>4. AbstractOf(pin) # NoPin
      BY <3>2, ConstantsAssumption DEF AbstractOf, Pin
    <3>5. AbstractPin!IsWalk(links, n)
      BY <3>1, <3>2 DEF WalkFrom, AbstractPin!IsWalk
    <3>6. AbstractPin!Rotate(n)
      BY <2>1, <3>1, <3>2, <3>3, <3>4, <3>5 DEF AbstractPin!Rotate, AbstractOf
    <3> QED BY <3>1, <3>6 DEF AbstractPin!Next
  <2>4. CASE tk.base = pin /\ WritePin(t)
    <3> DEFINE m == Abstracted(tk.manifest)
    <3>1. m \in {Abstracted(x) : x \in signed} /\ tk.manifest \in Manifest
      BY <1>0, <2>1, <2>4 DEF WritePin, At, TaskSigned, Accepted, TypeOK
    <3>2. CASE pin = NoPin
      <4>1. AbstractPin!Adopt(m)
        BY <2>1, <2>4, <3>2 DEF WritePin, At, Founded, Adopted, Abstracted,
                                AbstractPin!Adopt
      <4> QED BY <3>1, <4>1 DEF AbstractPin!Next, Abstracted
    <3>3. CASE pin # NoPin
      <4>1. AbstractPin!Advance(m)
        BY <2>1, <2>4, <3>3, ConstantsAssumption
        DEF WritePin, At, Founded, Abstracted, Pin, AbstractPin!Advance
      <4> QED BY <3>1, <4>1 DEF AbstractPin!Next, Abstracted
    <3> QED BY <3>2, <3>3
  <2> QED BY <1>3, <2>2, <2>3, <2>4
<1>4. CASE Evict
  <2>1. AbstractPin!Forget
    BY <1>4 DEF Evict, AbstractPin!Forget
  <2> QED BY <2>1 DEF AbstractPin!Next
<1> QED
  BY <1>1, <1>2, <1>3, <1>4
  DEF Next, vars, Tick, Publish, SwitchRoot, Redeploy, Corrupt, Upload, Restart,
      StartRefresh, EnsureReady, Refresh, Fetch, FetchFails, LoadControl, Unreachable,
      ReadPin, WalkLink, WalkRefused, WalkEnds, RefuseManifest, AcceptManifest,
      WriteFails, SaveManifest, SaveSig, SaveFails, Commit

\* PinMovesOrIsLost: with any number of refreshes beside each other, reads and writes
\* of the pin that fail, restarts and evictions, the pin in storage is adopted, advances
\* by signed releases of its own root, and changes root along a walk of at most
\* MAX_ROTATION_CHAIN statements that visits no root twice, as TrustPin says. The one
\* other step is a write by a refresh that has not seen what is stored.
THEOREM PinMovesOrGetsLost == Spec => PinMovesOrIsLost
<1>1. Init => AbstractPin!Init
  BY ConstantsAssumption DEF Init, FirstRelease, AbstractPin!Init, AbstractPin!Release
<1>2. FoundedInv /\ [Next]_vars => [LostUpdate \/ AbstractPin!Next]_AbstractPin!vars
  BY PinStep
<1> QED BY <1>1, <1>2, FoundedInvariant, PTL DEF Spec, PinMovesOrIsLost

----------------------------------------------------------------------------
(* The stored pin covers what is in memory, lost updates and evictions     *)
(* apart.                                                                  *)

\* What a refresh knows of the stored pin: nothing, what it knew before, or what is
\* stored now.
BaseKept(u) == task'[u] # NoTask => \/ task'[u].base \in {NoPin, pin'}
                                    \/ task[u] # NoTask /\ task'[u].base = task[u].base

LEMMA BaseReplaced ==
    ASSUME Typed, NEW t \in Tasks, NEW r, Update(t, r),
           r # NoTask => \/ r.base \in {NoPin, pin'}
                         \/ task[t] # NoTask /\ r.base = task[t].base
    PROVE  \A u \in Tasks : BaseKept(u)
  BY DEF Typed, TypeOK, Update, BaseKept

LEMMA BaseStep ==
    ASSUME Typed, [Next]_vars
    PROVE  \A u \in Tasks : BaseKept(u)
<1> DEFINE Goal == \A u \in Tasks : BaseKept(u)
<1> USE DEF At
<1>1. ASSUME \A u \in Tasks : task'[u] \in {NoTask, task[u]} PROVE Goal
  BY <1>1 DEF BaseKept
<1>2. ASSUME NEW w \in Workers, NEW t \in Tasks,
             StartRefresh(w, t) \/ EnsureReady(w, t)
      PROVE  Goal
  <2>1. Update(t, NewTask(w)) /\ NewTask(w).base = NoPin
    BY <1>2 DEF StartRefresh, EnsureReady, Start, NewTask
  <2> QED BY <2>1, BaseReplaced
<1>3. ASSUME NEW t \in Tasks,
             Refresh(t) \/ FetchFails(t) \/ WriteFails(t) \/ SaveFails(t)
      PROVE  Goal
  <2> DEFINE tk == task[t]
  <2>0. tk # NoTask => tk \in Task
    BY TaskTyped DEF Typed
  <2>1. CASE Finish(t)
    BY <2>1, BaseReplaced DEF Finish
  <2>2. ASSUME NEW s, Goto(t, s), tk # NoTask PROVE Goal
    <3>1. PICK r : r = [tk EXCEPT !.step = s]
      OBVIOUS
    <3>2. r.base = tk.base
      BY <2>0, <2>2, <3>1 DEF Task
    <3> QED BY <2>2, <3>1, <3>2, BaseReplaced DEF Goto
  <2>3. ASSUME NEW file \in {"manifest", "sig"}, Fetch(t, file) PROVE Goal
    <3>1. PICK r : r = [tk EXCEPT
                 ![file] = origin[file],
                 !.step = IF tk.manifest = NoManifest /\ tk.sig = NoManifest
                          THEN "fetch" ELSE "readPin"]
      OBVIOUS
    <3>2. tk # NoTask /\ r.base = tk.base
      BY <2>0, <2>3, <3>1 DEF Fetch, Task
    <3> QED BY <2>3, <3>1, <3>2, BaseReplaced DEF Fetch
  <2>4. CASE FetchFails(t)
    <3>1. PICK r : r = [tk EXCEPT !.step = "mirror", !.manifest = NoManifest,
                                  !.sig = NoManifest]
      OBVIOUS
    <3>2. tk # NoTask /\ r.base = tk.base
      BY <2>0, <2>4, <3>1 DEF FetchFails, Task
    <3> QED BY <2>4, <3>1, <3>2, BaseReplaced DEF FetchFails
  <2>5. ASSUME NEW file \in {"manifest", "sig"}, LoadControl(t, file) PROVE Goal
    <3>1. PICK r : r = [tk EXCEPT
                 ![file] = mirror[file], !.fromCache = TRUE,
                 !.step = IF tk.manifest = NoManifest /\ tk.sig = NoManifest
                          THEN "mirror" ELSE "readPin"]
      OBVIOUS
    <3>2. tk # NoTask /\ r.base = tk.base
      BY <2>0, <2>5, <3>1 DEF LoadControl, Task
    <3> QED BY <2>5, <3>1, <3>2, BaseReplaced DEF LoadControl
  <2>6. CASE ReadPin(t)
    <3>1. PICK p \in {pin, NoPin} : Update(t, [tk EXCEPT
                   !.pin = p, !.walked = p, !.base = p,
                   !.step = IF p # NoPin /\ p.trustRootId # Baked[tk.worker]
                            THEN "walk" ELSE "verify"])
      BY <2>6 DEF ReadPin
    <3>2. PICK r : r = [tk EXCEPT
                   !.pin = p, !.walked = p, !.base = p,
                   !.step = IF p # NoPin /\ p.trustRootId # Baked[tk.worker]
                            THEN "walk" ELSE "verify"]
      OBVIOUS
    <3>3. r.base = p /\ pin' = pin
      BY <2>0, <2>6, <3>2 DEF ReadPin, Task
    <3> QED BY <3>1, <3>2, <3>3, BaseReplaced
  <2>7. CASE WalkLink(t)
    <3> DEFINE st == chain[tk.index + 1]
    <3>1. PICK r : r = [tk EXCEPT !.walked = Rotated(tk.walked, st),
                                  !.applied = tk.applied \cup {st.to},
                                  !.index = tk.index + 1]
      OBVIOUS
    <3>2. tk # NoTask /\ r.base = tk.base
      BY <2>0, <2>7, <3>1 DEF WalkLink, Task
    <3> QED BY <2>7, <3>1, <3>2, BaseReplaced DEF WalkLink
  <2>8. CASE WalkEnds(t) /\ tk.applied # {}
    <3>1. PICK r : r = [tk EXCEPT !.step = "writeRotation", !.pin = tk.walked]
      OBVIOUS
    <3>2. tk # NoTask /\ r.base = tk.base
      BY <2>0, <2>8, <3>1 DEF WalkEnds, Task
    <3> QED BY <2>8, <3>1, <3>2, BaseReplaced DEF WalkEnds
  <2>9. CASE WriteRotation(t)
    <3>1. PICK r : r = [tk EXCEPT !.base = tk.pin, !.step = "verify"]
      OBVIOUS
    <3>2. r.base = pin'
      BY <2>0, <2>9, <3>1 DEF WriteRotation, Task
    <3> QED BY <2>9, <3>1, <3>2, BaseReplaced DEF WriteRotation
  <2>10. CASE AcceptManifest(t)
    <3> DEFINE m == tk.manifest
               transition == PinTransition(tk.pin, m)
               newPin == CASE transition = "adopt" -> Adopted(RootOf(t), m)
                           [] transition = "advance" ->
                                [tk.pin EXCEPT !.version = m.version,
                                               !.trustRoot = RootOf(t)]
                           [] OTHER -> tk.pin
               s == IF transition # "unchanged" THEN "writePin"
                    ELSE IF tk.fromCache THEN "commit" ELSE "saveManifest"
    <3>1. Update(t, [tk EXCEPT !.verdict = Judgement(t), !.pin = newPin, !.step = s])
      BY <2>10 DEF AcceptManifest
    <3> HIDE DEF newPin, s
    <3>2. PICK r : r = [tk EXCEPT !.verdict = Judgement(t), !.pin = newPin, !.step = s]
      OBVIOUS
    <3>3. tk # NoTask /\ r.base = tk.base
      BY <2>0, <2>10, <3>2 DEF AcceptManifest, Task
    <3> QED BY <3>1, <3>2, <3>3, BaseReplaced
  <2>11. CASE WritePin(t)
    <3>1. PICK r : r = [tk EXCEPT !.base = tk.pin,
                   !.step = IF tk.fromCache THEN "commit" ELSE "saveManifest"]
      OBVIOUS
    <3>2. r.base = pin'
      BY <2>0, <2>11, <3>1 DEF WritePin, Task
    <3> QED BY <2>11, <3>1, <3>2, BaseReplaced DEF WritePin
  <2>12. Unreachable(t) \/ RefuseManifest(t) \/ WriteFails(t) \/ Commit(t) => Finish(t)
    BY DEF Unreachable, RefuseManifest, WriteFails, Commit
  <2>13. \/ WalkRefused(t) \/ (WalkEnds(t) /\ tk.applied = {}) \/ SaveManifest(t)
         \/ SaveSig(t) \/ SaveFails(t)
         => tk # NoTask /\ \E s \in Steps : Goto(t, s)
    BY DEF WalkRefused, WalkEnds, SaveManifest, SaveSig, SaveFails, Steps
  <2> QED BY <1>3, <2>1, <2>2, <2>3, <2>4, <2>5, <2>6, <2>7, <2>8, <2>9, <2>10, <2>11,
             <2>12, <2>13 DEF Refresh
<1>4. Tick \/ Publish \/ Evict \/ UNCHANGED vars \/ (\E w \in Workers : Restart(w)) =>
        \A u \in Tasks : task'[u] \in {NoTask, task[u]}
  BY DEF Tick, Publish, SignRelease, SwitchRoot, Redeploy, Corrupt, Upload,
         PublishRotation, Evict, Restart, vars
<1> QED BY <1>1, <1>2, <1>3, <1>4 DEF Next

\* Without a lost update or an eviction, the stored pin does not go back.
LEMMA PinDoesNotGoBack ==
    ASSUME FoundedInv, [Next]_vars, ~LostUpdate, ~Evict
    PROVE  \/ pin' = pin
           \/ /\ pin' # NoPin /\ pin' \in Pin
              /\ pin # NoPin => pin.version <= pin'.version
<1> DEFINE Goal == \/ pin' = pin
                   \/ /\ pin' # NoPin /\ pin' \in Pin
                      /\ pin # NoPin => pin.version <= pin'.version
<1>1. ASSUME NEW t \in Tasks, WriteRotation(t) \/ WritePin(t) PROVE Goal
  <2> DEFINE tk == task[t]
  <2>1. /\ tk # NoTask /\ tk \in Task /\ StepOK(tk) /\ Founded(tk)
        /\ pin' = tk.pin /\ pin \in Pin \cup {NoPin}
    BY <1>1, TaskTyped DEF WriteRotation, WritePin, At, FoundedInv, SignedInv,
       Typed, StepInv, TasksFounded, TypeOK
  <2>2. tk.base = pin
    BY <1>1, <2>1 DEF LostUpdate
  <2>3. CASE WriteRotation(t)
    <3>1. /\ tk.pin # NoPin /\ tk.pin \in Pin /\ pin \in Pin
          /\ tk.pin = tk.walked /\ tk.applied # {} /\ Walked(tk)
      BY <2>1, <2>2, <2>3 DEF WriteRotation, At, StepOK, Founded, Task
    <3>2. PICK st : tk.walked = Rotated(pin, st)
      BY <2>2, <3>1 DEF Walked
    <3>3. tk.pin.version = pin.version
      BY <3>1, <3>2 DEF Rotated, Pin
    <3> QED BY <2>1, <3>1, <3>3 DEF Pin, Version
  <2>4. CASE WritePin(t)
    <3>1. tk.manifest \in Manifest /\ tk.pin \in Pin /\ tk.pin # NoPin
      BY <2>1, <2>4 DEF WritePin, At, StepOK, Task, File
    <3> QED BY <2>1, <2>2, <2>4, <3>1 DEF WritePin, At, Founded, Pin, Manifest, Version
  <2> QED BY <1>1, <2>3, <2>4
<1> QED
  BY <1>1
  DEF Next, vars, Tick, Publish, SignRelease, SwitchRoot, Redeploy, Corrupt, Upload,
      PublishRotation, Restart, StartRefresh, EnsureReady, Refresh, Fetch, FetchFails,
      LoadControl, Unreachable, ReadPin, WalkLink, WalkRefused, WalkEnds,
      RefuseManifest, AcceptManifest, WriteFails, SaveManifest, SaveSig, SaveFails,
      Commit

LEMMA CoverStep ==
    ASSUME FoundedInv, [Next]_vars, NobodyAhead, ~LostUpdate, ~Evict
    PROVE  NobodyAhead'
<1>0. TypeOK /\ TypeOK' /\ Typed
  BY NextSigned DEF FoundedInv, SignedInv, Typed
<1>1. ASSUME NEW v \in Version, Covered(v) PROVE Covered(v)'
  BY <1>0, <1>1, PinDoesNotGoBack DEF Covered, TypeOK, Pin, Version
<1>2. ASSUME NEW w \in Workers, memory'[w].manifest # NoManifest
      PROVE  Covered(memory[w].manifest.version)'
  <2> PICK m : m = memory'[w].manifest
    OBVIOUS
  <2>1. m \in Manifest
    BY <1>0, <1>2 DEF TypeOK, File
  <2>2. ASSUME m = memory[w].manifest PROVE Covered(m.version)
    BY <1>2, <2>2 DEF NobodyAhead, PinCoversMemory
  <2>3. ASSUME NEW t \in Tasks, Commit(t), m = task[t].manifest
        PROVE  Covered(m.version)
    <3>1. /\ task[t] # NoTask /\ task[t].base # NoPin /\ task[t] \in Task
          /\ m.version <= task[t].base.version
      BY <1>0, <2>3, TaskTyped DEF Commit, At, FoundedInv, TasksFounded, Founded
    <3>2. Covered(task[t].base.version)
      BY <3>1 DEF NobodyAhead
    <3>3. pin \in Pin /\ task[t].base \in Pin
      BY <1>0, <3>1, <3>2 DEF TypeOK, Covered, Task
    <3> QED BY <2>1, <3>1, <3>2, <3>3 DEF Covered, Pin, Manifest, Version
  <2>4. Covered(m.version)
    BY <1>0, <1>2, <2>2, <2>3, MemoryIsCommitted
  <2>5. Covered(m.version)'
    BY <1>1, <2>1, <2>4 DEF Manifest
  <2> QED BY <2>5 DEF Covered
<1>3. ASSUME NEW u \in Tasks, task'[u] # NoTask, task'[u].base # NoPin
      PROVE  Covered(task[u].base.version)'
  <2> PICK p : p = task'[u].base
    OBVIOUS
  <2>1. p \in Pin
    BY <1>0, <1>3 DEF TypeOK, Task
  <2>2. CASE p = pin'
    BY <1>3, <2>1, <2>2 DEF Covered, Pin, Version
  <2>3. CASE task[u] # NoTask /\ p = task[u].base
    <3>1. Covered(p.version)
      BY <1>3, <2>3 DEF NobodyAhead
    <3>2. Covered(p.version)'
      BY <1>1, <2>1, <3>1 DEF Pin
    <3> QED BY <3>2 DEF Covered
  <2> QED BY <1>0, <1>3, <2>2, <2>3, BaseStep DEF BaseKept
<1> QED BY <1>2, <1>3 DEF NobodyAhead, PinCoversMemory

\* CoverEndsOnlyByLoss: wherever refreshes are cut short, fail to write, or run beside
\* each other, as long as no update of the pin is lost and storage keeps it, every
\* worker has the version it serves in the stored pin before it serves it.
THEOREM CoverEndsByLossAlone == Spec => CoverEndsOnlyByLoss
<1>1. FoundedInv /\ [Next]_vars =>
        [NobodyAhead => NobodyAhead' \/ LostUpdate \/ Evict]_vars
  BY CoverStep
<1> QED BY <1>1, FoundedInvariant, PTL DEF Spec, CoverEndsOnlyByLoss

=============================================================================
