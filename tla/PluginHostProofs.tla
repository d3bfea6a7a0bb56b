--------------------------- MODULE PluginHostProofs ---------------------------
(***************************************************************************)
(* Migrations that overlap, die half way and run late leave the webhook    *)
(* records as the inbox expects them, and Shutdown leaves nothing running: *)
(* for any number of processes, records and failures.                      *)
(*                                                                         *)
(* Each UPDATE of the migration establishes a fact about every record, and *)
(* keeps the facts of the ones before it.  A fact holds from the time any  *)
(* process is past its UPDATE, and for good once the version is recorded;  *)
(* until then nobody serves, so nothing but migrations writes a record,    *)
(* and what was processed is never claimed.  The reconciliation goroutine  *)
(* follows its host.                                                       *)
(***************************************************************************)
EXTENDS PluginHost, TLAPS

\* What is true of every record at all times.
Consistent(r) ==
  /\ r.status = "ABSENT" => r = NoRow
  /\ r.status = "SUCCEEDED" => r.processed
  /\ r.status = "FAILED" => r.error /\ ~r.processed

\* What the three UPDATEs establish, in their order.
ProcessedMarked(r) == r.processed => r.status = "SUCCEEDED"
FailedMarked(r) == r.status # "ABSENT" /\ ~r.processed /\ r.error => r.status = "FAILED"
StartIsSet(r) == r.status # "ABSENT" /\ ~r.processed /\ ~r.error => r.started
Facts(r) == ProcessedMarked(r) /\ FailedMarked(r) /\ StartIsSet(r)

AfterSucceeded == {"failed", "started", "record"}
AfterFailed == {"started", "record"}
AfterStarted == {"record"}
Reached(steps) == recorded \/ \E i \in Instances : pc[i] \in steps

ServesAfterRecorded == \A i \in Instances : pc[i] \in {"serving", "shutdown"} => recorded
QuietUnlessUp ==
  \A i \in Instances : pc[i] \notin {"serving", "shutdown"} => loop[i].pc = "none"
MigrationProgress ==
  /\ \A e \in Events : Consistent(row[e])
  /\ Reached(AfterSucceeded) => \A e \in Events : ProcessedMarked(row[e])
  /\ Reached(AfterFailed) => \A e \in Events : FailedMarked(row[e])
  /\ Reached(AfterStarted) => \A e \in Events : StartIsSet(row[e])

Inv ==
  /\ TypeOK
  /\ ServesAfterRecorded
  /\ QuietUnlessUp
  /\ MigrationProgress

USE DEF Migrating, Steps, AfterSucceeded, AfterFailed, AfterStarted

-----------------------------------------------------------------------------
(* The UPDATEs, on one record.                                              *)

Succeeded(r) == Where(r, r.processed, [r EXCEPT !.status = "SUCCEEDED"])
Failed(r) == Where(r, ~r.processed /\ r.error, [r EXCEPT !.status = "FAILED"])
Started(r) == Where(r, ~r.processed /\ ~r.error, [r EXCEPT !.started = TRUE])

LEMMA NewRowTyped ==
  ASSUME NEW status \in {"ABSENT", "PROCESSING", "FAILED", "SUCCEEDED"},
         NEW processed \in BOOLEAN, NEW error \in BOOLEAN, NEW started \in BOOLEAN
  PROVE  NewRow(status, processed, error, started) \in Row
BY DEF NewRow, Row

\* SET status = SUCCEEDED: establishes its fact, keeps the other ones, and
\* changes no record that has all of them.
LEMMA SucceededRow ==
  ASSUME NEW r \in Row, Consistent(r)
  PROVE  /\ Succeeded(r) \in Row /\ Consistent(Succeeded(r))
         /\ ProcessedMarked(Succeeded(r))
         /\ FailedMarked(r) => FailedMarked(Succeeded(r))
         /\ StartIsSet(r) => StartIsSet(Succeeded(r))
         /\ Facts(r) => Succeeded(r) = r
<1>1. CASE r.status # "ABSENT" /\ r.processed
  <2>1. Succeeded(r) = [r EXCEPT !.status = "SUCCEEDED"]
    BY <1>1 DEF Succeeded, Where
  <2>2. Facts(r) => r.status = "SUCCEEDED"
    BY <1>1 DEF Facts, ProcessedMarked
  <2>3. r.status = "SUCCEEDED" => [r EXCEPT !.status = "SUCCEEDED"] = r
    BY DEF Row
  <2> QED
    BY <1>1, <2>1, <2>2, <2>3 DEF Row, Consistent, ProcessedMarked, FailedMarked, StartIsSet
<1>2. CASE ~(r.status # "ABSENT" /\ r.processed)
  <2>1. Succeeded(r) = r
    BY <1>2 DEF Succeeded, Where
  <2>2. ProcessedMarked(r)
    BY <1>2 DEF Consistent, ProcessedMarked, NoRow, NewRow
  <2> QED BY <2>1, <2>2
<1> QED BY <1>1, <1>2

\* SET status = FAILED, likewise.
LEMMA FailedRow ==
  ASSUME NEW r \in Row, Consistent(r)
  PROVE  /\ Failed(r) \in Row /\ Consistent(Failed(r))
         /\ FailedMarked(Failed(r))
         /\ ProcessedMarked(r) => ProcessedMarked(Failed(r))
         /\ StartIsSet(r) => StartIsSet(Failed(r))
         /\ Facts(r) => Failed(r) = r
BY DEF Row, NoRow, NewRow, Consistent, Facts, ProcessedMarked, FailedMarked, StartIsSet, Failed, Where

\* SET processing_started_at, likewise.
LEMMA StartedRow ==
  ASSUME NEW r \in Row, Consistent(r)
  PROVE  /\ Started(r) \in Row /\ Consistent(Started(r))
         /\ StartIsSet(Started(r))
         /\ ProcessedMarked(r) => ProcessedMarked(Started(r))
         /\ FailedMarked(r) => FailedMarked(Started(r))
         /\ Facts(r) => Started(r) = r
BY DEF Row, NoRow, NewRow, Consistent, Facts, ProcessedMarked, FailedMarked, StartIsSet, Started, Where

\* A record that has all three facts is as ClaimWebhook expects it.
LEMMA FactsConvert ==
  ASSUME NEW r \in Row, Consistent(r), Facts(r)
  PROVE  (r.processed <=> r.status = "SUCCEEDED") /\ (r.status = "PROCESSING" => r.started)
BY DEF Row, NoRow, NewRow, Consistent, Facts, ProcessedMarked, FailedMarked, StartIsSet

LEMMA FactsOnceRecorded ==
  ASSUME Inv, recorded
  PROVE  \A e \in Events : row[e] \in Row /\ Consistent(row[e]) /\ Facts(row[e])
BY DEF Inv, TypeOK, MigrationProgress, Reached, Facts

-----------------------------------------------------------------------------
LEMMA InitInv == ASSUME Init PROVE Inv
<1>1. TypeOK
  <2>1. \A r \in LegacyRow \cup {NoRow} : r \in Row
    BY NewRowTyped DEF LegacyRow, NoRow
  <2>2. row \in [Events -> Row]
    BY <2>1 DEF Init
  <2>3. loop \in [Instances -> Loop]
    BY DEF Init, Loop, NoLoop
  <2>4. recorded \in BOOLEAN
    BY DEF Init
  <2>5. pc \in [Instances -> Steps] /\ faults \in 0..MaxFaults
    BY HostFaultsAssumption DEF Init
  <2> QED BY <2>2, <2>3, <2>4, <2>5 DEF TypeOK
<1>2. ServesAfterRecorded /\ QuietUnlessUp
  BY DEF Init, ServesAfterRecorded, QuietUnlessUp, NoLoop
<1>3. \A e \in Events : Consistent(row[e])
  BY DEF Init, Consistent, LegacyRow, NoRow, NewRow
<1>4. ~Reached(AfterSucceeded) /\ ~Reached(AfterFailed) /\ ~Reached(AfterStarted)
  BY DEF Init, Reached
<1> QED BY <1>1, <1>2, <1>3, <1>4 DEF Inv, MigrationProgress

\* A host's own step: from one step to the next, as Goes has it.
LEMMA GoesOnly ==
  ASSUME Inv, NEW i \in Instances, NEW from, NEW to \in Steps, Goes(i, from, to)
  PROVE  /\ pc[i] = from
         /\ pc' \in [Instances -> Steps]
         /\ \A j \in Instances : pc'[j] = IF j = i THEN to ELSE pc[j]
BY DEF Inv, TypeOK, Goes

\* A step that writes no record keeps the facts, when nobody comes past an
\* UPDATE by it and the version is not recorded by it.
LEMMA RowsKept ==
  ASSUME Inv, UNCHANGED row,
         \A steps \in {AfterSucceeded, AfterFailed, AfterStarted} : Reached(steps)' => Reached(steps)
  PROVE  MigrationProgress'
<1>1. (Reached(AfterSucceeded)' => Reached(AfterSucceeded))
      /\ (Reached(AfterFailed)' => Reached(AfterFailed))
      /\ (Reached(AfterStarted)' => Reached(AfterStarted))
  OBVIOUS
<1> QED
  BY <1>1 DEF Inv, MigrationProgress, Consistent, ProcessedMarked, FailedMarked, StartIsSet

\* A host that comes up, goes on to a step before the first UPDATE's end, or
\* goes down.
LEMMA QuietHostStep ==
  ASSUME Inv, NEW i \in Instances, NEW from \in {"down", "version", "schema", "record"},
         NEW to \in {"down", "version", "schema", "succeeded"}, Goes(i, from, to),
         UNCHANGED <<recorded, row, loop, faults>>
  PROVE  Inv'
<1>1. pc[i] = from /\ pc' \in [Instances -> Steps]
      /\ \A j \in Instances : pc'[j] = IF j = i THEN to ELSE pc[j]
  BY GoesOnly
<1>2. TypeOK' /\ ServesAfterRecorded' /\ QuietUnlessUp'
  BY <1>1 DEF Inv, TypeOK, ServesAfterRecorded, QuietUnlessUp
<1>3. MigrationProgress'
  BY <1>1, RowsKept DEF Reached
<1> QED BY <1>2, <1>3 DEF Inv

\* The version is found: the process serves.
LEMMA CheckVersionStep == ASSUME Inv, NEW i \in Instances, CheckVersion(i) PROVE Inv'
<1>1. CASE recorded /\ Goes(i, "version", "serving") /\ Served(i)
  <2>1. pc[i] = "version" /\ pc' \in [Instances -> Steps]
        /\ \A j \in Instances : pc'[j] = IF j = i THEN "serving" ELSE pc[j]
    BY <1>1, GoesOnly
  <2>2. UNCHANGED <<recorded, row, faults>> /\ loop' = [loop EXCEPT ![i] = [NoLoop EXCEPT !.pc = "select"]]
    BY <1>1 DEF CheckVersion, Served
  <2>3. TypeOK' /\ ServesAfterRecorded' /\ QuietUnlessUp'
    BY <1>1, <2>1, <2>2 DEF Inv, TypeOK, ServesAfterRecorded, QuietUnlessUp, Loop, NoLoop
  <2>4. MigrationProgress'
    BY <1>1, <2>1, <2>2, RowsKept DEF Reached
  <2> QED BY <2>3, <2>4 DEF Inv
<1>2. CASE ~recorded /\ Goes(i, "version", "schema") /\ UNCHANGED loop
  BY <1>2, QuietHostStep DEF CheckVersion
<1> QED BY <1>1, <1>2 DEF CheckVersion

\* An UPDATE of the migration: from a step to the next one, over all records.
LEMMA UpdateStep ==
  ASSUME Inv, NEW i \in Instances,
         NEW from \in {"succeeded", "failed", "started"}, NEW to \in {"failed", "started", "record"},
         Goes(i, from, to), UNCHANGED <<recorded, loop, faults>>,
         row' \in [Events -> Row],
         \A e \in Events : Consistent(row'[e]),
         Reached(AfterSucceeded) \/ to = "failed" => \A e \in Events : ProcessedMarked(row'[e]),
         Reached(AfterFailed) \/ to = "started" => \A e \in Events : FailedMarked(row'[e]),
         Reached(AfterStarted) \/ to = "record" => \A e \in Events : StartIsSet(row'[e]),
         <<from, to>> \in {<<"succeeded", "failed">>, <<"failed", "started">>, <<"started", "record">>}
  PROVE  Inv'
<1>1. pc[i] = from /\ pc' \in [Instances -> Steps]
      /\ \A j \in Instances : pc'[j] = IF j = i THEN to ELSE pc[j]
  BY GoesOnly
<1>2. TypeOK' /\ ServesAfterRecorded' /\ QuietUnlessUp'
  BY <1>1 DEF Inv, TypeOK, ServesAfterRecorded, QuietUnlessUp
<1>3. Reached(AfterSucceeded)' => Reached(AfterSucceeded) \/ to = "failed"
  BY <1>1 DEF Reached
<1>4. Reached(AfterFailed)' => Reached(AfterFailed) \/ to = "started"
  BY <1>1 DEF Reached
<1>5. Reached(AfterStarted)' => Reached(AfterStarted) \/ to = "record"
  BY <1>1 DEF Reached
<1>6. MigrationProgress'
  BY <1>3, <1>4, <1>5 DEF MigrationProgress, Consistent, ProcessedMarked, FailedMarked, StartIsSet
<1> QED BY <1>2, <1>6 DEF Inv

LEMMA MarkSucceededStep == ASSUME Inv, NEW i \in Instances, MarkSucceeded(i) PROVE Inv'
<1>1. \A e \in Events : row[e] \in Row /\ Consistent(row[e])
  BY DEF Inv, TypeOK, MigrationProgress
<1>2. row' = [e \in Events |-> Succeeded(row[e])]
  BY DEF MarkSucceeded, Succeeded
<1>3. \A e \in Events :
        /\ row'[e] \in Row /\ Consistent(row'[e]) /\ ProcessedMarked(row'[e])
        /\ FailedMarked(row[e]) => FailedMarked(row'[e])
        /\ StartIsSet(row[e]) => StartIsSet(row'[e])
  BY <1>1, <1>2, SucceededRow
<1>4. row' \in [Events -> Row]
  BY <1>2, <1>3
<1>5. Goes(i, "succeeded", "failed") /\ UNCHANGED <<recorded, loop, faults>>
  BY DEF MarkSucceeded
<1> QED BY <1>3, <1>4, <1>5, UpdateStep DEF Inv, MigrationProgress

LEMMA MarkFailedStep == ASSUME Inv, NEW i \in Instances, MarkFailed(i) PROVE Inv'
<1>1. \A e \in Events : row[e] \in Row /\ Consistent(row[e])
  BY DEF Inv, TypeOK, MigrationProgress
<1>2. row' = [e \in Events |-> Failed(row[e])]
  BY DEF MarkFailed, Failed
<1>3. \A e \in Events :
        /\ row'[e] \in Row /\ Consistent(row'[e]) /\ FailedMarked(row'[e])
        /\ ProcessedMarked(row[e]) => ProcessedMarked(row'[e])
        /\ StartIsSet(row[e]) => StartIsSet(row'[e])
  BY <1>1, <1>2, FailedRow
<1>4. row' \in [Events -> Row]
  BY <1>2, <1>3
<1>5. Goes(i, "failed", "started") /\ UNCHANGED <<recorded, loop, faults>>
  BY DEF MarkFailed
<1> QED BY <1>3, <1>4, <1>5, UpdateStep DEF Inv, MigrationProgress

LEMMA SetStartedStep == ASSUME Inv, NEW i \in Instances, SetStarted(i) PROVE Inv'
<1>1. \A e \in Events : row[e] \in Row /\ Consistent(row[e])
  BY DEF Inv, TypeOK, MigrationProgress
<1>2. row' = [e \in Events |-> Started(row[e])]
  BY DEF SetStarted, Started
<1>3. \A e \in Events :
        /\ row'[e] \in Row /\ Consistent(row'[e]) /\ StartIsSet(row'[e])
        /\ ProcessedMarked(row[e]) => ProcessedMarked(row'[e])
        /\ FailedMarked(row[e]) => FailedMarked(row'[e])
  BY <1>1, <1>2, StartedRow
<1>4. row' \in [Events -> Row]
  BY <1>2, <1>3
<1>5. Goes(i, "started", "record") /\ UNCHANGED <<recorded, loop, faults>>
  BY DEF SetStarted
<1> QED BY <1>3, <1>4, <1>5, UpdateStep DEF Inv, MigrationProgress

\* Whoever records the version has been through all three UPDATEs.
LEMMA RecordVersionStep == ASSUME Inv, NEW i \in Instances, RecordVersion(i) PROVE Inv'
<1>1. CASE ~recorded /\ recorded' = TRUE /\ Goes(i, "record", "serving") /\ Served(i)
  <2>1. pc[i] = "record" /\ pc' \in [Instances -> Steps]
        /\ \A j \in Instances : pc'[j] = IF j = i THEN "serving" ELSE pc[j]
    BY <1>1, GoesOnly
  <2>2. UNCHANGED <<row, faults>> /\ loop' = [loop EXCEPT ![i] = [NoLoop EXCEPT !.pc = "select"]]
    BY <1>1 DEF RecordVersion, Served
  <2>3. TypeOK' /\ ServesAfterRecorded' /\ QuietUnlessUp'
    BY <1>1, <2>1, <2>2 DEF Inv, TypeOK, ServesAfterRecorded, QuietUnlessUp, Loop, NoLoop
  <2>4. Reached(AfterSucceeded) /\ Reached(AfterFailed) /\ Reached(AfterStarted)
    BY <2>1 DEF Reached
  <2>5. MigrationProgress'
    BY <2>2, <2>4, RowsKept
  <2> QED BY <2>3, <2>5 DEF Inv
<1>2. CASE recorded /\ Goes(i, "record", "down") /\ UNCHANGED <<recorded, loop>>
  BY <1>2, QuietHostStep DEF RecordVersion
<1> QED BY <1>1, <1>2 DEF RecordVersion

\* A process that dies takes its goroutine with it and leaves the records.
LEMMA DiesStep == ASSUME Inv, NEW i \in Instances, Dies(i) PROVE Inv'
<1>1. \A j \in Instances : pc'[j] = IF j = i THEN "down" ELSE pc[j]
  BY DEF Inv, TypeOK, Dies
<1>2. TypeOK' /\ ServesAfterRecorded' /\ QuietUnlessUp'
  BY HostFaultsAssumption DEF Inv, TypeOK, ServesAfterRecorded, QuietUnlessUp, Dies, Loop, NoLoop
<1>3. MigrationProgress'
  BY <1>1, RowsKept DEF Reached, Dies
<1> QED BY <1>2, <1>3 DEF Inv

\* A webhook is handled only once the version is recorded; a claim or a finish
\* keeps the facts.
LEMMA WebhookStep ==
  ASSUME Inv, NEW e \in Events, Claim(e) \/ Finish(e)
  PROVE  Inv'
<1>1. recorded /\ UNCHANGED <<recorded, pc, loop, faults>>
  BY DEF Inv, ServesAfterRecorded, Claim, Finish, Serving
<1>2. row[e] \in Row /\ Consistent(row[e]) /\ Facts(row[e])
  BY <1>1, FactsOnceRecorded
<1>3. PICK new : /\ row' = [row EXCEPT ![e] = new]
                 /\ new \in Row /\ Consistent(new) /\ Facts(new)
  <2>1. CASE Claim(e)
    <3>1. row' = [row EXCEPT ![e] = NewRow("PROCESSING", row[e].processed, FALSE, TRUE)]
      BY <2>1 DEF Claim
    <3>2. ~row[e].processed
      BY <1>2, <2>1 DEF Claim, Consistent, Facts, ProcessedMarked, Row, NoRow, NewRow
    <3>3. LET new == NewRow("PROCESSING", row[e].processed, FALSE, TRUE)
          IN  new \in Row /\ Consistent(new) /\ Facts(new)
      BY <1>2, <3>2 DEF NewRow, NoRow, Row, Consistent, Facts, ProcessedMarked, FailedMarked, StartIsSet
    <3> QED BY <3>1, <3>3
  <2>2. CASE Finish(e)
    <3>1. ~row[e].processed
      BY <1>2, <2>2 DEF Finish, Facts, ProcessedMarked
    <3>2. LET new == NewRow("SUCCEEDED", TRUE, FALSE, FALSE)
          IN  new \in Row /\ Consistent(new) /\ Facts(new)
      BY DEF Row, NewRow, Consistent, Facts, ProcessedMarked, FailedMarked, StartIsSet
    <3>3. LET new == NewRow("FAILED", row[e].processed, TRUE, FALSE)
          IN  new \in Row /\ Consistent(new) /\ Facts(new)
      BY <3>1, <1>2 DEF Row, NewRow, Consistent, Facts, ProcessedMarked, FailedMarked, StartIsSet
    <3> QED BY <2>2, <3>2, <3>3 DEF Finish
  <2> QED BY <2>1, <2>2
<1>4. \A f \in Events : row'[f] = IF f = e THEN new ELSE row[f]
  BY <1>3 DEF Inv, TypeOK
<1>5. \A f \in Events : row'[f] \in Row /\ Consistent(row'[f]) /\ Facts(row'[f])
  BY <1>1, <1>3, <1>4, FactsOnceRecorded
<1>6. row' \in [Events -> Row]
  BY <1>3, <1>5 DEF Inv, TypeOK
<1>7. MigrationProgress'
  BY <1>5 DEF MigrationProgress, Facts, Consistent, ProcessedMarked, FailedMarked, StartIsSet
<1> QED
  BY <1>1, <1>6, <1>7 DEF Inv, TypeOK, ServesAfterRecorded, QuietUnlessUp

\* The goroutine runs only in a process that is up.
LEMMA LoopStep ==
  ASSUME Inv, NEW i \in Instances, loop[i].pc # "none", NEW new \in Loop,
         loop' = [loop EXCEPT ![i] = new], UNCHANGED <<recorded, row, pc, faults>>
  PROVE  Inv'
<1>1. TypeOK' /\ ServesAfterRecorded' /\ QuietUnlessUp'
  BY DEF Inv, TypeOK, ServesAfterRecorded, QuietUnlessUp
<1>2. MigrationProgress'
  BY RowsKept DEF Reached
<1> QED BY <1>1, <1>2 DEF Inv

LEMMA BackgroundStep == ASSUME Inv, NEW i \in Instances, Background(i) PROVE Inv'
<1>1. loop[i] \in Loop
  BY DEF Inv, TypeOK
<1>2. CASE Tick(i)
  <2>1. [loop[i] EXCEPT !.tick = TRUE] \in Loop
    BY <1>1 DEF Loop
  <2>2. loop' = [loop EXCEPT ![i] = [loop[i] EXCEPT !.tick = TRUE]]
    BY <1>2 DEF Tick
  <2> QED BY <1>2, <2>1, <2>2, LoopStep DEF Tick
<1>3. CASE StartPass(i)
  <2>1. [loop[i] EXCEPT !.pc = "pass", !.tick = FALSE] \in Loop
    BY <1>1 DEF Loop
  <2> QED BY <1>3, <2>1, LoopStep DEF StartPass, Becomes
<1>4. CASE EndPass(i)
  <2>1. [loop[i] EXCEPT !.pc = "select"] \in Loop
    BY <1>1 DEF Loop
  <2> QED BY <1>4, <2>1, LoopStep DEF EndPass, Becomes
<1>5. CASE ExitLoop(i)
  <2>1. NoLoop \in Loop
    BY DEF Loop, NoLoop
  <2> QED BY <1>5, <2>1, LoopStep DEF ExitLoop, Becomes
<1> QED BY <1>2, <1>3, <1>4, <1>5 DEF Background

\* Shutdown cancels the goroutine's context, waits, and returns.
LEMMA ShutdownStep ==
  ASSUME Inv, NEW i \in Instances, Stop(i) \/ ShutdownReturns(i)
  PROVE  Inv'
<1>1. CASE Stop(i)
  <2>1. pc[i] = "serving" /\ pc' \in [Instances -> Steps]
        /\ \A j \in Instances : pc'[j] = IF j = i THEN "shutdown" ELSE pc[j]
    BY <1>1, GoesOnly DEF Stop
  <2>2. loop[i] \in Loop
    BY DEF Inv, TypeOK
  <2>3. [loop[i] EXCEPT !.canceled = TRUE] \in Loop
    BY <2>2 DEF Loop
  <2>4. loop' = [loop EXCEPT ![i] = [loop[i] EXCEPT !.canceled = TRUE]]
    BY <1>1 DEF Stop
  <2>5. TypeOK' /\ ServesAfterRecorded' /\ QuietUnlessUp'
    BY <1>1, <2>1, <2>3, <2>4 DEF Inv, TypeOK, ServesAfterRecorded, QuietUnlessUp, Stop
  <2>6. MigrationProgress'
    BY <1>1, <2>1, RowsKept DEF Reached, Stop
  <2> QED BY <2>5, <2>6 DEF Inv
<1>2. CASE ShutdownReturns(i)
  <2>1. pc[i] = "shutdown" /\ pc' \in [Instances -> Steps]
        /\ \A j \in Instances : pc'[j] = IF j = i THEN "down" ELSE pc[j]
    BY <1>2, GoesOnly DEF ShutdownReturns
  <2>2. TypeOK' /\ ServesAfterRecorded' /\ QuietUnlessUp'
    BY <1>2, <2>1 DEF Inv, TypeOK, ServesAfterRecorded, QuietUnlessUp, ShutdownReturns
  <2>3. MigrationProgress'
    BY <1>2, <2>1, RowsKept DEF Reached, ShutdownReturns
  <2> QED BY <2>2, <2>3 DEF Inv
<1> QED BY <1>1, <1>2

LEMMA NextInv == ASSUME Inv, [Next]_vars PROVE Inv'
<1>1. CASE UNCHANGED vars
  <2>1. TypeOK' /\ ServesAfterRecorded' /\ QuietUnlessUp'
    BY <1>1 DEF Inv, TypeOK, ServesAfterRecorded, QuietUnlessUp, vars
  <2>2. MigrationProgress'
    BY <1>1, RowsKept DEF Reached, vars
  <2> QED BY <2>1, <2>2 DEF Inv
<1>2. ASSUME NEW i \in Instances, Boot(i) PROVE Inv'
  BY <1>2, QuietHostStep DEF Boot
<1>3. ASSUME NEW i \in Instances, AutoMigrate(i) PROVE Inv'
  BY <1>3, QuietHostStep DEF AutoMigrate
<1>4. ASSUME NEW i \in Instances, Migrate(i) PROVE Inv'
  BY <1>3, <1>4, CheckVersionStep, MarkSucceededStep, MarkFailedStep, SetStartedStep,
     RecordVersionStep DEF Migrate, MigrateBy
<1> QED
  BY <1>1, <1>2, <1>4, DiesStep, BackgroundStep, ShutdownStep, WebhookStep DEF Next

-----------------------------------------------------------------------------
LEMMA Invariant == Spec => []Inv
<1>1. Init => Inv
  BY InitInv
<1>2. Inv /\ [Next]_vars => Inv'
  BY NextInv
<1> QED BY <1>1, <1>2, PTL DEF Spec

\* Every variable keeps its type.
THEOREM TypeCorrect == Spec => []TypeOK
<1>1. Inv => TypeOK
  BY DEF Inv
<1> QED BY <1>1, Invariant, PTL

\* runPaymentMigrations: once the version is recorded, every webhook record is
\* as ClaimWebhook expects it.
THEOREM LegacyConvertedHolds == Spec => []LegacyConverted
<1>1. Inv => LegacyConverted
  BY FactsOnceRecorded, FactsConvert DEF LegacyConverted
<1> QED BY <1>1, Invariant, PTL

\* Shutdown: no reconciliation outlives it.
THEOREM QuietAfterShutdownHolds == Spec => []QuietAfterShutdown
<1>1. Inv => QuietAfterShutdown
  BY DEF Inv, QuietUnlessUp, QuietAfterShutdown
<1> QED BY <1>1, Invariant, PTL

\* runPaymentMigrations: a migration that comes late writes no record.
THEOREM LateMigrationHarmlessHolds == Spec => LateMigrationHarmless
<1> DEFINE Harmless ==
      \A i \in Instances : recorded /\ pc[i] \in Migrating /\ pc'[i] # pc[i] => row' = row
<1>1. ASSUME Inv, Next, recorded PROVE Harmless
  <2>1. \A e \in Events : row[e] \in Row /\ Consistent(row[e]) /\ Facts(row[e])
    BY <1>1, FactsOnceRecorded
  <2>2. row = [e \in Events |-> row[e]]
    BY <1>1 DEF Inv, TypeOK
  <2>3. ASSUME NEW i \in Instances, MarkSucceeded(i) PROVE row' = row
    <3>1. row' = [e \in Events |-> Succeeded(row[e])]
      BY <2>3 DEF MarkSucceeded, Succeeded
    <3> QED BY <3>1, <2>1, <2>2, SucceededRow
  <2>4. ASSUME NEW i \in Instances, MarkFailed(i) PROVE row' = row
    <3>1. row' = [e \in Events |-> Failed(row[e])]
      BY <2>4 DEF MarkFailed, Failed
    <3> QED BY <3>1, <2>1, <2>2, FailedRow
  <2>5. ASSUME NEW i \in Instances, SetStarted(i) PROVE row' = row
    <3>1. row' = [e \in Events |-> Started(row[e])]
      BY <2>5 DEF SetStarted, Started
    <3> QED BY <3>1, <2>1, <2>2, StartedRow
  <2>6. ASSUME NEW i \in Instances, MigrateBy(i) PROVE row' = row
    BY <2>3, <2>4, <2>5, <2>6 DEF MigrateBy, AutoMigrate
  <2>7. ASSUME NEW i \in Instances,
               \/ Boot(i) \/ Migrate(i) \/ Dies(i) \/ Background(i) \/ Stop(i) \/ ShutdownReturns(i)
        PROVE  row' = row
    BY <2>6, <2>7 DEF Boot, Migrate, CheckVersion, RecordVersion, Dies, Background, Tick, StartPass,
                      EndPass, ExitLoop, Stop, ShutdownReturns
  <2>8. ASSUME NEW e \in Events, Claim(e) \/ Finish(e) PROVE UNCHANGED pc
    BY <2>8 DEF Claim, Finish
  <2> QED BY <1>1, <2>7, <2>8 DEF Next
<1>2. Inv /\ [Next]_vars => [Harmless]_vars
  BY <1>1
<1> QED BY <1>2, Invariant, PTL DEF Spec, LateMigrationHarmless

\* runPaymentMigrations and ClaimWebhook: what was processed stays processed,
\* since nobody serves before every processed record is marked.
THEOREM ProcessedForGoodHolds == Spec => ProcessedForGood
<1> DEFINE Kept == \A e \in Events : row[e].processed =>
                     row'[e] \in {row[e], [row[e] EXCEPT !.status = "SUCCEEDED"]}
<1>1. ASSUME Inv, Next PROVE Kept
  <2>1. ASSUME NEW i \in Instances, Migrate(i) PROVE Kept
    <3>1. CASE MarkSucceeded(i)
      BY <3>1 DEF MarkSucceeded, Where
    <3>2. CASE MarkFailed(i)
      BY <3>2 DEF MarkFailed, Where
    <3>3. CASE SetStarted(i)
      BY <3>3 DEF SetStarted, Where
    <3>4. CASE CheckVersion(i) \/ AutoMigrate(i) \/ RecordVersion(i)
      BY <3>4 DEF CheckVersion, AutoMigrate, RecordVersion
    <3> QED BY <2>1, <3>1, <3>2, <3>3, <3>4 DEF Migrate, MigrateBy
  <2>2. ASSUME NEW i \in Instances,
               Boot(i) \/ Dies(i) \/ Background(i) \/ Stop(i) \/ ShutdownReturns(i)
        PROVE  Kept
    BY <2>2 DEF Boot, Dies, Background, Tick, StartPass, EndPass, ExitLoop, Stop, ShutdownReturns
  <2>3. ASSUME NEW e \in Events, Claim(e) \/ Finish(e) PROVE Kept
    <3>1. recorded
      BY <1>1, <2>3 DEF Inv, ServesAfterRecorded, Claim, Finish, Serving
    <3>2. row[e].status # "SUCCEEDED" /\ row[e] \in Row /\ Consistent(row[e]) /\ Facts(row[e])
      BY <1>1, <2>3, <3>1, FactsOnceRecorded DEF Claim, Finish
    <3>3. ~row[e].processed
      BY <3>2, FactsConvert
    <3>4. \A f \in Events : f # e => row'[f] = row[f]
      BY <1>1, <2>3 DEF Claim, Finish, Inv, TypeOK
    <3> QED BY <3>3, <3>4
  <2> HIDE DEF Kept
  <2> QED BY <1>1, <2>1, <2>2, <2>3 DEF Next
<1>2. Inv /\ [Next]_vars => [Kept]_vars
  BY <1>1
<1> QED BY <1>2, Invariant, PTL DEF Spec, ProcessedForGood

-----------------------------------------------------------------------------
(* The goroutine and its host.  LoopFollowsHost is inductive as it stands.  *)

\* The goroutine takes a tick, runs a pass or ends one; only when canceled does
\* it exit.
LEMMA BackgroundFollows ==
  ASSUME Inv, LoopFollowsHost, NEW i \in Instances, Background(i)
  PROVE  LoopFollowsHost'
<1>1. UNCHANGED pc /\ loop[i] \in Loop
  BY DEF Background, Tick, StartPass, EndPass, ExitLoop, Inv, TypeOK
<1>2. ASSUME NEW new, loop' = [loop EXCEPT ![i] = new],
             \/ new.pc # "none" /\ loop[i].pc # "none" /\ new.canceled = loop[i].canceled
             \/ loop[i].canceled /\ new.pc = "none"
      PROVE  LoopFollowsHost'
  <2>1. \A j \in Instances : loop'[j] = IF j = i THEN new ELSE loop[j]
    BY <1>2 DEF Inv, TypeOK
  <2> QED BY <1>1, <1>2, <2>1 DEF LoopFollowsHost
<1>3. CASE Tick(i)
  <2>1. PICK new : new = [loop[i] EXCEPT !.tick = TRUE]
    OBVIOUS
  <2>2. new.pc = loop[i].pc /\ new.canceled = loop[i].canceled
    BY <1>1, <2>1 DEF Loop
  <2> QED BY <1>2, <1>3, <2>1, <2>2 DEF Tick
<1>4. CASE StartPass(i)
  <2>1. PICK new : new = [loop[i] EXCEPT !.pc = "pass", !.tick = FALSE]
    OBVIOUS
  <2>2. new.pc = "pass" /\ new.canceled = loop[i].canceled
    BY <1>1, <2>1 DEF Loop
  <2> QED BY <1>2, <1>4, <2>1, <2>2 DEF StartPass, Becomes
<1>5. CASE EndPass(i)
  <2>1. PICK new : new = [loop[i] EXCEPT !.pc = "select"]
    OBVIOUS
  <2>2. new.pc = "select" /\ new.canceled = loop[i].canceled
    BY <1>1, <2>1 DEF Loop
  <2> QED BY <1>2, <1>5, <2>1, <2>2 DEF EndPass, Becomes
<1>6. CASE ExitLoop(i)
  BY <1>2, <1>6 DEF ExitLoop, Becomes, NoLoop
<1> QED BY <1>3, <1>4, <1>5, <1>6 DEF Background

\* A host that goes to a step where it neither serves nor shuts down.
LEMMA HostLeaves ==
  ASSUME Inv, LoopFollowsHost, NEW i \in Instances, NEW from,
         NEW to \in Steps \ {"serving", "shutdown"}, Goes(i, from, to), UNCHANGED loop
  PROVE  LoopFollowsHost'
BY GoesOnly DEF LoopFollowsHost

\* One that comes up, and starts its goroutine.
LEMMA HostServes ==
  ASSUME Inv, LoopFollowsHost, NEW i \in Instances, NEW from, Goes(i, from, "serving"), Served(i)
  PROVE  LoopFollowsHost'
<1>1. \A j \in Instances : loop'[j] = IF j = i THEN [NoLoop EXCEPT !.pc = "select"] ELSE loop[j]
  BY DEF Served, Inv, TypeOK
<1> QED BY <1>1, GoesOnly DEF LoopFollowsHost, NoLoop

LEMMA HostFollows ==
  ASSUME Inv, LoopFollowsHost, NEW i \in Instances,
         Boot(i) \/ Migrate(i) \/ Dies(i) \/ Stop(i) \/ ShutdownReturns(i)
  PROVE  LoopFollowsHost'
<1>1. CASE Boot(i) \/ MigrateBy(i) \/ ShutdownReturns(i)
  BY <1>1, HostLeaves DEF Boot, MigrateBy, AutoMigrate, MarkSucceeded, MarkFailed, SetStarted,
                          ShutdownReturns
<1>2. CASE CheckVersion(i)
  BY <1>2, HostLeaves, HostServes DEF CheckVersion
<1>3. CASE RecordVersion(i)
  BY <1>3, HostLeaves, HostServes DEF RecordVersion
<1>4. CASE Dies(i)
  <2>1. \A j \in Instances : /\ pc'[j] = IF j = i THEN "down" ELSE pc[j]
                             /\ j # i => loop'[j] = loop[j]
    BY <1>4 DEF Dies, Inv, TypeOK
  <2> QED BY <2>1 DEF LoopFollowsHost
<1>5. CASE Stop(i)
  <2>1. \A j \in Instances : pc'[j] = IF j = i THEN "shutdown" ELSE pc[j]
    BY <1>5, GoesOnly DEF Stop
  <2>2. \A j \in Instances : j # i => loop'[j] = loop[j]
    BY <1>5 DEF Stop, Inv, TypeOK
  <2>3. loop'[i].canceled
    BY <1>5 DEF Stop, Inv, TypeOK, Loop
  <2> QED BY <2>1, <2>2, <2>3 DEF LoopFollowsHost
<1> QED BY <1>1, <1>2, <1>3, <1>4, <1>5 DEF Migrate

\* startBackgroundReconciliation and Shutdown: the goroutine lives and is
\* canceled with its host.
THEOREM LoopFollowsHostHolds == Spec => []LoopFollowsHost
<1>1. Init => Inv /\ LoopFollowsHost
  BY InitInv DEF Init, LoopFollowsHost
<1>2. Inv /\ LoopFollowsHost /\ [Next]_vars => (Inv /\ LoopFollowsHost)'
  <2> SUFFICES ASSUME Inv, LoopFollowsHost, [Next]_vars PROVE LoopFollowsHost'
    BY NextInv
  <2>1. ASSUME NEW e \in Events, Claim(e) \/ Finish(e) PROVE LoopFollowsHost'
    BY <2>1 DEF Claim, Finish, LoopFollowsHost
  <2>2. CASE UNCHANGED vars
    BY <2>2 DEF vars, LoopFollowsHost
  <2> QED BY <2>1, <2>2, HostFollows, BackgroundFollows DEF Next
<1> QED BY <1>1, <1>2, PTL DEF Spec
=============================================================================
