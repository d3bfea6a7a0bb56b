------------------------------ MODULE PluginHost ------------------------------
(***************************************************************************)
(* The plugin's life in the processes that host it: Migrate, which several *)
(* processes may run at a time and any of them may leave half done, Start  *)
(* with the background reconciliation, and Shutdown, which waits for it;   *)
(* and the webhook records that version 1 of the schema converts, while a  *)
(* process that has come up already claims and finishes them.              *)
(*                                                                         *)
(* A process serves once version 1 is recorded (README.md of the source:   *)
(* run migrations, then start).  The statements of a migration take effect *)
(* one by one, as on MySQL, where AutoMigrate's DDL commits the            *)
(* transaction; on PostgreSQL a failed one would also be rolled back.      *)
(***************************************************************************)
EXTENDS Integers

CONSTANTS
  Instances,  \* processes that run the plugin
  Events,     \* webhook events with a record, from before version 1 or new
  MaxFaults   \* bound: processes that die or statements that fail

ASSUME HostFaultsAssumption == MaxFaults \in Nat

VARIABLES
  recorded,  \* payment_module_migrations has version 1
  row,       \* row[e]: the payment_webhook_events record
  pc,        \* pc[i]: what the host of instance i is doing
  loop,      \* loop[i]: the reconciliation goroutine
  faults

vars == <<recorded, row, pc, loop, faults>>

-----------------------------------------------------------------------------
Migrating == {"version", "schema", "succeeded", "failed", "started", "record"}
Steps == {"down", "serving", "shutdown"} \cup Migrating

Row == [status    : {"ABSENT", "PROCESSING", "FAILED", "SUCCEEDED"},
        processed : BOOLEAN,    \* processed_at IS NOT NULL
        error     : BOOLEAN,    \* last_error <> ''
        started   : BOOLEAN]    \* processing_started_at IS NOT NULL
NewRow(status, processed, error, started) ==
  [status |-> status, processed |-> processed, error |-> error, started |-> started]
NoRow == NewRow("ABSENT", FALSE, FALSE, FALSE)
\* A record from before version 1: the new columns get their defaults.
LegacyRow == {r \in Row : r.status = "PROCESSING" /\ ~r.started}

Loop == [pc : {"none", "select", "pass"}, canceled : BOOLEAN, tick : BOOLEAN]
NoLoop == [pc |-> "none", canceled |-> FALSE, tick |-> FALSE]

TypeOK ==
  /\ recorded \in BOOLEAN
  /\ row \in [Events -> Row]
  /\ pc \in [Instances -> Steps]
  /\ loop \in [Instances -> Loop]
  /\ faults \in 0..MaxFaults

Init ==
  /\ recorded = FALSE
  /\ row \in [Events -> LegacyRow \cup {NoRow}]
  /\ pc = [i \in Instances |-> "down"]
  /\ loop = [i \in Instances |-> NoLoop]
  /\ faults = 0

Goes(i, from, to) == pc[i] = from /\ pc' = [pc EXCEPT ![i] = to]

-----------------------------------------------------------------------------
(* runPaymentMigrations.                                                    *)

Boot(i) == Goes(i, "down", "version") /\ UNCHANGED <<recorded, row, loop, faults>>

\* Start follows Migrate.
Served(i) == loop' = [loop EXCEPT ![i] = [NoLoop EXCEPT !.pc = "select"]]

\* The version is looked up outside of any transaction.
CheckVersion(i) ==
  /\ \/ recorded /\ Goes(i, "version", "serving") /\ Served(i)
     \/ ~recorded /\ Goes(i, "version", "schema") /\ UNCHANGED loop
  /\ UNCHANGED <<recorded, row, faults>>

AutoMigrateRecords(i) ==
  /\ Goes(i, "schema", "succeeded")
  /\ recorded' = TRUE
  /\ UNCHANGED <<row, loop, faults>>
AutoMigrate(i) ==
  Goes(i, "schema", "succeeded") /\ UNCHANGED <<recorded, row, loop, faults>>

Where(old, condition, new) == IF old.status # "ABSENT" /\ condition THEN new ELSE old

\* UPDATE ... WHERE processed_at IS NOT NULL
MarkSucceeded(i) ==
  /\ Goes(i, "succeeded", "failed")
  /\ row' = [e \in Events |->
       Where(row[e], row[e].processed, [row[e] EXCEPT !.status = "SUCCEEDED"])]
  /\ UNCHANGED <<recorded, loop, faults>>

\* UPDATE ... WHERE processed_at IS NULL AND last_error <> ''
MarkFailed(i) ==
  /\ Goes(i, "failed", "started")
  /\ row' = [e \in Events |->
       Where(row[e], ~row[e].processed /\ row[e].error, [row[e] EXCEPT !.status = "FAILED"])]
  /\ UNCHANGED <<recorded, loop, faults>>

\* UPDATE ... WHERE processed_at IS NULL AND no error AND processing_started_at
\* IS NULL, so that a lease can expire.
SetStarted(i) ==
  /\ Goes(i, "started", "record")
  /\ row' = [e \in Events |->
       Where(row[e], ~row[e].processed /\ ~row[e].error, [row[e] EXCEPT !.started = TRUE])]
  /\ UNCHANGED <<recorded, loop, faults>>

\* The version's row; a duplicate key fails the migration and the start.
RecordVersion(i) ==
  /\ \/ ~recorded /\ recorded' = TRUE /\ Goes(i, "record", "serving") /\ Served(i)
     \/ recorded /\ Goes(i, "record", "down") /\ UNCHANGED <<recorded, loop>>
  /\ UNCHANGED <<row, faults>>

MigrateBy(i) == AutoMigrate(i) \/ MarkSucceeded(i) \/ MarkFailed(i) \/ SetStarted(i)
Migrate(i) == CheckVersion(i) \/ MigrateBy(i) \/ RecordVersion(i)

\* A statement of the migration fails, or the process dies.
Dies(i) ==
  /\ pc[i] # "down" /\ faults < MaxFaults
  /\ pc' = [pc EXCEPT ![i] = "down"]
  /\ loop' = [loop EXCEPT ![i] = NoLoop]
  /\ faults' = faults + 1
  /\ UNCHANGED <<recorded, row>>

-----------------------------------------------------------------------------
(* Webhooks, handled by a process that serves.                              *)

Serving == \E i \in Instances : pc[i] = "serving"

\* ClaimWebhook: a new record, a FAILED one, or a PROCESSING one whose start
\* is longer ago than the lease.
ClaimKeepsError(e) ==
  /\ Serving
  /\ \/ row[e].status \in {"ABSENT", "FAILED"}
     \/ row[e].status = "PROCESSING" /\ row[e].started
  /\ row' = [row EXCEPT ![e] = NewRow("PROCESSING", row[e].processed, row[e].error, TRUE)]
  /\ UNCHANGED <<recorded, pc, loop, faults>>
Claim(e) ==
  /\ Serving
  /\ \/ row[e].status \in {"ABSENT", "FAILED"}
     \/ row[e].status = "PROCESSING" /\ row[e].started
  /\ row' = [row EXCEPT ![e] = NewRow("PROCESSING", row[e].processed, FALSE, TRUE)]
  /\ UNCHANGED <<recorded, pc, loop, faults>>

\* FinishWebhook by the lease's holder.
Finish(e) ==
  /\ Serving
  /\ row[e].status = "PROCESSING" /\ row[e].started
  /\ \/ row' = [row EXCEPT ![e] = NewRow("SUCCEEDED", TRUE, FALSE, FALSE)]
     \/ row' = [row EXCEPT ![e] = NewRow("FAILED", row[e].processed, TRUE, FALSE)]
  /\ UNCHANGED <<recorded, pc, loop, faults>>

-----------------------------------------------------------------------------
(* startBackgroundReconciliation and Shutdown.                              *)

Becomes(i, from, new) == loop[i].pc = from /\ loop' = [loop EXCEPT ![i] = new]

\* The ticker keeps one tick until it is received.
Tick(i) ==
  /\ loop[i].pc # "none" /\ ~loop[i].tick
  /\ loop' = [loop EXCEPT ![i].tick = TRUE]
  /\ UNCHANGED <<recorded, row, pc, faults>>
\* select picks any case that is ready: a tick may win over ctx.Done.
StartPass(i) ==
  /\ loop[i].tick
  /\ Becomes(i, "select", [loop[i] EXCEPT !.pc = "pass", !.tick = FALSE])
  /\ UNCHANGED <<recorded, row, pc, faults>>
\* Reconcile returns, soon when its context is canceled.
EndPass(i) ==
  /\ Becomes(i, "pass", [loop[i] EXCEPT !.pc = "select"])
  /\ UNCHANGED <<recorded, row, pc, faults>>
ExitLoop(i) ==
  /\ loop[i].canceled
  /\ Becomes(i, "select", NoLoop)
  /\ UNCHANGED <<recorded, row, pc, faults>>

StopNotCalled(i) ==
  Goes(i, "serving", "shutdown") /\ UNCHANGED <<recorded, row, loop, faults>>
Stop(i) ==
  /\ Goes(i, "serving", "shutdown")
  /\ loop' = [loop EXCEPT ![i].canceled = TRUE]
  /\ UNCHANGED <<recorded, row, faults>>

\* wg.Wait
ReturnAtOnce(i) == Goes(i, "shutdown", "down") /\ UNCHANGED <<recorded, row, loop, faults>>
ShutdownReturns(i) ==
  /\ loop[i].pc = "none"
  /\ Goes(i, "shutdown", "down")
  /\ UNCHANGED <<recorded, row, loop, faults>>

Background(i) == Tick(i) \/ StartPass(i) \/ EndPass(i) \/ ExitLoop(i)

Next ==
  \/ \E i \in Instances :
       Boot(i) \/ Migrate(i) \/ Dies(i) \/ Background(i) \/ Stop(i) \/ ShutdownReturns(i)
  \/ \E e \in Events : Claim(e) \/ Finish(e)

Spec == Init /\ [][Next]_vars

\* A pass ends, as provider calls and statements honour their context; select is
\* fair to a case that is ready; Shutdown goes on when the goroutine is gone.
FairSpec ==
  /\ Spec
  /\ \A i \in Instances :
       WF_vars(EndPass(i)) /\ SF_vars(ExitLoop(i)) /\ WF_vars(ShutdownReturns(i))

-----------------------------------------------------------------------------
\* runPaymentMigrations: once the version is recorded every webhook record is as
\* ClaimWebhook expects it, whichever processes migrated, died half way or did
\* both at a time: what was processed is never processed again, and a record
\* left PROCESSING has a start, so that its lease can expire.
LegacyConverted ==
  recorded => \A e \in Events :
    /\ row[e].processed <=> row[e].status = "SUCCEEDED"
    /\ row[e].status = "PROCESSING" => row[e].started

\* runPaymentMigrations: a process that found the version missing, and applies it
\* after another one has recorded it, leaves the records alone that are being
\* claimed and finished by then.
LateMigrationHarmless ==
  [][\A i \in Instances :
       recorded /\ pc[i] \in Migrating /\ pc'[i] # pc[i] => row' = row]_vars

\* runPaymentMigrations with ClaimWebhook: the record of a webhook that was
\* processed, before version 1 or since, is marked SUCCEEDED at most; nobody claims
\* it, while migrations run, overlap or fail.
ProcessedForGood ==
  [][\A e \in Events : row[e].processed =>
       row'[e] \in {row[e], [row[e] EXCEPT !.status = "SUCCEEDED"]}]_vars

\* startBackgroundReconciliation: a process that serves has its reconciliation,
\* uncanceled; of one that shuts down it has ended or been told to.
LoopFollowsHost ==
  \A i \in Instances :
    /\ pc[i] = "serving" => loop[i].pc # "none" /\ ~loop[i].canceled
    /\ pc[i] = "shutdown" => loop[i].pc = "none" \/ loop[i].canceled

\* Shutdown: once it has returned no reconciliation of this process runs or will
\* start, though a tick may have been pending.
QuietAfterShutdown == \A i \in Instances : pc[i] = "down" => loop[i].pc = "none"

\* Shutdown returns, though it came during a pass or together with a tick.
ShutdownEnds == \A i \in Instances : pc[i] = "shutdown" ~> pc[i] = "down"
=============================================================================
