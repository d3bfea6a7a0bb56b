---------------------------- MODULE WebhookInbox ----------------------------
(***************************************************************************)
(* The webhook inbox: the payment_webhook_events table, the handlers that  *)
(* claim, process and finish an event under a lease (HandleWebhook of the  *)
(* three providers), the provider that redelivers until it is answered     *)
(* 200, the operator's RetryWebhook, and the payload clean-up.             *)
(*                                                                         *)
(* Every SQL statement is one atomic step; a handler may be interrupted    *)
(* between any two of them.  Times are kept as ages (time elapsed since),  *)
(* which saturate at Cap, so the model needs no bound on the clock: the    *)
(* handler's captured time.Now() is wk[w].age, processing_started_at is    *)
(* row[e].age.                                                             *)
(*                                                                         *)
(* A definition that no action uses (ClaimableForever, HoldsAnyLease, ...)  *)
(* is a mistaken variant of the one that follows it; the properties below  *)
(* are known to reject it.                                                 *)
(***************************************************************************)
EXTENDS Integers

CONSTANTS
  Events,           \* (provider, event id) pairs
  Workers,          \* request goroutines, of any number of processes
  Leases,           \* lease ids: random, so never one that is still in use
  None,             \* no lease, no event
  LeaseTime,        \* PAYMENT_WEBHOOK_LEASE, in ticks
  MaxStall,         \* bound: ticks from time.Now() to the end of a claim
  MaxFaults,        \* bound: faults of the environment in one behaviour
  SignatureExpires  \* a stored signature stops verifying some time later

ASSUME LeaseTimeAssumption == LeaseTime \in Nat
ASSUME MaxStallAssumption == MaxStall \in Nat
ASSUME MaxFaultsAssumption == MaxFaults \in Nat
ASSUME NoneAssumption == None \notin Leases /\ None \notin Events
ASSUME SignatureAssumption == SignatureExpires \in BOOLEAN

VARIABLES
  row,     \* row[e]: the payment_webhook_events record of e
  wk,      \* wk[w]: what handler w is doing
  acked,   \* events the provider was answered 200 for: no more redelivery
  faults   \* environment faults so far

vars == <<row, wk, acked, faults>>

-----------------------------------------------------------------------------
Cap == LeaseTime + MaxStall + 1
NoAge == -1                                     \* a NULL timestamp
Ages == NoAge..Cap
Older(a) == IF a = NoAge \/ a = Cap THEN a ELSE a + 1

Row == [status : {"ABSENT", "PROCESSING", "FAILED", "SUCCEEDED"},
        lease  : Leases \cup {None},
        age    : Ages,        \* now - processing_started_at
        payload: BOOLEAN,     \* the payload is stored
        sig    : BOOLEAN]     \* the stored signature still verifies
NoRow == [status |-> "ABSENT", lease |-> None, age |-> NoAge,
          payload |-> FALSE, sig |-> FALSE]

Steps == {"idle", "mark", "verify", "insert", "takeover",
          "process", "finish", "reply"}
Worker == [pc   : Steps,
           kind : {"delivery", "retry"},
           ev   : Events \cup {None},
           lease: Leases \cup {None},
           age  : Ages,       \* now - the time.Now() of ClaimWebhook
           ok   : BOOLEAN,    \* the handler's error is nil
           body : BOOLEAN,    \* it has the event's payload
           sig  : BOOLEAN]    \* the signature it was given verifies
Idle == [pc |-> "idle", kind |-> "delivery", ev |-> None, lease |-> None,
         age |-> NoAge, ok |-> FALSE, body |-> FALSE, sig |-> FALSE]

TypeOK ==
  /\ row \in [Events -> Row]
  /\ wk \in [Workers -> Worker]
  /\ acked \subseteq Events
  /\ faults \in 0..MaxFaults

Init ==
  /\ row = [e \in Events |-> NoRow]
  /\ wk = [w \in Workers |-> Idle]
  /\ acked = {}
  /\ faults = 0

\* The environment does something that it does only finitely often.
Fault == faults < MaxFaults /\ faults' = faults + 1

\* webhookLeaseID: 16 random bytes never repeat an id that anybody still has.
FreshLeases ==
  {l \in Leases : /\ \A e \in Events : row[e].lease # l
                  /\ \A w \in Workers : wk[w].lease # l}

\* ClaimWebhook reads the clock and draws a lease id before its statements.
StartClaim(w, base) ==
  \E l \in FreshLeases :
    wk' = [wk EXCEPT ![w] = [base EXCEPT !.pc = "insert", !.lease = l, !.age = 0]]

\* The handler returns: nil when ok, an error otherwise.
Return(w, ok) ==
  wk' = [wk EXCEPT ![w] = [@ EXCEPT !.pc = "reply", !.ok = ok, !.lease = None,
                                    !.age = NoAge]]
-----------------------------------------------------------------------------
\* The provider posts e, again and again until it is answered 200; a signed
\* delivery passes the provider's verification and goes on to claim.
Deliver(w, e) ==
  /\ wk[w].pc = "idle"
  /\ e \notin acked
  /\ StartClaim(w, [Idle EXCEPT !.kind = "delivery", !.ev = e,
                                !.body = TRUE, !.sig = TRUE])
  /\ UNCHANGED <<row, acked, faults>>

\* RetryWebhook: GetWebhook copies the stored payload and signature.
RetryGet(w, e) ==
  /\ wk[w].pc = "idle"
  /\ row[e].status # "ABSENT"
  /\ wk' = [wk EXCEPT ![w] = [Idle EXCEPT !.pc = "mark", !.kind = "retry", !.ev = e,
                                          !.body = row[e].payload, !.sig = row[e].sig]]
  /\ UNCHANGED <<row, acked, faults>>

\* RetryWebhook: MarkWebhookForRetry updates a FAILED record or reports
\* gorm.ErrRecordNotFound.
Markable(e) == row[e].status = "FAILED"
RetryMark(w) ==
  LET e == wk[w].ev IN
  /\ wk[w].pc = "mark"
  /\ \/ /\ Markable(e)
        /\ row' = [row EXCEPT ![e].age = NoAge]
        /\ wk' = [wk EXCEPT ![w].pc = "verify"]
     \/ ~Markable(e) /\ Return(w, FALSE) /\ UNCHANGED row
  /\ UNCHANGED <<acked, faults>>

\* RetryWebhook: HandleWebhook verifies the stored payload and signature anew.
RetryVerify(w) ==
  /\ wk[w].pc = "verify"
  /\ IF wk[w].body /\ wk[w].sig THEN StartClaim(w, wk[w]) ELSE Return(w, FALSE)
  /\ UNCHANGED <<row, acked, faults>>

-----------------------------------------------------------------------------
\* The record as w's claim leaves it.
ClaimedSameLease(w) ==
  [status |-> "PROCESSING", lease |-> row[wk[w].ev].lease, age |-> wk[w].age,
   payload |-> wk[w].body, sig |-> wk[w].sig]
Claimed(w) ==
  [status |-> "PROCESSING", lease |-> wk[w].lease, age |-> wk[w].age,
   payload |-> wk[w].body, sig |-> wk[w].sig]

\* ClaimWebhook, first statement: INSERT ... ON CONFLICT DO NOTHING.
ClaimInsert(w) ==
  LET e == wk[w].ev IN
  /\ wk[w].pc = "insert"
  /\ \/ /\ row[e].status = "ABSENT"
        /\ row' = [row EXCEPT ![e] = Claimed(w)]
        /\ wk' = [wk EXCEPT ![w].pc = "process"]
     \/ /\ row[e].status # "ABSENT"
        /\ wk' = [wk EXCEPT ![w].pc = "takeover"]
        /\ UNCHANGED row
  /\ UNCHANGED <<acked, faults>>

\* A PROCESSING record whose attempt began longer than a lease before the
\* claimer read its clock; a NULL start compares as false.
Expired(w, e) ==
  /\ row[e].age # NoAge
  /\ row[e].age - wk[w].age > LeaseTime
ClaimableFromTheStart(w, e) == row[e].status \in {"FAILED", "PROCESSING"}
ClaimableForever(w, e) ==
  \/ row[e].status \in {"FAILED", "SUCCEEDED"}
  \/ row[e].status = "PROCESSING" /\ Expired(w, e)
ClaimableExpiredOnly(w, e) == row[e].status = "PROCESSING" /\ Expired(w, e)
Claimable(w, e) ==
  \/ row[e].status = "FAILED"
  \/ row[e].status = "PROCESSING" /\ Expired(w, e)

\* ClaimWebhook, second statement: UPDATE ... WHERE claimable.  A record that
\* is not claimable is reported as a duplicate, which the handler answers nil.
ClaimTakeover(w) ==
  LET e == wk[w].ev IN
  /\ wk[w].pc = "takeover"
  /\ \/ /\ Claimable(w, e)
        /\ row' = [row EXCEPT ![e] = Claimed(w)]
        /\ wk' = [wk EXCEPT ![w].pc = "process"]
     \/ ~Claimable(w, e) /\ Return(w, TRUE) /\ UNCHANGED row
  /\ UNCHANGED <<acked, faults>>

\* handleStripeEvent, processAppleNotification, processNotification: here only
\* their outcome matters.
Process(w) ==
  /\ wk[w].pc = "process"
  /\ \/ wk' = [wk EXCEPT ![w].pc = "finish", ![w].ok = TRUE] /\ UNCHANGED faults
     \/ wk' = [wk EXCEPT ![w].pc = "finish", ![w].ok = FALSE] /\ Fault
  /\ UNCHANGED <<row, acked>>

\* FinishWebhook: UPDATE ... WHERE status = PROCESSING AND lease_id = mine.
HoldsAnyLease(w) == row[wk[w].ev].status = "PROCESSING"
Holds(w) == LET e == wk[w].ev IN
            row[e].status = "PROCESSING" /\ row[e].lease = wk[w].lease
FinishHeld(w) ==
  LET e == wk[w].ev IN
  /\ wk[w].pc = "finish"
  /\ Holds(w)
  /\ row' = [row EXCEPT ![e].status = IF wk[w].ok THEN "SUCCEEDED" ELSE "FAILED",
                        ![e].age = NoAge]
  /\ Return(w, wk[w].ok)
  /\ UNCHANGED <<acked, faults>>

\* FinishWebhook, no such row: ErrPaymentWebhookLeaseLost.
LeaseLostIgnored(w) ==
  /\ wk[w].pc = "finish"
  /\ ~Holds(w)
  /\ Return(w, wk[w].ok)
  /\ UNCHANGED <<row, acked, faults>>
FinishLost(w) ==
  /\ wk[w].pc = "finish"
  /\ ~Holds(w)
  /\ Return(w, FALSE)
  /\ UNCHANGED <<row, acked, faults>>

\* Notify answers the provider 200 when the handler returned nil; the answer
\* may be lost.  RetryWebhook answers the operator.
ReplyAlwaysOk(w) ==
  /\ wk[w].pc = "reply"
  /\ wk' = [wk EXCEPT ![w] = Idle]
  /\ acked' = acked \cup {wk[w].ev}
  /\ UNCHANGED <<row, faults>>
Reply(w) ==
  /\ wk[w].pc = "reply"
  /\ wk' = [wk EXCEPT ![w] = Idle]
  /\ \/ /\ wk[w].kind = "delivery" /\ wk[w].ok
        /\ acked' = acked \cup {wk[w].ev}
        /\ UNCHANGED faults
     \/ /\ wk[w].kind = "delivery" /\ wk[w].ok
        /\ Fault
        /\ UNCHANGED acked
     \/ /\ ~(wk[w].kind = "delivery" /\ wk[w].ok)
        /\ UNCHANGED <<acked, faults>>
  /\ UNCHANGED row
-----------------------------------------------------------------------------
\* A statement fails (the database, or the request's context was canceled by
\* a provider that hung up); the handler returns the error.
DbError(w) ==
  /\ wk[w].pc \in {"mark", "insert", "takeover", "finish"}
  /\ Return(w, FALSE)
  /\ Fault
  /\ UNCHANGED <<row, acked>>

\* The process that runs handler w dies, or its machine does.
Crash(w) ==
  /\ wk[w].pc # "idle"
  /\ wk' = [wk EXCEPT ![w] = Idle]
  /\ Fault
  /\ UNCHANGED <<row, acked>>

\* Reconcile ends with CleanupWebhookPayloads; the retention may have elapsed.
Cleanable(e) == row[e].status = "SUCCEEDED"
Cleanup(e) ==
  /\ Cleanable(e)
  /\ row' = [row EXCEPT ![e].payload = FALSE, ![e].sig = FALSE]
  /\ UNCHANGED <<wk, acked, faults>>

\* ConstructEvent accepts a Stripe signature for 300 seconds, Google's OIDC
\* token for an hour: a stored one stops verifying.
SignatureAges(e) ==
  /\ SignatureExpires
  /\ row[e].sig
  /\ row' = [row EXCEPT ![e].sig = FALSE]
  /\ UNCHANGED <<wk, acked, faults>>

\* One tick of the clock.  A claim is never stalled beyond MaxStall; an attempt
\* outlives its lease only as a fault.
Overrun == \E w \in Workers : wk[w].pc \in {"process", "finish"} /\ wk[w].age = LeaseTime
Tick ==
  /\ \A w \in Workers : wk[w].pc \in {"insert", "takeover"} => wk[w].age < MaxStall
  /\ row' = [e \in Events |-> [row[e] EXCEPT !.age = Older(@)]]
  /\ wk' = [w \in Workers |-> [wk[w] EXCEPT !.age = Older(@)]]
  /\ IF Overrun THEN Fault ELSE UNCHANGED faults
  /\ UNCHANGED acked

Handle(w) ==
  \/ RetryMark(w) \/ RetryVerify(w)
  \/ ClaimInsert(w) \/ ClaimTakeover(w)
  \/ Process(w) \/ FinishHeld(w) \/ FinishLost(w) \/ Reply(w)

Next ==
  \/ \E w \in Workers, e \in Events : Deliver(w, e) \/ RetryGet(w, e)
  \/ \E w \in Workers : Handle(w) \/ DbError(w) \/ Crash(w)
  \/ \E e \in Events : Cleanup(e) \/ SignatureAges(e)
  \/ Tick

Spec == Init /\ [][Next]_vars

\* Handlers run, time passes, the provider redelivers until it is answered 200,
\* and the operator retries what FailedWebhooks lists.
Redeliver(e) == e \notin acked /\ \E w \in Workers : Deliver(w, e)
RetryFailed(e) == row[e].status = "FAILED" /\ \E w \in Workers : RetryGet(w, e)
Fairness ==
  /\ \A w \in Workers : WF_vars(Handle(w))
  /\ WF_vars(Tick)
  /\ \A e \in Events : SF_vars(Redeliver(e)) /\ SF_vars(RetryFailed(e))
FairSpec == Spec /\ Fairness

-----------------------------------------------------------------------------
Processing(w) == wk[w].pc \in {"process", "finish"}
Owned(w) == wk[w].lease = row[wk[w].ev].lease

\* ClaimWebhook's lease: two handlers work on one event at a time only when the
\* earlier one has been at it for longer than PAYMENT_WEBHOOK_LEASE.
LeaseExclusion ==
  \A w1, w2 \in Workers :
    w1 # w2 /\ Processing(w1) /\ Processing(w2) /\ wk[w1].ev = wk[w2].ev
      => wk[w1].age > LeaseTime \/ wk[w2].age > LeaseTime

\* FinishWebhook: an outcome is recorded by nobody but the handler that holds
\* the lease, so an attempt that was taken over cannot overwrite its successor.
OnlyHolderFinishes ==
  [][\A e \in Events :
       row[e].status = "PROCESSING" /\ row'[e].status # "PROCESSING"
         => \E w \in Workers : wk[w].pc = "finish" /\ wk[w].ev = e /\ Owned(w)]_vars

\* ClaimWebhook and MarkWebhookForRetry leave a SUCCEEDED event alone, however
\* deliveries, retries and crashes interleave: it is never processed again.
SucceededIsFinal ==
  [][\A e \in Events : row[e].status = "SUCCEEDED" => row'[e].status = "SUCCEEDED"]_vars

\* HandleWebhook: a handler that did the work returns nil only once SUCCEEDED
\* is on record; one that lost its lease reports ErrPaymentWebhookLeaseLost.
FinishedOkIsDurable ==
  [][\A w \in Workers :
       wk[w].pc = "finish" /\ wk'[w].pc = "reply" /\ wk'[w].ok
         => row'[wk[w].ev].status = "SUCCEEDED"]_vars

\* An event that can still be processed keeps its payload: neither clean-up nor
\* a retry that read the record earlier ever takes or overwrites it.
PayloadKept ==
  /\ \A e \in Events : row[e].status \in {"PROCESSING", "FAILED"} => row[e].payload
  /\ \A w \in Workers : wk[w].pc \in {"verify", "insert", "takeover"} => wk[w].body

\* ClaimWebhook and FinishWebhook while nothing goes wrong: however deliveries,
\* duplicates and retries interleave, an event is in the hands of exactly one
\* handler from its claim until it is SUCCEEDED, and is never FAILED.  A claim
\* that stalls longer than a lease is something that goes wrong.
Handles(w, e) == Processing(w) /\ wk[w].ev = e
Undisturbed == faults = 0 /\ MaxStall <= LeaseTime
OneHandlerEach ==
  Undisturbed => \A e \in Events :
    /\ row[e].status # "FAILED"
    /\ row[e].status = "PROCESSING" <=> \E w \in Workers : Handles(w, e)
    /\ \A v, w \in Workers : Handles(v, e) /\ Handles(w, e) => v = w

\* Every PROCESSING record has a start time, so ClaimWebhook can one day take
\* it over (a NULL one would stay locked for ever).
ProcessingReclaimable ==
  \A e \in Events : row[e].status = "PROCESSING" => row[e].age # NoAge

\* An event whose attempt died while its delivery was answered as a duplicate:
\* nothing but another delivery will process it.
Orphaned(e) ==
  /\ row[e].status = "PROCESSING"
  /\ e \in acked
  /\ \A w \in Workers : Processing(w) /\ wk[w].ev = e => ~Owned(w)

\* An event that failed after a duplicate of it was answered 200, and whose
\* stored signature no longer verifies: RetryWebhook refuses it for ever.
Lapsed(e) == row[e].status = "FAILED" /\ e \in acked /\ ~row[e].sig

\* HandleWebhook and RetryWebhook under finitely many faults: every event is in
\* the end SUCCEEDED for good; only one that was answered 200 as a duplicate
\* can be lost, orphaned by a crash or lapsed before it was retried.
EventuallySettled ==
  \A e \in Events : <>[](row[e].status = "SUCCEEDED" \/ Orphaned(e) \/ Lapsed(e))

-----------------------------------------------------------------------------
\* The strengthening that makes the lease argument inductive: who holds a
\* record shares its start time, who lost one has overrun the lease.
LeasesDistinct ==
  \A w1, w2 \in Workers :
    w1 # w2 /\ wk[w1].lease # None => wk[w1].lease # wk[w2].lease
ClaimersHoldNothing ==
  \A w \in Workers :
    wk[w].pc \in {"insert", "takeover"} =>
      /\ wk[w].ev \in Events /\ wk[w].lease \in Leases /\ wk[w].age \in 0..MaxStall
      /\ wk[w].body
      /\ \A e \in Events : row[e].lease # wk[w].lease
      /\ wk[w].pc = "takeover" => row[wk[w].ev].status # "ABSENT"
HoldersOrOverrun ==
  \A w \in Workers : Processing(w) =>
    /\ wk[w].ev \in Events /\ wk[w].lease \in Leases
    /\ row[wk[w].ev].status # "ABSENT"
    /\ \A e \in Events : row[e].lease = wk[w].lease => e = wk[w].ev
    /\ Owned(w) => row[wk[w].ev].status = "PROCESSING" /\ row[wk[w].ev].age = wk[w].age
    /\ ~Owned(w) => wk[w].age > LeaseTime
HandlersHaveEvents ==
  \A w \in Workers : wk[w].pc # "idle" => wk[w].ev \in Events
RepliersRecorded ==
  /\ \A w \in Workers : wk[w].pc = "reply" /\ wk[w].ok => row[wk[w].ev].status # "ABSENT"
  /\ \A e \in acked : row[e].status # "ABSENT"
MarkersHavePayload ==
  \A w \in Workers :
    wk[w].pc = "mark" /\ row[wk[w].ev].status # "SUCCEEDED" => wk[w].body
LeaseInv ==
  /\ LeasesDistinct
  /\ HandlersHaveEvents
  /\ ClaimersHoldNothing
  /\ HoldersOrOverrun
  /\ RepliersRecorded
  /\ ProcessingReclaimable
  /\ PayloadKept /\ MarkersHavePayload
InboxInv == TypeOK /\ LeaseInv

-----------------------------------------------------------------------------
\* The inbox keeps what WebhookLifecycle promises.
Lifecycle == INSTANCE WebhookLifecycle
  WITH status <- [e \in Events |-> row[e].status],
       holder <- [e \in Events |-> row[e].lease]
ImplementsLifecycle == Lifecycle!Spec

-----------------------------------------------------------------------------
(* What the documentation says and the code does not do.                   *)

\* docs/OPERATIONS.md: a process interruption is recovered after the lease.
InterruptionRecovered ==
  \A e \in Events : row[e].status = "PROCESSING" ~> row[e].status \in {"FAILED", "SUCCEEDED"}

\* controller.go: a retry answers 204 after the event has been processed
\* successfully.
RetryOkMeansSucceeded ==
  \A w \in Workers :
    wk[w].pc = "reply" /\ wk[w].kind = "retry" /\ wk[w].ok
      => row[wk[w].ev].status = "SUCCEEDED"
=============================================================================
