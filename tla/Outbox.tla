------------------------------- MODULE Outbox -------------------------------
(***************************************************************************)
(* The message campaigns of one business: people launch, pause and resume  *)
(* them, events queue messages of their own, and the messaging tick drains *)
(* the outbox: it reserves credit for a batch, hands the messages to the   *)
(* provider one by one, settles what went out and completes the campaigns  *)
(* whose queue is empty (message-campaigns-service.ts,                     *)
(* message-outbox-service.ts).  The cost document of a completed campaign  *)
(* (message-cost-posting.ts) is never reached, so it is not here: see      *)
(* Reconcile.                                                              *)
(*                                                                         *)
(* Grain.  Every statement outside a transaction is a step, two where it   *)
(* reads what it then writes over, and so are the provider's answer and    *)
(* the row written after it.  tickInFlight lets one tick run.  A message   *)
(* costs one unit of credit, a failed one nothing.                         *)
(***************************************************************************)
EXTENDS Integers, FiniteSets, Sequences, Functions

CONSTANTS
    Campaigns,
    Triggered,      \* those an event queues, of one recipient
    Channels,
    ChannelOf,      \* [Campaigns -> Channels]
    Requests,       \* launch requests that may be under way together
    Audience,       \* recipients of a launched campaign
    BatchLimit,     \* DRAIN_BATCH_LIMIT
    MaxAttempts,    \* message_outbox.max_attempts
    MaxRows,        \* bound: outbox rows
    Credit,         \* the credit there is at first
    MaxActs,        \* bound: what people do after a launch
    MaxDeaths       \* bound: server deaths

ASSUME OutboxAssumption ==
    /\ Triggered \subseteq Campaigns
    /\ ChannelOf \in [Campaigns -> Channels]
    /\ {Audience, BatchLimit, MaxAttempts} \subseteq Nat \ {0}
    /\ {MaxRows, Credit, MaxActs, MaxDeaths} \subseteq Nat

Rows == 1..MaxRows
None == "none"

VARIABLES
    campaign,   \* [Campaigns -> message_campaigns.status]
    row,        \* [Rows -> the outbox row, and how often the provider accepted it]
    accepted,   \* what the provider accepted in all
    queue,      \* the due rows, by next_attempt_at
    launch,     \* [Requests -> the campaign whose status it has checked]
    adapters,   \* the channels the console has configured
    credit,     \* the wallet's balance
    charged,    \* what the wallet was charged for messages, less the refunds
    drain,      \* the tick: its batch, its reservation and what it has sent
    acts,
    deaths

vars == <<campaign, row, accepted, queue, launch, adapters, credit, charged, drain, acts, deaths>>

Statuses == {"draft", "sending", "paused", "completed"}
Answers == {"sent", "retry", "permanent"}  \* of the provider
Counted == {"retry_counted", "permanent_counted"}
NoRow == [campaign |-> None, status |-> None, attempts |-> 0, accepted |-> 0]
Idle == [pc |-> "idle", todo |-> {}, adapters |-> {}, answer |-> "none",
         reserved |-> 0, cost |-> 0, touched |-> {}]

Init ==
    /\ campaign = [c \in Campaigns |-> "draft"]
    /\ row = [r \in Rows |-> NoRow]
    /\ accepted = 0
    /\ queue = <<>>
    /\ launch = [q \in Requests |-> None]
    /\ adapters = Channels
    /\ credit = Credit
    /\ charged = 0
    /\ drain = Idle
    /\ acts = 0
    /\ deaths = 0

-----------------------------------------------------------------------------
(* Campaigns.                                                               *)

\* The rows a campaign's transaction inserts, due at once.
Insert(c, n) ==
    LET last == Cardinality({r \in Rows : row[r].status # None})
        new == (last + 1)..(last + n) IN
    /\ new \subseteq Rows
    /\ row' = [r \in Rows |-> IF r \in new THEN [NoRow EXCEPT !.campaign = c, !.status = "queued"]
                              ELSE row[r]]
    /\ queue' = queue \o [i \in 1..n |-> last + i]
    /\ campaign' = [campaign EXCEPT ![c] = "sending"]

\* launchMessageCampaign up to its transaction: the status is read without a lock.
CheckLaunch(q, c) ==
    /\ launch[q] = None
    /\ c \notin Triggered
    /\ campaign[c] \notin {"sending", "completed"}
    /\ launch' = [launch EXCEPT ![q] = c]
    /\ UNCHANGED <<campaign, row, accepted, queue, adapters, credit, charged, drain, acts, deaths>>

Launch(q) ==
    /\ launch[q] # None
    /\ Insert(launch[q], Audience)
    /\ launch' = [launch EXCEPT ![q] = None]
    /\ UNCHANGED <<accepted, adapters, credit, charged, drain, acts, deaths>>

\* queueTriggeredMessageCampaign: campaign, recipient and row in one transaction.
QueueTriggered(c) ==
    /\ c \in Triggered /\ campaign[c] = "draft"
    /\ Insert(c, 1)
    /\ UNCHANGED <<accepted, launch, adapters, credit, charged, drain, acts, deaths>>

Act == acts < MaxActs /\ acts' = acts + 1

\* Mutant: a failed row counts as open.
QueuedOf_OrFailed(c) == {r \in Rows : row[r].campaign = c /\ row[r].status \in {"queued", "failed"}}

\* Mutant: a row that waits for its backoff is not open.
QueuedOf_Due(c) == {r \in Rows : row[r].campaign = c /\ r \in Range(queue)}

QueuedOf(c) == {r \in Rows : row[r].campaign = c /\ row[r].status = "queued"}

Pause(c) ==
    /\ Act
    /\ campaign[c] = "sending"
    /\ campaign' = [campaign EXCEPT ![c] = "paused"]
    /\ UNCHANGED <<row, accepted, queue, launch, adapters, credit, charged, drain, deaths>>

Resume(c) ==
    /\ Act
    /\ campaign[c] = "paused" /\ QueuedOf(c) # {}
    /\ campaign' = [campaign EXCEPT ![c] = "sending"]
    /\ UNCHANGED <<row, accepted, queue, launch, adapters, credit, charged, drain, deaths>>

\* The console configures a channel, or takes its provider away.
Configure(ch) ==
    /\ Act
    /\ adapters' = IF ch \in adapters THEN adapters \ {ch} ELSE adapters \cup {ch}
    /\ UNCHANGED <<campaign, row, accepted, queue, launch, credit, charged, drain, deaths>>

TopUp ==
    /\ Act
    /\ credit' = credit + 1
    /\ UNCHANGED <<campaign, row, accepted, queue, launch, adapters, charged, drain, deaths>>

-----------------------------------------------------------------------------
(* The tick.                                                                *)

\* drainRows: the earliest of the due rows whose campaign is sending.
Batch ==
    LET ready == {i \in DOMAIN queue : campaign[row[queue[i]].campaign] = "sending"} IN
    {queue[i] : i \in {i \in ready : Cardinality({j \in ready : j < i}) < BatchLimit}}

\* tickInFlight.
MayDrain == drain.pc = "idle"

\* The batch is read and its cost reserved; too little credit ends the drain.  Nothing but the
\* drain changes a row of the batch, so a pause between the two is one right after them.
BeginDrain ==
    /\ MayDrain
    /\ Batch # {}
    /\ credit >= Cardinality(Batch)
    /\ credit' = credit - Cardinality(Batch)
    /\ charged' = charged + Cardinality(Batch)
    /\ drain' = [Idle EXCEPT !.pc = "sending", !.todo = Batch, !.adapters = adapters,
                             !.reserved = Cardinality(Batch)]
    /\ UNCHANGED <<campaign, row, accepted, queue, launch, adapters, acts, deaths>>

\* The loop is at r: the first of what is left of the batch, which stays in the queue's order.
At(r) ==
    /\ drain.pc = "sending" /\ r \in drain.todo
    /\ \E i \in DOMAIN queue :
          queue[i] = r /\ \A j \in 1..(i - 1) : queue[j] \notin drain.todo

Has(r) == ChannelOf[row[r].campaign] \in drain.adapters
Onwards(r) ==
    [drain EXCEPT !.todo = @ \ {r}, !.answer = "none", !.touched = @ \cup {row[r].campaign}]
Without(r) ==
    LET i == CHOOSE i \in DOMAIN queue : queue[i] = r IN
    SubSeq(queue, 1, i - 1) \o SubSeq(queue, i + 1, Len(queue))

\* No adapter for the channel: the row stays queued.
Skip(r) ==
    /\ At(r) /\ drain.answer = "none"
    /\ ~Has(r)
    /\ drain' = Onwards(r)
    /\ UNCHANGED <<campaign, row, accepted, queue, launch, adapters, credit, charged, acts, deaths>>

\* The provider's answer (external: the adapters' send).
Send(r, answer) ==
    /\ At(r) /\ drain.answer = "none"
    /\ Has(r)
    /\ IF answer = "sent"
         THEN row' = [row EXCEPT ![r].accepted = @ + 1] /\ accepted' = accepted + 1
         ELSE UNCHANGED <<row, accepted>>
    /\ drain' = [drain EXCEPT !.answer = answer]
    /\ UNCHANGED <<campaign, queue, launch, adapters, credit, charged, acts, deaths>>

\* Mutant: the row is not written.
RecordSent_Unwritten(r) ==
    /\ At(r) /\ drain.answer = "sent"
    /\ drain' = [Onwards(r) EXCEPT !.cost = @ + 1]
    /\ UNCHANGED <<campaign, row, accepted, queue, launch, adapters, credit, charged, acts, deaths>>

RecordSent(r) ==
    /\ At(r) /\ drain.answer = "sent"
    /\ row' = [row EXCEPT ![r].status = "sent"]
    /\ queue' = Without(r)
    /\ drain' = [Onwards(r) EXCEPT !.cost = @ + 1]
    /\ UNCHANGED <<campaign, accepted, launch, adapters, credit, charged, acts, deaths>>

\* A failure is counted first and decided on after.
CountFailure(r) ==
    /\ At(r) /\ drain.answer \in {"retry", "permanent"}
    /\ row' = [row EXCEPT ![r].attempts = @ + 1]
    /\ drain' = [drain EXCEPT !.answer = IF @ = "retry" THEN "retry_counted" ELSE "permanent_counted"]
    /\ UNCHANGED <<campaign, accepted, queue, launch, adapters, credit, charged, acts, deaths>>

\* Mutant: a failure is retried for ever.
GivesUp_Never(r) == drain.answer = "permanent_counted"

GivesUp(r) == drain.answer = "permanent_counted" \/ row[r].attempts >= MaxAttempts

\* The row fails, or waits for its backoff.
RecordFailure(r) ==
    /\ At(r) /\ drain.answer \in Counted
    /\ row' = [row EXCEPT ![r].status = IF GivesUp(r) THEN "failed" ELSE "queued"]
    /\ queue' = Without(r)
    /\ drain' = Onwards(r)
    /\ UNCHANGED <<campaign, accepted, launch, adapters, credit, charged, acts, deaths>>

\* settleMessageSend: what did not go out is refunded.
Settle ==
    LET refund == drain.reserved - drain.cost IN
    /\ drain.pc = "sending" /\ drain.todo = {}
    /\ credit' = credit + refund
    /\ charged' = charged - refund
    /\ drain' = [drain EXCEPT !.pc = "reconciling"]
    /\ UNCHANGED <<campaign, row, accepted, queue, launch, adapters, acts, deaths>>

\* reconcileCampaigns is one UPDATE, but it counts the open rows on its snapshot, and a launch
\* that holds the campaign's row makes it wait and write what it had counted.
CountOpen ==
    /\ drain.pc = "reconciling"
    /\ drain' = [drain EXCEPT !.pc = "completing",
                              !.touched = {c \in Campaigns : c \in @ /\ QueuedOf(c) = {}}]
    /\ UNCHANGED <<campaign, row, accepted, queue, launch, adapters, credit, charged, acts, deaths>>

\* Whatever its status, a touched campaign with an empty queue is completed, and the tick is
\* over.  The UPDATE's RETURNING sees the status it has just written, so no campaign counts as
\* one that "became" completed and postCompletedCampaignCost is not called.
Reconcile ==
    /\ drain.pc = "completing"
    /\ campaign' = [c \in Campaigns |-> IF c \in drain.touched THEN "completed" ELSE campaign[c]]
    /\ drain' = Idle
    /\ UNCHANGED <<row, accepted, queue, launch, adapters, credit, charged, acts, deaths>>

\* A backoff is over.
ComesDue(r) ==
    /\ row[r].status = "queued" /\ r \notin Range(queue)
    /\ queue' = Append(queue, r)
    /\ UNCHANGED <<campaign, row, accepted, launch, adapters, credit, charged, drain, acts, deaths>>

\* The server dies.
Die ==
    /\ deaths < MaxDeaths
    /\ deaths' = deaths + 1
    /\ drain' = Idle
    /\ launch' = [q \in Requests |-> None]
    /\ UNCHANGED <<campaign, row, accepted, queue, adapters, credit, charged, acts>>

TickStep ==
    \/ BeginDrain
    \/ \E r \in drain.todo : \/ Skip(r) \/ (\E a \in Answers : Send(r, a))
                             \/ RecordSent(r) \/ CountFailure(r) \/ RecordFailure(r)
    \/ Settle
    \/ CountOpen
    \/ Reconcile

Next ==
    \/ \E q \in Requests, c \in Campaigns : CheckLaunch(q, c)
    \/ \E q \in Requests : Launch(q)
    \/ \E c \in Campaigns : QueueTriggered(c) \/ Pause(c) \/ Resume(c)
    \/ \E ch \in Channels : Configure(ch)
    \/ TopUp
    \/ TickStep
    \/ \E r \in Rows : ComesDue(r)
    \/ Die

Spec == Init /\ [][Next]_vars

\* The timer starts the tick and a tick that runs goes on; backoffs end.
FairSpec ==
    /\ Spec
    /\ WF_vars(TickStep)
    /\ \A r \in Rows : WF_vars(ComesDue(r))

-----------------------------------------------------------------------------
\* The type invariant: the balance is never overdrawn, and only a death can let a row be tried
\* more often than max_attempts.
TypeOK ==
    /\ campaign \in [Campaigns -> Statuses]
    /\ \A r \in Rows : /\ row[r].campaign \in Campaigns \cup {None}
                       /\ row[r].status \in {None, "queued", "sent", "failed"}
                       /\ row[r].attempts \in 0..(MaxAttempts + MaxDeaths)
    /\ Range(queue) \subseteq {r \in Rows : row[r].status = "queued"}
    /\ launch \in [Requests -> Campaigns \cup {None}]
    /\ adapters \subseteq Channels
    /\ credit \in Nat /\ charged \in Nat
    /\ drain.pc \in {"idle", "sending", "reconciling", "completing"}
    /\ drain.answer \in Answers \cup Counted \cup {"none"}
    /\ drain.todo \subseteq Rows
    /\ acts \in 0..MaxActs /\ deaths \in 0..MaxDeaths

\* What the open batch has reserved and not yet sent.
Open == IF drain.pc = "sending"
          THEN drain.reserved - drain.cost - (IF drain.answer = "sent" THEN 1 ELSE 0)
          ELSE 0

\* A queued message goes out once, and once more at most for each death of the server; every
\* message the provider accepted was paid for before it went, re-sent ones included; and unless
\* the server died in a drain, nothing else was charged (runBusinessMessageDrain).
SentOnceAndPaid ==
    /\ \A r \in Rows : row[r].accepted <= 1 + deaths
    /\ \A r \in Rows : row[r].status = "sent" => row[r].accepted > 0
    /\ charged >= accepted + Open
    /\ deaths = 0 => charged = accepted + Open

\* To a business the outbox is prepaid post, whatever its drains, backoffs, pauses, racing
\* launches and deaths do: a message is sent or given up once, went out and was paid for before
\* it counts as sent, a campaign is completed after a look that found nothing of it queued (a row
\* that waits for its backoff is), and money only moves between the wallet and the charges
\* (launchMessageCampaign, runBusinessMessageDrain).
Life == [r \in Rows |-> row[r].status]
Sender == [r \in Rows |-> row[r].campaign]
Went == [r \in Rows |-> row[r].accepted]
Completed == {c \in Campaigns : campaign[c] = "completed"}
Found == {c \in Campaigns : drain.pc = "completing" /\ c \in drain.touched}

P == INSTANCE Prepaid WITH
        Messages <- Rows, life <- Life, sender <- Sender, went <- Went, gone <- accepted,
        checked <- Found, done <- Completed, purse <- credit, paid <- charged,
        restarts <- deaths

ImplementsPrepaid == P!Spec

\* What stops a queue by right: a channel without an adapter, too little credit for a batch.
Stopped == adapters # Channels \/ credit < BatchLimit

\* A second launch of a campaign has queued its recipients again.
Relaunched(c) == Cardinality({r \in Rows : row[r].campaign = c}) > Audience

\* A due message of a running campaign is sent or given up in the end, and a campaign whose
\* queue the ticks worked off is completed, unless it is paused, a channel lost its adapter or
\* the credit ran out; after a death the rows still go, the campaign's status may not.  Only a
\* second launch can leave rows behind for good, under a campaign completed over them
\* (runMessagingTick, reconcileCampaigns).
QueueDrains ==
    /\ \A r \in Rows :
          row[r].status = "queued"
          ~> \/ row[r].status # "queued" \/ campaign[row[r].campaign] = "paused" \/ Stopped
             \/ campaign[row[r].campaign] = "completed" /\ Relaunched(row[r].campaign)
    /\ \A c \in Campaigns :
          campaign[c] = "sending"
          ~> campaign[c] # "sending" \/ Stopped \/ deaths > 0

=============================================================================
