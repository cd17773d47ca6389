------------------------------- MODULE Webhooks -------------------------------
(***************************************************************************)
(* Outbound webhooks (webhooks/webhook-dispatcher.service.ts): an alert on *)
(* the event bus becomes one delivery for every enabled endpoint that      *)
(* wants it.  Deliveries wait in a bounded queue, a few are posted at a    *)
(* time, and one that fails is posted again after a pause, a few times.    *)
(*                                                                         *)
(* The service is one thread.  Its awaits are where others get in: the     *)
(* lookup of the endpoints, the post, the reads and writes of the          *)
(* endpoint rows, and the microtask between the two reactions to an        *)
(* answer (then, finally).  The queue is in memory: it ends with the       *)
(* process.                                                                *)
(***************************************************************************)
EXTENDS Naturals, Sequences, FiniteSets, SequencesExt

CONSTANTS
    Endpoints, Events,
    Secrets,            \* the secrets endpoints are given: "short" (8 characters), "long"
    Subscriptions,      \* the event lists endpoints are given
    MAX_QUEUE_DEPTH, MAX_CONCURRENT_DELIVERIES,
    MaxAttempts,        \* maxAttempts of a queued job; this and the limits are at least 1
    Managed, MaxEdits   \* bounds: the endpoints that are created, updated and deleted
                        \* while the service runs, and the number of updates

VARIABLES
    row,        \* the row of each endpoint
    edit,       \* an update between its read and its write, or NoEdit
    edits,
    event,      \* the type of each event whose handler awaits the endpoints; else where it is
    svc,        \* the queue, the jobs being posted and activeDeliveries
    started,    \* the subscription and the timer of the queue
    posts,      \* history: how often each delivery was posted without a final answer
    outcome     \* history: what became of each delivery

rowVars == <<row, edit, edits>>
historyVars == <<posts, outcome>>
vars == <<row, edit, edits, event, svc, started, posts, outcome>>

Deliveries == Endpoints \X Events

(* One type of each sort: a camera alert, which a site alert may cover, the site alert,
   and one that is no webhook event although people are alerted about it. *)
Types == {"camera.offline", "site.offline", "storage.warning"}
ALLOWED_WEBHOOK_EVENTS == {"camera.offline", "site.offline"}

(* What the API shows instead of a secret. *)
Masks == {"whsec_***", "whsec_last4"}
MaskSecret(secret) == IF secret = "long" THEN "whsec_last4" ELSE "whsec_***"

Rows == [state : {"none", "present", "deleted"}, enabled : BOOLEAN,
         events : Subscriptions, secret : Secrets \cup Masks]
NoEdit == [endpoint |-> "none"]
Inputs == [secret : Secrets \cup Masks \cup {""}, enabled : BOOLEAN, events : Subscriptions]
Jobs == [delivery : Deliveries, attempts : 0..MaxAttempts, due : BOOLEAN]
Settled == {"answered", "exhausted"}

TypeOK ==
    /\ row \in [Endpoints -> Rows]
    /\ edit = NoEdit \/ edit \in [endpoint : Endpoints, update : Rows]
    /\ edits \in 0..MaxEdits
    /\ event \in [Events -> Types \cup {"none", "over"}]
    /\ svc.queue \in Seq(Jobs) /\ svc.inFlight \subseteq Jobs
    /\ svc.activeDeliveries \in Cardinality(svc.inFlight)..MAX_CONCURRENT_DELIVERIES
    /\ started \in BOOLEAN
    /\ posts \in [Deliveries -> 0..MaxAttempts]
    /\ outcome \in [Deliveries -> Settled \cup {"none", "overflow", "queued"}]

Init ==
    /\ row \in [Endpoints -> [state : {"none", "present"}, enabled : {TRUE},
                              events : Subscriptions, secret : Secrets]]
    /\ \A p \in Endpoints \ Managed : row[p].state = "present"
    /\ edit = NoEdit
    /\ edits = 0
    /\ event = [e \in Events |-> "none"]
    /\ svc = [queue |-> <<>>, inFlight |-> {}, activeDeliveries |-> 0]
    /\ started = TRUE
    /\ posts = [d \in Deliveries |-> 0]
    /\ outcome = [d \in Deliveries |-> "none"]

-------------------------------------------------------------------------------
(* The queue *)

(* Mutant: the loop goes on while activeDeliveries <= the limit. *)
FreeSlotsOneMore(s) == MAX_CONCURRENT_DELIVERIES + 1 - s.activeDeliveries

(* processQueue: every free slot takes the first job that is due.  A job becomes due by
   the passing of time only, so the loop finds the ones that were due when it began. *)
FreeSlots(s) == MAX_CONCURRENT_DELIVERIES - s.activeDeliveries
Taken(s) ==
    {i \in DOMAIN s.queue :
        s.queue[i].due /\ Cardinality({k \in 1..i : s.queue[k].due}) <= FreeSlots(s)}

(* The numbers of a set in their order. *)
InOrder(S) == CHOOSE f \in [1..Cardinality(S) -> S] : \A m, n \in DOMAIN f : m < n => f[m] < f[n]

ProcessQueue(s) ==
    LET left == InOrder(DOMAIN s.queue \ Taken(s))
    IN  [queue |-> [n \in DOMAIN left |-> s.queue[left[n]]],
         inFlight |-> s.inFlight \cup
             {[s.queue[i] EXCEPT !.attempts = @ + 1] : i \in Taken(s)},
         activeDeliveries |-> s.activeDeliveries + Cardinality(Taken(s))]

(* enqueueEvent: a full queue drops the job. *)
Full(s) == Len(s.queue) >= MAX_QUEUE_DEPTH
EnqueueEvent(s, d) ==
    IF Full(s) THEN s
    ELSE ProcessQueue([s EXCEPT !.queue =
             Append(@, [delivery |-> d, attempts |-> 0, due |-> TRUE])])

Queued(s) == {s.queue[i].delivery : i \in DOMAIN s.queue}
Posting(s) == {j.delivery : j \in s.inFlight}

(* What a run of the queue adds to the history: a post for every job newly taken. *)
Counted(p, before, after) ==
    [d \in Deliveries |-> p[d] + IF d \in Posting(after) \ Posting(before) THEN 1 ELSE 0]
CountPosts(before, after) == posts' = Counted(posts, before, after)

-------------------------------------------------------------------------------
(* From the event bus to the queue *)

(* An event that the site alert covers is no alert; others wait for the endpoints. *)
Broadcast(e, type, siteOutage) ==
    /\ started
    /\ event[e] = "none"
    /\ siteOutage => type = "camera.offline"
    /\ event' = [event EXCEPT ![e] = IF siteOutage THEN "over" ELSE type]
    /\ UNCHANGED <<rowVars, svc, started, historyVars>>

(* "*" stands for the allowed events, not for every event. *)
Expanded(events) == IF "*" \in events THEN ALLOWED_WEBHOOK_EVENTS ELSE events
Interested(e) ==
    {p \in Endpoints : /\ row[p].state = "present" /\ row[p].enabled
                       /\ event[e] \in Expanded(row[p].events)}

(* One job after the other, in the order of the endpoints. *)
EnqueueAll(s, order, e) ==
    LET After[i \in 0..Len(order)] ==
            IF i = 0 THEN s ELSE EnqueueEvent(After[i - 1], <<order[i], e>>)
    IN  After[Len(order)]

(* The endpoints are read, in whatever order the database gives them, and every
   interested one gets a job, or none when the queue is full at its turn. *)
HandleEvent(e) ==
    /\ event[e] \in Types
    /\ event' = [event EXCEPT ![e] = "over"]
    /\ \E order \in SetToSeqs(Interested(e)) :
        LET end == EnqueueAll(svc, order, e)
        IN  /\ svc' = end
            /\ CountPosts(svc, end)
            /\ outcome' = [d \in Deliveries |->
                  IF d \notin {<<p, e>> : p \in Interested(e)} THEN outcome[d]
                  ELSE IF d \in Queued(end) \cup Posting(end) THEN "queued" ELSE "overflow"]
    /\ UNCHANGED <<rowVars, started>>

(* The read is rejected: the listener swallows it and the event reaches no endpoint. *)
HandleEventFails(e) ==
    /\ event[e] \in Types
    /\ event' = [event EXCEPT ![e] = "over"]
    /\ UNCHANGED <<rowVars, svc, started, historyVars>>

-------------------------------------------------------------------------------
(* The post and what follows it *)

(* Mutant: a 4xx is tried again like any failure. *)
RetriedOnRefusal(j, result) == result # "ok" /\ j.attempts < MaxAttempts

(* The answer arrives, or the post fails: "failed" stands for every result that may be
   tried again (5xx, 3xx, 429, a timeout, a failed or blocked name lookup), "refused" for
   another 4xx.  The reaction queues the job again when it is to be retried, whatever the
   depth of the queue; the slot is still taken. *)
Retried(j, result) == result = "failed" /\ j.attempts < MaxAttempts
Outcome(j, result) ==
    CASE result \in {"ok", "refused"} -> "answered"
      [] Retried(j, result) -> "queued"
      [] OTHER -> "exhausted"

Answer(j, result) ==
    /\ j \in svc.inFlight
    /\ svc' = [svc EXCEPT !.inFlight = @ \ {j},
                          !.queue = IF Retried(j, result)
                                    THEN Append(@, [j EXCEPT !.due = FALSE]) ELSE @]
    /\ outcome' = [outcome EXCEPT ![j.delivery] = Outcome(j, result)]
    /\ posts' = [posts EXCEPT ![j.delivery] = IF result = "failed" THEN @ ELSE 0]
    /\ UNCHANGED <<rowVars, event, started>>

(* Mutant: the slot is not given back. *)
FinallyLeaksSlot ==
    /\ svc.activeDeliveries > Cardinality(svc.inFlight)
    /\ svc' = ProcessQueue(svc)
    /\ CountPosts(svc, svc')
    /\ UNCHANGED <<rowVars, event, started, outcome>>

(* The second reaction gives the slot back and runs the queue. *)
Finally ==
    /\ svc.activeDeliveries > Cardinality(svc.inFlight)
    /\ svc' = ProcessQueue([svc EXCEPT !.activeDeliveries = @ - 1])
    /\ CountPosts(svc, svc')
    /\ UNCHANGED <<rowVars, event, started, outcome>>

(* The pause of a job ends (2 s, then 4 s, give or take a fifth). *)
BackoffEnds(i) ==
    /\ i \in DOMAIN svc.queue /\ ~ svc.queue[i].due
    /\ svc' = [svc EXCEPT !.queue[i].due = TRUE]
    /\ UNCHANGED <<rowVars, event, started, historyVars>>

Timer ==
    /\ started
    /\ Taken(svc) # {}
    /\ svc' = ProcessQueue(svc)
    /\ CountPosts(svc, svc')
    /\ UNCHANGED <<rowVars, event, started, outcome>>

(* Shutdown: no more events and no more timer.  What is being posted goes on, and so does
   the queue as long as an answer arrives. *)
Stop ==
    /\ started
    /\ started' = FALSE
    /\ UNCHANGED <<rowVars, event, svc, historyVars>>

-------------------------------------------------------------------------------
(* The endpoints *)

(* A new endpoint: its secret is sent or generated, and its list of events is "*" when
   none is sent.  Init leaves the choice of both in the row. *)
CreateEndpoint(p) ==
    /\ row[p].state = "none"
    /\ row' = [row EXCEPT ![p].state = "present"]
    /\ UNCHANGED <<edit, edits, event, svc, started, historyVars>>

(* updateEndpoint reads the row, may look the new address up, and writes every column.
   The console and other clients send back what they were shown: the mask of a secret. *)
UpdatedSecret(stored, sent) == IF sent \in {"", "whsec_***"} THEN stored ELSE sent

UpdateRead(p, input) ==
    /\ edit = NoEdit /\ edits < MaxEdits
    /\ row[p].state = "present"
    /\ input.secret \in Masks => input.secret = MaskSecret(row[p].secret)
    /\ edit' = [endpoint |-> p,
                update |-> [state |-> "present", enabled |-> input.enabled, events |-> input.events,
                            secret |-> UpdatedSecret(row[p].secret, input.secret)]]
    /\ edits' = edits + 1
    /\ UNCHANGED <<row, event, svc, started, historyVars>>

(* The write of a row that is gone is rejected. *)
UpdateWrite ==
    /\ edit # NoEdit
    /\ row' = IF row[edit.endpoint].state # "present" THEN row
              ELSE [row EXCEPT ![edit.endpoint] = edit.update]
    /\ edit' = NoEdit
    /\ UNCHANGED <<edits, event, svc, started, historyVars>>

DeleteEndpoint(p) ==
    /\ row[p].state = "present"
    /\ row' = [row EXCEPT ![p].state = "deleted"]
    /\ UNCHANGED <<edit, edits, event, svc, started, historyVars>>

(* The look at the new address fails or finds a blocked one: nothing is written. *)
UpdateRejected ==
    /\ edit # NoEdit
    /\ edit' = NoEdit
    /\ UNCHANGED <<row, edits, event, svc, started, historyVars>>

-------------------------------------------------------------------------------

Deliver ==
    \/ \E e \in Events : HandleEvent(e)
    \/ \E j \in svc.inFlight, result \in {"ok", "refused", "failed"} : Answer(j, result)
    \/ Finally
    \/ \E i \in DOMAIN svc.queue : BackoffEnds(i)
    \/ Timer

Next ==
    \/ Deliver
    \/ \E e \in Events, t \in Types, o \in BOOLEAN : Broadcast(e, t, o)
    \/ \E e \in Events : HandleEventFails(e)
    \/ \E p \in Managed, i \in Inputs : UpdateRead(p, i)
    \/ UpdateWrite
    \/ UpdateRejected
    \/ \E p \in Managed : CreateEndpoint(p) \/ DeleteEndpoint(p)
    \/ Stop

Spec == Init /\ [][Next]_vars

(* The process gets on with what it has: the awaited answer comes or times out
   (REQUEST_TIMEOUT_MS), reactions run, pauses end and the timer fires every second. *)
Fairness ==
    /\ WF_vars(\E j \in svc.inFlight, result \in {"ok", "refused", "failed"} : Answer(j, result))
    /\ WF_vars(Finally)
    /\ WF_vars(\E i \in DOMAIN svc.queue : BackoffEnds(i))
    /\ WF_vars(Timer)

FairSpec == Spec /\ Fairness

-------------------------------------------------------------------------------
(* Properties *)

(* No delivery is lost, doubled or posted too often between the queue, the slots and the
   retries: one that is under way is in exactly one place, one that is over is in none, and
   it is given up, short of a refusal, only when it was posted MaxAttempts times. *)
Copies(d) ==
    Cardinality({i \in DOMAIN svc.queue : svc.queue[i].delivery = d})
        + Cardinality({j \in svc.inFlight : j.delivery = d})
DeliveryIsAccounted ==
    \A d \in Deliveries :
        /\ Copies(d) = IF outcome[d] = "queued" THEN 1 ELSE 0
        /\ outcome[d] \in {"none", "overflow"} => posts[d] = 0
        /\ outcome[d] = "exhausted" => posts[d] = MaxAttempts

(* Retries are queued whatever the depth, so MAX_QUEUE_DEPTH alone is no bound of the queue;
   the jobs in memory are bounded all the same, since a retry gives up the slot it had. *)
QueueIsBounded ==
    Len(svc.queue) + Cardinality(svc.inFlight) <= MAX_QUEUE_DEPTH + MAX_CONCURRENT_DELIVERIES

(* A delivery never waits for its first post while a slot is free: whoever queues a job or
   gives a slot back runs the queue, so retries that pause in front do not hold it up. *)
FreshNeverWaits ==
    (\E i \in DOMAIN svc.queue : svc.queue[i].attempts = 0)
        => svc.activeDeliveries = MAX_CONCURRENT_DELIVERIES

(* The inductive invariant behind them: where the jobs are, and what was counted of each. *)
OnePlace(s) ==
    /\ \A i, k \in DOMAIN s.queue : s.queue[i].delivery = s.queue[k].delivery => i = k
    /\ \A j, k \in s.inFlight : j.delivery = k.delivery => j = k
    /\ Queued(s) \cap Posting(s) = {}

ServiceInv(s, p) ==
    /\ s = [queue |-> s.queue, inFlight |-> s.inFlight, activeDeliveries |-> s.activeDeliveries]
    /\ s.queue \in Seq(Jobs) /\ s.inFlight \in SUBSET Jobs /\ IsFiniteSet(s.inFlight)
    /\ s.activeDeliveries \in Cardinality(s.inFlight)..MAX_CONCURRENT_DELIVERIES
    /\ OnePlace(s)
    /\ \A i \in DOMAIN s.queue : LET job == s.queue[i]
                                IN  /\ job.attempts = p[job.delivery] /\ job.attempts < MaxAttempts
                                    /\ job.attempts = 0 => job.due
    /\ \A j \in s.inFlight : j.attempts = p[j.delivery] /\ j.attempts # 0
    /\ Len(s.queue) + Cardinality(s.inFlight) <= MAX_QUEUE_DEPTH + MAX_CONCURRENT_DELIVERIES

HooksInv ==
    /\ posts \in [Deliveries -> Nat] /\ DOMAIN outcome = Deliveries
    /\ ServiceInv(svc, posts) /\ FreshNeverWaits
    /\ \A d \in Deliveries :
          /\ outcome[d] = "queued" <=> d \in Queued(svc) \cup Posting(svc)
          /\ outcome[d] \in {"none", "overflow"} => posts[d] = 0
          /\ outcome[d] = "exhausted" => posts[d] = MaxAttempts
    /\ DOMAIN event = Events
    /\ \A e \in Events : event[e] # "over" => \A p \in Endpoints : outcome[<<p, e>>] = "none"

(* While the service runs, every queued delivery is delivered, refused or posted
   MaxAttempts times: no slot leaks and no job stays in the queue. *)
EverythingSettles ==
    \A d \in Deliveries : (outcome[d] = "queued") ~> (outcome[d] \in Settled \/ ~ started)

(* An update that sends a mask back keeps the stored secret (the comment of updateEndpoint),
   so no signature is ever made with a mask. *)
SecretIsKept == \A p \in Endpoints : row[p].secret \notin Masks
===============================================================================
