--------------------------- MODULE EventDelivery ---------------------------
(***************************************************************************)
(* How a bill change reaches an open household page: the outbox processor  *)
(* of every API instance (OutboxProcessor), the subscriptions it keeps in  *)
(* memory (InMemoryRealtimeSubscriptionRegistry), the event stream         *)
(* (RealtimeEndpoints), the browser's client (PropriumRealtimeClient) and  *)
(* the page that fetches the bills again on every event it handles.        *)
(*                                                                         *)
(* Event n is the outbox row of change n of Households.  The page is one   *)
(* of many; the others do not influence it.                                *)
(***************************************************************************)
EXTENDS Households, Sequences, Bags, SequencesExt

CONSTANTS
    Instances,   \* API instances
    Fleets,      \* Fleets[load]: the deployments a run with these bounds has
    NoInstance,  \* the page has no open connection
    BatchSize,   \* rows the processor selects at a time
    Capacity,    \* of a subscription's channel
    Remembered   \* event ids the client keeps

ASSUME DeliveryAssumption ==
    /\ NoInstance \notin Instances
    /\ Fleets \in [Loads -> SUBSET SUBSET Instances]
    /\ BatchSize \in Nat \ {0} /\ Capacity \in Nat \ {0} /\ Remembered \in Nat \ {0}

VARIABLES
    fleet,      \* the API instances of the deployment
    open,       \* the household page is open
    processed,  \* events with a ProcessedAtUtc
    batch,      \* batch[i]: rows i has selected and locked and has not tried yet
    outcome,    \* outcome[i]: rows of the batch it has published
    failed,     \* failed[i]: rows of the batch whose publishing failed
    on,         \* the instance the page's stream is open at, or NoInstance
    channel,    \* events in the page's channel
    seen,       \* processedEventIds of the client, oldest first
    asked,      \* fetches of the bills that have not been answered from the database
    answers,    \* answers on their way to the page, a bag of the changes they contain
    shown,      \* changes contained in the bills on the page
    \* history
    published,  \* events published at least once
    last,       \* the event written to the page's channel last, 0 if none
    handled,    \* events the page has handled
    swallowed,  \* a heartbeat has dropped an event
    spoiled     \* what may keep the page from catching up

processorVars == <<fleet, processed, batch, outcome, failed, published>>
streamVars == <<on, channel, last>>
pageVars == <<open, seen, asked, answers, shown, handled>>
deliveryVars == <<processorVars, streamVars, pageVars, swallowed, spoiled>>
vars == <<left, houseVars, deliveryVars>>

Events == 1..changes

Init ==
    /\ left \in Loads
    /\ HouseholdsInit
    /\ fleet \in Fleets[left]
    /\ processed = {} /\ published = {}
    /\ batch = [i \in Instances |-> {}]
    /\ outcome = [i \in Instances |-> {}]
    /\ failed = [i \in Instances |-> {}]
    /\ on = NoInstance /\ channel = <<>>
    /\ seen = <<>> /\ last = 0
    /\ handled = {}
    /\ open = FALSE /\ asked = 0 /\ answers = EmptyBag /\ shown = 0
    /\ swallowed = FALSE /\ spoiled = {}

Locked == UNION {batch[i] \cup outcome[i] \cup failed[i] : i \in Instances}
Idle(i) == batch[i] = {} /\ outcome[i] = {} /\ failed[i] = {}

\* The page shows change e, or an answer or a fetch that contains it is under
\* way, or will be once the page opens.
Covered(e) == ~open \/ asked > 0 \/ shown >= e \/ \E version \in BagToSet(answers) : version >= e

\* The page does not hear of the changes up to e, and why.
Miss(e, why) == spoiled' = IF Covered(e) THEN spoiled ELSE spoiled \cup {why}

-----------------------------------------------------------------------------
\* Unprocessed rows that nobody has locked.
Lockable == Events \ (processed \cup Locked)

\* ProcessPendingAsync locks a batch of rows nobody else holds.  Any rows: the
\* clock readings they are ordered by need not follow the order of the commits.
Select(i) ==
    /\ Idle(i)
    /\ \E rows \in SUBSET Lockable :
        /\ rows # {}
        /\ Cardinality(rows) <= BatchSize
        /\ Cardinality(rows) = BatchSize \/ rows = Lockable
        /\ batch' = [batch EXCEPT ![i] = rows]
    /\ UNCHANGED <<left, houseVars, fleet, processed, outcome, failed, published, streamVars, pageVars,
                   swallowed, spoiled>>

(* Mistaken variants: a full channel refuses the new event, or grows; rows  *)
(* whose publishing failed are marked as well, or stay locked.              *)
WrittenAnyway(queue, e) == Append(queue, e)
WrittenIfRoom(queue, e) == IF Len(queue) < Capacity THEN Append(queue, e) ELSE queue

MarkedTried(i) == outcome[i] \cup failed[i]
ReleasePublished(i) ==
    /\ batch' = [batch EXCEPT ![i] = {}]
    /\ outcome' = [outcome EXCEPT ![i] = {}]
    /\ UNCHANGED failed

\* A full channel drops its oldest event.
Written(queue, e) ==
    IF Len(queue) < Capacity THEN Append(queue, e) ELSE Append(Tail(queue), e)

\* The instance hands the event to the subscriptions it keeps itself.
Publish(i, e) ==
    /\ e \in batch[i]
    /\ batch' = [batch EXCEPT ![i] = @ \ {e}]
    /\ outcome' = [outcome EXCEPT ![i] = @ \cup {e}]
    /\ published' = published \cup {e}
    /\ IF on = i
       THEN /\ channel' = Written(channel, e)
            /\ last' = e
            /\ IF Len(channel) = Capacity /\ ToSet(channel') \subseteq ToSet(seen)
               THEN Miss(changes, "dropped") ELSE UNCHANGED spoiled
       ELSE Miss(e, "unheard") /\ UNCHANGED <<channel, last>>
    /\ UNCHANGED <<left, houseVars, fleet, processed, failed, on, pageVars, swallowed>>

\* A handler throws: the row stays unprocessed.
PublishFails(i, e) ==
    /\ e \in batch[i]
    /\ Spend("failures")
    /\ batch' = [batch EXCEPT ![i] = @ \ {e}]
    /\ failed' = [failed EXCEPT ![i] = @ \cup {e}]
    /\ UNCHANGED <<houseVars, fleet, processed, outcome, published, streamVars, pageVars, swallowed, spoiled>>

\* The rows that get a ProcessedAtUtc.
Marked(i) == outcome[i]

Release(i) ==
    /\ batch' = [batch EXCEPT ![i] = {}]
    /\ outcome' = [outcome EXCEPT ![i] = {}]
    /\ failed' = [failed EXCEPT ![i] = {}]

Commit(i) ==
    /\ ~Idle(i) /\ batch[i] = {}
    /\ processed' = processed \cup Marked(i)
    /\ Release(i)
    /\ UNCHANGED <<left, houseVars, fleet, published, streamVars, pageVars, swallowed, spoiled>>

\* The save or the commit fails: what was published stays unprocessed.
CommitFails(i) ==
    /\ ~Idle(i) /\ batch[i] = {}
    /\ Spend("failures")
    /\ Release(i)
    /\ UNCHANGED <<houseVars, fleet, processed, published, streamVars, pageVars, swallowed, spoiled>>

Disconnect ==
    /\ on' = NoInstance /\ channel' = <<>> /\ last' = 0
    /\ IF channel = <<>> THEN UNCHANGED spoiled ELSE Miss(changes, "unheard")

\* The instance stops and starts again: its transaction, its subscriptions
\* and the requests it served are gone.
Crash(i) ==
    /\ i \in fleet
    /\ Spend("crashes")
    /\ Release(i)
    /\ \E lost \in SUBSET Requests :
        request' = [r \in Requests |-> IF r \in lost THEN NoRequest ELSE request[r]]
    /\ IF on = i THEN Disconnect ELSE UNCHANGED <<on, channel, last, spoiled>>
    /\ UNCHANGED <<members, invitation, attempts, audit, changes, joins, crossed, contested,
                   fleet, processed, published, pageVars, swallowed>>

-----------------------------------------------------------------------------
\* The page opens: it fetches the bills, and its client begins to connect.
Open ==
    /\ ~open /\ Spend("opens")
    /\ open' = TRUE
    /\ asked' = 1
    /\ UNCHANGED <<houseVars, processorVars, streamVars, seen, answers, shown, handled, swallowed,
                   spoiled>>

\* The client connects, and again when its timer fires: the instance subscribes
\* it.  The page does not fetch the bills on a connection.
Connect ==
    /\ open /\ on = NoInstance
    /\ on' \in fleet
    /\ UNCHANGED <<left, houseVars, processorVars, channel, last, pageVars, swallowed, spoiled>>

\* The stream breaks: the instance unsubscribes it, the client arms its timer.
Break ==
    /\ on # NoInstance
    /\ Spend("breaks")
    /\ Disconnect
    /\ UNCHANGED <<houseVars, processorVars, pageVars, swallowed>>

\* processedEventIds with one more id; the oldest goes when there are too many.
Remember(ids, e) ==
    IF Len(ids) < Remembered THEN Append(ids, e) ELSE Append(Tail(ids), e)

\* The stream sends the oldest event of the channel; the client handles it
\* unless it has done so, and the page fetches the bills.
Receive ==
    /\ channel # <<>>
    /\ channel' = Tail(channel)
    /\ LET e == Head(channel) IN
       IF e \in ToSet(seen) THEN UNCHANGED <<seen, asked, handled>>
       ELSE /\ seen' = Remember(seen, e)
            /\ asked' = asked + 1
            /\ handled' = handled \cup {e}
    /\ UNCHANGED <<left, houseVars, processorVars, on, last, open, answers, shown, swallowed, spoiled>>

\* The heartbeat falls due, and before the read of the channel is canceled it
\* completes: StreamAsync awaits it and drops its result.
HeartbeatSwallows ==
    /\ channel # <<>>
    /\ Spend("failures")
    /\ channel' = Tail(channel)
    /\ swallowed' = TRUE
    /\ Miss(changes, "swallowed")
    /\ UNCHANGED <<houseVars, processorVars, on, last, pageVars>>

\* The database answers a fetch, or the fetch fails and nobody repeats it.
Answer ==
    /\ asked > 0
    /\ asked' = asked - 1
    /\ answers' = answers (+) SetToBag({changes})
    /\ UNCHANGED <<left, houseVars, processorVars, streamVars, open, seen, shown, handled, swallowed, spoiled>>

FetchFails ==
    /\ asked > 0
    /\ Spend("failures")
    /\ asked' = asked - 1
    /\ spoiled' = spoiled \cup {"fetch failed"}
    /\ UNCHANGED <<houseVars, processorVars, streamVars, open, seen, answers, shown, handled, swallowed>>

\* setBills: answers arrive in any order, each replaces what is shown.
Show(version) ==
    /\ BagIn(version, answers)
    /\ answers' = answers (-) SetToBag({version})
    /\ shown' = version
    /\ spoiled' = IF version < shown THEN spoiled \cup {"overtaken"} ELSE spoiled
    /\ UNCHANGED <<left, houseVars, processorVars, streamVars, open, seen, asked, handled, swallowed>>

Next ==
    \/ HouseholdsNext /\ UNCHANGED deliveryVars
    \/ \E i \in fleet :
        \/ Select(i) \/ Commit(i) \/ CommitFails(i) \/ Crash(i)
        \/ \E e \in Events : Publish(i, e) \/ PublishFails(i, e)
    \/ Open \/ Connect \/ Break \/ Receive \/ HeartbeatSwallows \/ Answer \/ FetchFails
    \/ \E version \in 0..changes : Show(version)

DeliverySpec == Init /\ [][Next]_vars

\* The processor's timer ticks and its loop goes on; the client's timer fires;
\* the stream reads its channel; the page's fetches are answered.
Fairness ==
    /\ \A i \in Instances : WF_vars(i \in fleet /\ (Select(i) \/ (\E e \in Events : Publish(i, e)) \/ Commit(i)))
    /\ WF_vars(Connect) /\ WF_vars(Receive) /\ WF_vars(Answer)
    /\ WF_vars(\E version \in 0..changes : Show(version))

DeliveryFairSpec == DeliverySpec /\ Fairness
=============================================================================
