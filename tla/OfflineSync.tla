---------------------------- MODULE OfflineSync ----------------------------
(***************************************************************************)
(* Gate devices that lose their connection.  A device keeps a copy of the  *)
(* estate's passes (the manifest) and decides from it while offline; each  *)
(* decision is queued under an id of its own and sent to the server in     *)
(* batches once the browser reports a connection.  Replies get lost, a     *)
(* batch may be sent again while the server still works on it, and the     *)
(* server may stop between two statements.                                 *)
(*                                                                         *)
(* Recording an entry is one step here: what its statements may do to each  *)
(* other is the matter of module Invitations.                              *)
(***************************************************************************)
EXTENDS Naturals, FiniteSets

CONSTANTS
    OneTimeIds,     \* passes that admit once
    MultiIds,       \* passes that admit again and again
    Devices,
    Events,         \* clientEventIds; bounds the decisions of a behaviour
    Batches,        \* sync requests the server may be working on at once
    MaxBatch,       \* ArrayMaxSize of a batch
    MaxFaults,      \* bound on lost replies, reloads and server restarts
    NoPass, NoEvent, Nobody

Ids == OneTimeIds \cup MultiIds

ASSUME DisjointAssumption == OneTimeIds \cap MultiIds = {}
ASSUME BoundsAssumption == MaxBatch \in Nat \ {0} /\ MaxFaults \in Nat
ASSUME NoEventAssumption == NoEvent \notin [device: Devices, inv: Ids, allowed: BOOLEAN]
ASSUME NobodyAssumption == Nobody \notin Devices /\ NoPass \notin Ids

VARIABLES
    pass,           \* server: the status of each pass
    over,           \* passes whose time has run out, for every clock
    inside,         \* server: open visits of each pass
    syncRow,        \* server: OfflineSyncEvent.status by clientEventId
    batch,          \* server: sync requests being processed
    online,         \* device: navigator.onLine
    manifest,       \* device: cached status of each pass
    screen,         \* device: the pass shown as VALID from the cache
    queue,          \* device: decisions not yet reported
    event,          \* the decision behind each clientEventId
    recorded,       \* how many entries have been recorded for an event
    faults

server == <<pass, over, inside, syncRow, batch, recorded>>
device == <<online, manifest, screen, queue, event>>
vars == <<server, device, faults>>
-----------------------------------------------------------------------------
PassStatus == {"ACTIVE", "USED", "REVOKED"}

Decision == [device: Devices, inv: Ids, allowed: BOOLEAN]

\* A request works through its events one by one: `between' two of them, or at
\* the statements for one.  `for' is the device that still waits for the reply.
Free == [stage |-> "free"]

Between(for, todo, done) ==
    [stage |-> "next", for |-> for, todo |-> todo, done |-> done]

At(stage, e, for, todo, done) ==
    [stage |-> stage, event |-> e, for |-> for, todo |-> todo, done |-> done]

Clients == Devices \cup {Nobody}

Stages == {"enter", "synced", "failed"}

Request ==
    {Free}
      \cup [stage: {"next"}, for: Clients, todo: SUBSET Events, done: SUBSET Events]
      \cup [stage: Stages, event: Events, for: Clients, todo: SUBSET Events,
            done: SUBSET Events]

TypeOK ==
    /\ pass \in [Ids -> PassStatus]
    /\ over \subseteq Ids
    /\ inside \in [Ids -> Nat]
    /\ syncRow \in [Events -> {"NONE", "SYNCED", "FAILED"}]
    /\ batch \in [Batches -> Request]
    /\ online \in [Devices -> BOOLEAN]
    /\ manifest \in [Devices -> [Ids -> PassStatus \cup {"ABSENT"}]]
    /\ screen \in [Devices -> Ids \cup {NoPass}]
    /\ queue \in [Devices -> SUBSET Events]
    /\ event \in [Events -> Decision \cup {NoEvent}]
    /\ recorded \in [Events -> Nat]
    /\ faults \in Nat

Init ==
    /\ pass = [i \in Ids |-> "ACTIVE"]
    /\ over = {}
    /\ inside = [i \in Ids |-> 0]
    /\ syncRow = [e \in Events |-> "NONE"]
    /\ batch = [b \in Batches |-> Free]
    /\ online = [d \in Devices |-> TRUE]
    /\ manifest = [d \in Devices |-> [i \in Ids |-> "ABSENT"]]
    /\ screen = [d \in Devices |-> NoPass]
    /\ queue = [d \in Devices |-> {}]
    /\ event = [e \in Events |-> NoEvent]
    /\ recorded = [e \in Events |-> 0]
    /\ faults = 0
-----------------------------------------------------------------------------
\* The passes themselves, as other handlers change them.

\* Mutant: the entry does not look at the status.
AdmissibleAnyStatus(i) == i \notin over /\ inside[i] = 0

\* recordEntry's checks: revoked, expired, used, already inside.
Admissible(i) ==
    /\ pass[i] # "REVOKED"
    /\ i \notin over
    /\ i \in OneTimeIds => pass[i] = "ACTIVE"
    /\ inside[i] = 0

Used(i) == IF i \in OneTimeIds THEN [pass EXCEPT ![i] = "USED"] ELSE pass

\* An entry recorded online at any gate.
OnlineEntry(i) ==
    /\ Admissible(i)
    /\ pass' = Used(i)
    /\ inside' = [inside EXCEPT ![i] = @ + 1]
    /\ UNCHANGED <<over, syncRow, batch, recorded, device, faults>>

Exit(i) ==
    /\ inside[i] > 0
    /\ inside' = [inside EXCEPT ![i] = @ - 1]
    /\ UNCHANGED <<pass, over, syncRow, batch, recorded, device, faults>>

Revoke(i) ==
    /\ pass[i] # "REVOKED"
    /\ pass' = [pass EXCEPT ![i] = "REVOKED"]
    /\ UNCHANGED <<over, inside, syncRow, batch, recorded, device, faults>>

RunOut(i) ==
    /\ i \notin over
    /\ over' = over \cup {i}
    /\ UNCHANGED <<pass, inside, syncRow, batch, recorded, device, faults>>
-----------------------------------------------------------------------------
\* The device.

\* getManifest: every pass that has not run out, with its status.
Snapshot == [i \in Ids |-> IF i \in over THEN "ABSENT" ELSE pass[i]]

\* POST /offline-sync with everything queued.  A batch over the limit is
\* answered 400 before any event is looked at; the queue stays as it is.
SendFrom(d, requests) ==
    IF queue[d] = {} \/ Cardinality(queue[d]) > MaxBatch
    THEN batch' = requests
    ELSE \E b \in Batches :
           /\ requests[b] = Free
           /\ batch' = [requests EXCEPT ![b] = Between(d, queue[d], {})]

Send(d) == SendFrom(d, batch)

GoOffline(d) ==
    /\ online[d]
    /\ online' = [online EXCEPT ![d] = FALSE]
    /\ UNCHANGED <<server, manifest, screen, queue, event, faults>>

\* The browser's online event: a manifest is asked for (RefreshManifest is its
\* arrival) and the queue is sent.
GoOnline(d) ==
    /\ ~online[d]
    /\ online' = [online EXCEPT ![d] = TRUE]
    /\ Send(d)
    /\ UNCHANGED <<pass, over, inside, syncRow, recorded, manifest, screen, queue,
                   event, faults>>

\* A manifest replaces the cache wholesale: after the online event and every
\* two minutes from then on.
RefreshManifest(d) ==
    /\ online[d]
    /\ manifest' = [manifest EXCEPT ![d] = Snapshot]
    /\ UNCHANGED <<server, online, screen, queue, event, faults>>

\* The officer presses `Sync now'.
SyncNow(d) ==
    /\ online[d]
    /\ queue[d] # {}
    /\ Send(d)
    /\ UNCHANGED <<pass, over, inside, syncRow, recorded, device, faults>>

HasQueuedAllow(d, i) == \E e \in queue[d] : event[e].inv = i /\ event[e].allowed

OfflineOutcome(d, i) ==
    IF manifest[d][i] = "ABSENT" THEN "NOT_FOUND"
    ELSE IF manifest[d][i] = "REVOKED" THEN "REVOKED"
    ELSE IF i \in OneTimeIds /\ (manifest[d][i] = "USED" \/ HasQueuedAllow(d, i))
         THEN "ALREADY_USED"
    ELSE IF i \in over THEN "EXPIRED"
    ELSE "VALID"

\* A scan that does not reach the server is answered from the cache, whatever
\* the browser says of its connection.
VerifyOffline(d, i) ==
    /\ screen[d] = NoPass
    /\ OfflineOutcome(d, i) = "VALID"
    /\ screen' = [screen EXCEPT ![d] = i]
    /\ UNCHANGED <<server, online, manifest, queue, event, faults>>

\* The officer allows or denies; connected or not by now, the decision is queued.
Decide(d) ==
    /\ screen[d] # NoPass
    /\ \E e \in Events, allowed \in BOOLEAN :
         /\ event[e] = NoEvent
         /\ event' = [event EXCEPT ![e] =
                        [device |-> d, inv |-> screen[d], allowed |-> allowed]]
         /\ queue' = [queue EXCEPT ![d] = @ \cup {e}]
    /\ screen' = [screen EXCEPT ![d] = NoPass]
    /\ UNCHANGED <<server, online, manifest, faults>>

\* The page is loaded again: the cache and the queue survive, answers on their
\* way find nobody, and a connected page sends the queue.
Reload(d) ==
    /\ faults < MaxFaults
    /\ faults' = faults + 1
    /\ screen' = [screen EXCEPT ![d] = NoPass]
    /\ LET orphaned == [b \in Batches |->
              IF batch[b] # Free /\ batch[b].for = d
              THEN [batch[b] EXCEPT !.for = Nobody] ELSE batch[b]]
       IN  IF online[d] THEN SendFrom(d, orphaned) ELSE batch' = orphaned
    /\ UNCHANGED <<pass, over, inside, syncRow, recorded, online, manifest, queue, event>>
-----------------------------------------------------------------------------
\* The server: syncBatch, one event at a time.

Goto(b, stage) ==
    batch' = [batch EXCEPT ![b] = At(stage, batch[b].event, batch[b].for,
                                     batch[b].todo, batch[b].done)]

\* The event is answered and the next one may be taken up.
Answered(b) ==
    batch' = [batch EXCEPT ![b] = Between(batch[b].for, batch[b].todo,
                                          batch[b].done \cup {batch[b].event})]

\* An id that has a row is answered from it; a denial needs no more than its
\* row.
NextEvent(b) ==
    /\ batch[b].stage = "next"
    /\ \E e \in batch[b].todo :
         \/ /\ syncRow[e] # "NONE"
            /\ batch' = [batch EXCEPT ![b] =
                 Between(batch[b].for, batch[b].todo \ {e}, batch[b].done \cup {e})]
         \/ /\ syncRow[e] = "NONE"
            /\ batch' = [batch EXCEPT ![b] =
                 At(IF event[e].allowed THEN "enter" ELSE "synced", e,
                    batch[b].for, batch[b].todo \ {e}, batch[b].done)]
    /\ UNCHANGED <<pass, over, inside, syncRow, recorded, device, faults>>

\* Mutant: the row says SYNCED whether or not the entry was recorded.
EnterFailureIgnored(b) ==
    /\ batch[b].stage = "enter"
    /\ Goto(b, "synced")
    /\ LET e == batch[b].event
           i == event[e].inv
       IN  IF Admissible(i)
           THEN /\ pass' = Used(i)
                /\ inside' = [inside EXCEPT ![i] = @ + 1]
                /\ recorded' = [recorded EXCEPT ![e] = @ + 1]
           ELSE UNCHANGED <<pass, inside, recorded>>
    /\ UNCHANGED <<over, syncRow, device, faults>>

\* recordEntry: refused, failed for want of the database, or recorded.
Enter(b) ==
    /\ batch[b].stage = "enter"
    /\ LET e == batch[b].event
           i == event[e].inv
       IN  \/ /\ ~Admissible(i)
              /\ Goto(b, "failed")
              /\ UNCHANGED <<pass, inside, recorded, faults>>
           \/ /\ faults < MaxFaults
              /\ faults' = faults + 1
              /\ Goto(b, "failed")
              /\ UNCHANGED <<pass, inside, recorded>>
           \/ /\ Admissible(i)
              /\ pass' = Used(i)
              /\ inside' = [inside EXCEPT ![i] = @ + 1]
              /\ recorded' = [recorded EXCEPT ![e] = @ + 1]
              /\ Goto(b, "synced")
              /\ UNCHANGED faults
    /\ UNCHANGED <<over, syncRow, device>>

\* Mutant: the row replaces the one another request has written.
WriteFailedOver(b) ==
    /\ batch[b].stage = "failed"
    /\ syncRow' = [syncRow EXCEPT ![batch[b].event] = "FAILED"]
    /\ Answered(b)
    /\ UNCHANGED <<pass, over, inside, recorded, device, faults>>

\* The row under the event's id; a row already there makes the insert fail, as
\* a fault of the database does, and the failure is caught.
WriteSynced(b) ==
    /\ batch[b].stage = "synced"
    /\ LET e == batch[b].event
       IN  \/ /\ syncRow[e] = "NONE"
              /\ syncRow' = [syncRow EXCEPT ![e] = "SYNCED"]
              /\ Answered(b)
              /\ UNCHANGED faults
           \/ /\ syncRow[e] # "NONE"
              /\ Goto(b, "failed")
              /\ UNCHANGED <<syncRow, faults>>
           \/ /\ faults < MaxFaults
              /\ faults' = faults + 1
              /\ Goto(b, "failed")
              /\ UNCHANGED syncRow
    /\ UNCHANGED <<pass, over, inside, recorded, device>>

\* The failure is written down under the same id.  If even that id is taken the
\* error leaves syncBatch and the device is answered 500.
WriteFailed(b) ==
    /\ batch[b].stage = "failed"
    /\ LET e == batch[b].event
       IN  IF syncRow[e] = "NONE"
           THEN syncRow' = [syncRow EXCEPT ![e] = "FAILED"] /\ Answered(b)
           ELSE batch' = [batch EXCEPT ![b] = Free] /\ UNCHANGED syncRow
    /\ UNCHANGED <<pass, over, inside, recorded, device, faults>>

\* Mutant: the reply empties the queue.
ReplyClearsQueue(b) ==
    /\ batch[b].stage = "next"
    /\ batch[b].todo = {}
    /\ batch' = [batch EXCEPT ![b] = Free]
    /\ queue' = [d \in Devices |-> IF d = batch[b].for THEN {} ELSE queue[d]]
    /\ UNCHANGED <<pass, over, inside, syncRow, recorded, online, manifest,
                   screen, event, faults>>

\* Mutant: a refused decision stays queued.
ReplyKeepsRefused(b) ==
    /\ batch[b].stage = "next"
    /\ batch[b].todo = {}
    /\ batch' = [batch EXCEPT ![b] = Free]
    /\ queue' = [d \in Devices |-> IF d = batch[b].for
                                   THEN {e \in queue[d] : syncRow[e] # "SYNCED"}
                                   ELSE queue[d]]
    /\ UNCHANGED <<pass, over, inside, syncRow, recorded, online, manifest,
                   screen, event, faults>>

\* The device takes every answered event off its queue.
Reply(b) ==
    /\ batch[b].stage = "next"
    /\ batch[b].todo = {}
    /\ batch' = [batch EXCEPT ![b] = Free]
    /\ queue' = [d \in Devices |-> IF d = batch[b].for THEN queue[d] \ batch[b].done
                                   ELSE queue[d]]
    /\ UNCHANGED <<pass, over, inside, syncRow, recorded, online, manifest,
                   screen, event, faults>>

\* The connection of a request breaks; the server goes on with it.
LoseConnection(b) ==
    /\ batch[b] # Free
    /\ batch[b].for # Nobody
    /\ faults < MaxFaults
    /\ faults' = faults + 1
    /\ batch' = [batch EXCEPT ![b].for = Nobody]
    /\ UNCHANGED <<pass, over, inside, syncRow, recorded, device>>

ServerRestart ==
    /\ faults < MaxFaults
    /\ faults' = faults + 1
    /\ batch' = [b \in Batches |-> Free]
    /\ UNCHANGED <<pass, over, inside, syncRow, recorded, device>>
-----------------------------------------------------------------------------
World(i) == OnlineEntry(i) \/ Exit(i) \/ Revoke(i) \/ RunOut(i)

DeviceStep(d) ==
    \/ GoOffline(d) \/ GoOnline(d) \/ RefreshManifest(d)
    \/ SyncNow(d) \/ Decide(d) \/ Reload(d)
    \/ \E i \in Ids : VerifyOffline(d, i)

Process(b) ==
    NextEvent(b) \/ Enter(b) \/ WriteSynced(b) \/ WriteFailed(b) \/ Reply(b)

Next ==
    \/ \E i \in Ids : World(i)
    \/ \E d \in Devices : DeviceStep(d)
    \/ \E b \in Batches : Process(b) \/ LoseConnection(b)
    \/ ServerRestart

Spec == Init /\ [][Next]_vars

\* A request under way is worked on, and a lost connection comes back.
AutoSpec == /\ Spec
            /\ \A b \in Batches : WF_vars(Process(b))
            /\ \A d \in Devices : WF_vars(GoOnline(d))

\* Besides, the officer presses `Sync now' while events wait.
FairSpec == AutoSpec /\ \A d \in Devices : WF_vars(SyncNow(d))
-----------------------------------------------------------------------------
\* A decision leaves its device only when the server has written down what
\* became of it, whatever reply or request is lost.
NothingLost ==
    \A e \in Events :
      event[e] # NoEvent /\ e \notin queue[event[e].device] => syncRow[e] # "NONE"

\* An entry reported as synchronised has been recorded.
SyncedIsRecorded ==
    \A e \in Events : syncRow[e] = "SYNCED" /\ event[e].allowed => recorded[e] > 0

\* Of all devices that let the visitor of a one-time pass in while offline, the
\* server accepts one.
OneWins ==
    \A e, f \in Events :
      /\ recorded[e] > 0 /\ recorded[f] > 0
      /\ event[e].inv = event[f].inv
      /\ event[e].inv \in OneTimeIds
      => e = f /\ recorded[e] = 1

\* A device does not let the visitor of a one-time pass in again while its
\* first decision waits to be sent ("a second scan ... still offline, reports
\* ALREADY_USED").
QueuedOnce ==
    \A d \in Devices : \A e, f \in queue[d] :
      /\ event[e].allowed /\ event[f].allowed
      /\ event[e].inv = event[f].inv
      /\ event[e].inv \in OneTimeIds
      => e = f

\* What was written down for an event is never changed, however often the event
\* is sent.
AnswersFinal ==
    [][\A e \in Events : syncRow[e] # "NONE" => syncRow'[e] = syncRow[e]]_vars

\* What the properties above rest on.
Decided == {e \in Events : event[e] # NoEvent}

\* Nothing is queued, sent or written down before it is decided.
Known ==
    /\ \A d \in Devices : queue[d] \subseteq Decided
    /\ \A b \in Batches : batch[b].stage # "free" =>
         batch[b].todo \subseteq Decided /\ batch[b].done \subseteq Decided
    /\ \A b \in Batches : batch[b].stage \in Stages => batch[b].event \in Decided
    /\ \A e \in Events : recorded[e] > 0 \/ syncRow[e] # "NONE" => e \in Decided

\* What a reply will report has its row.
DoneIsWritten ==
    \A b \in Batches : batch[b].stage # "free" =>
      \A e \in batch[b].done : syncRow[e] # "NONE"

\* An allowed decision whose row is about to say SYNCED has its entry.
EnteredIsRecorded ==
    \A b \in Batches :
      batch[b].stage = "synced" /\ event[batch[b].event].allowed
        => recorded[batch[b].event] > 0

\* The entry of a one-time pass has used the pass up.
RecordedIsUsed ==
    \A e \in Events : recorded[e] > 0 /\ event[e].inv \in OneTimeIds =>
      pass[event[e].inv] # "ACTIVE"

\* A one-time pass on the screen was not let in by a decision still queued.
ScreenIsFresh ==
    \A d \in Devices : screen[d] \in OneTimeIds => ~HasQueuedAllow(d, screen[d])

IInv ==
    /\ TypeOK
    /\ Known
    /\ DoneIsWritten
    /\ EnteredIsRecorded
    /\ RecordedIsUsed
    /\ ScreenIsFresh
    /\ NothingLost
    /\ SyncedIsRecorded
    /\ OneWins
    /\ QueuedOnce

\* A retried submission never double-records.
NeverDoubleRecords == \A e \in Events : recorded[e] <= 1

\* With an officer who presses the button, every decision of a queue that fits
\* a batch is reported, whatever replies and requests are lost.
SmallQueueDrains ==
    \A d \in Devices, e \in Events :
      e \in queue[d] ~> (e \notin queue[d] \/ Cardinality(queue[d]) > MaxBatch)
=============================================================================
