------------------------- MODULE OfflineSyncProofs -------------------------
(* Proofs about OfflineSync, for every value of its constants. *)
EXTENDS OfflineSync, TLAPS

\* What a request may be: free, between two events, or at the statements for
\* one.
LEMMA RequestShape ==
    ASSUME NEW r \in Request
    PROVE  /\ r.stage \in {"free", "next"} \cup Stages
           /\ r.stage = "free" <=> r = Free
           /\ r.stage # "free" =>
                r.for \in Clients /\ r.todo \subseteq Events /\ r.done \subseteq Events
           /\ r.stage \in Stages => r.event \in Events
  BY DEF Request, Free, Stages

\* The requests a step builds are requests.
LEMMA RequestBuilt ==
    ASSUME NEW for \in Clients, NEW todo \in SUBSET Events, NEW done \in SUBSET Events
    PROVE  /\ Between(for, todo, done) \in Request
           /\ \A stage \in Stages, e \in Events : At(stage, e, for, todo, done) \in Request
           /\ Free \in Request
  BY DEF Request, Between, At

LEMMA InitialState == Init => IInv
<1>. SUFFICES ASSUME Init PROVE IInv
  OBVIOUS
<1>1. TypeOK
  BY RequestBuilt DEF Init, TypeOK, PassStatus, Request
<1>2. Known /\ DoneIsWritten /\ EnteredIsRecorded
  BY DEF Init, Known, DoneIsWritten, EnteredIsRecorded, Free, Stages
<1>3. RecordedIsUsed /\ NothingLost /\ SyncedIsRecorded /\ OneWins
  BY DEF Init, RecordedIsUsed, NothingLost, SyncedIsRecorded, OneWins
<1>4. ScreenIsFresh /\ QueuedOnce
  BY DEF Init, ScreenIsFresh, HasQueuedAllow, QueuedOnce
<1>. QED
  BY <1>1, <1>2, <1>3, <1>4 DEF IInv

-----------------------------------------------------------------------------
\* The steps of other handlers: entries, exits, revocations, the clock.

LEMMA WorldStep ==
    ASSUME IInv, NEW i \in Ids, World(i)
    PROVE  IInv'
<1>1. /\ UNCHANGED <<syncRow, batch, recorded, device, faults>>
      /\ pass' \in [Ids -> PassStatus]
      /\ over' \subseteq Ids
      /\ inside' \in [Ids -> Nat]
      /\ \A j \in Ids : pass[j] # "ACTIVE" => pass'[j] # "ACTIVE"
  <2>1. CASE OnlineEntry(i)
    BY <2>1 DEF OnlineEntry, Used, IInv, TypeOK, PassStatus
  <2>2. CASE Exit(i)
    BY <2>2 DEF Exit, IInv, TypeOK
  <2>3. CASE Revoke(i)
    BY <2>3 DEF Revoke, IInv, TypeOK, PassStatus
  <2>4. CASE RunOut(i)
    BY <2>4 DEF RunOut, IInv, TypeOK
  <2>. QED
    BY <2>1, <2>2, <2>3, <2>4 DEF World
<1>2. TypeOK'
  BY <1>1 DEF IInv, TypeOK, device
<1>3. Known' /\ DoneIsWritten' /\ EnteredIsRecorded'
  BY <1>1 DEF IInv, Known, DoneIsWritten, EnteredIsRecorded, Decided, device
<1>4. RecordedIsUsed'
  BY <1>1 DEF IInv, RecordedIsUsed, Ids, device
<1>5. NothingLost' /\ SyncedIsRecorded' /\ OneWins'
  BY <1>1 DEF IInv, NothingLost, SyncedIsRecorded, OneWins, device
<1>6. ScreenIsFresh' /\ QueuedOnce'
  BY <1>1 DEF IInv, ScreenIsFresh, HasQueuedAllow, QueuedOnce, device
<1>. QED
  BY <1>2, <1>3, <1>4, <1>5, <1>6 DEF IInv

-----------------------------------------------------------------------------
\* The steps of a device that decide nothing.

\* Steps that change neither the decisions nor what the server has written down
\* keep what is said of them.
LEMMA RowsKept ==
    ASSUME IInv, UNCHANGED <<pass, syncRow, recorded, queue, event>>
    PROVE  RecordedIsUsed' /\ NothingLost' /\ SyncedIsRecorded' /\ OneWins' /\ QueuedOnce'
<1>1. RecordedIsUsed'
  BY DEF IInv, RecordedIsUsed
<1>2. NothingLost' /\ SyncedIsRecorded'
  BY DEF IInv, NothingLost, SyncedIsRecorded
<1>3. OneWins' /\ QueuedOnce'
  BY DEF IInv, OneWins, QueuedOnce
<1>. QED
  BY <1>1, <1>2, <1>3

LEMMA CacheStep ==
    ASSUME IInv, NEW d \in Devices,
           \/ GoOffline(d)
           \/ RefreshManifest(d)
           \/ \E i \in Ids : VerifyOffline(d, i)
    PROVE  IInv'
<1>1. UNCHANGED <<server, queue, event, faults>>
  BY DEF GoOffline, RefreshManifest, VerifyOffline
<1>2. UNCHANGED <<pass, syncRow, recorded, batch, over, inside>>
  BY <1>1 DEF server
<1>3. /\ online' \in [Devices -> BOOLEAN]
      /\ manifest' \in [Devices -> [Ids -> PassStatus \cup {"ABSENT"}]]
      /\ screen' \in [Devices -> Ids \cup {NoPass}]
  <2>1. CASE GoOffline(d)
    BY <2>1 DEF GoOffline, IInv, TypeOK
  <2>2. CASE RefreshManifest(d)
    <3>1. Snapshot \in [Ids -> PassStatus \cup {"ABSENT"}]
      BY DEF Snapshot, IInv, TypeOK
    <3>. QED
      BY <2>2, <3>1 DEF RefreshManifest, IInv, TypeOK
  <2>3. CASE \E i \in Ids : VerifyOffline(d, i)
    BY <2>3 DEF VerifyOffline, IInv, TypeOK
  <2>. QED
    BY <2>1, <2>2, <2>3
<1>4. TypeOK'
  BY <1>1, <1>2, <1>3 DEF IInv, TypeOK
<1>5. Known' /\ DoneIsWritten' /\ EnteredIsRecorded'
  BY <1>1, <1>2 DEF IInv, Known, DoneIsWritten, EnteredIsRecorded, Decided
<1>6. ScreenIsFresh'
  <2>1. SUFFICES ASSUME NEW c \in Devices, screen'[c] \in OneTimeIds
                 PROVE  ~\E e \in queue[c] : event[e].inv = screen'[c] /\ event[e].allowed
    BY <1>1 DEF ScreenIsFresh, HasQueuedAllow
  <2>2. CASE screen'[c] = screen[c]
    BY <2>1, <2>2 DEF IInv, ScreenIsFresh, HasQueuedAllow
  <2>3. CASE screen'[c] # screen[c]
    <3>1. PICK i \in Ids : VerifyOffline(d, i)
      BY <2>3 DEF GoOffline, RefreshManifest
    <3>2. c = d /\ screen'[c] = i
      BY <2>3, <3>1 DEF VerifyOffline, IInv, TypeOK
    <3>3. ~HasQueuedAllow(d, i)
      BY <2>1, <3>1, <3>2 DEF VerifyOffline, OfflineOutcome
    <3>. QED
      BY <3>2, <3>3 DEF HasQueuedAllow
  <2>. QED
    BY <2>2, <2>3
<1>. QED
  BY <1>1, <1>2, <1>4, <1>5, <1>6, RowsKept DEF IInv

\* A step that only begins requests, orphans them or drops them.
LEMMA RequestsChanged ==
    ASSUME IInv, UNCHANGED <<pass, over, inside, syncRow, recorded, manifest, queue, event>>,
           online' \in [Devices -> BOOLEAN],
           screen' \in [Devices -> Ids \cup {NoPass}],
           \A d \in Devices : screen'[d] \in {screen[d], NoPass},
           faults' \in Nat,
           batch' \in [Batches -> Request],
           \A b \in Batches :
             \/ batch'[b] = batch[b]
             \/ batch'[b] = Free
             \/ \E d \in Devices : batch'[b] = Between(d, queue[d], {})
             \/ batch[b] # Free /\ batch'[b] = [batch[b] EXCEPT !.for = Nobody]
    PROVE  IInv'
<1>1. TypeOK'
  BY DEF IInv, TypeOK
<1>2. ASSUME NEW b \in Batches
      PROVE  /\ batch'[b].stage # "free" =>
                  /\ batch'[b].todo \subseteq Decided
                  /\ batch'[b].done \subseteq Decided
                  /\ \A e \in batch'[b].done : syncRow[e] # "NONE"
             /\ batch'[b].stage \in Stages =>
                  /\ batch'[b].stage = batch[b].stage
                  /\ batch'[b].event = batch[b].event
                  /\ batch'[b].event \in Decided
  <2>1. CASE batch'[b] = batch[b]
    BY <2>1 DEF IInv, Known, DoneIsWritten
  <2>2. CASE batch'[b] = Free
    BY <2>2 DEF Free, Stages
  <2>3. CASE \E d \in Devices : batch'[b] = Between(d, queue[d], {})
    BY <2>3 DEF Between, IInv, Known, Stages
  <2>4. CASE batch[b] # Free /\ batch'[b] = [batch[b] EXCEPT !.for = Nobody]
    <3>1. batch[b] \in Request
      BY DEF IInv, TypeOK
    <3>2. /\ batch'[b].stage = batch[b].stage
          /\ batch'[b].todo = batch[b].todo
          /\ batch'[b].done = batch[b].done
          /\ batch[b].stage \in Stages => batch'[b].event = batch[b].event
      BY <2>4, <3>1 DEF Request, Stages
    <3>. QED
      BY <3>2 DEF IInv, Known, DoneIsWritten
  <2>. QED
    BY <2>1, <2>2, <2>3, <2>4
<1>3. Decided' = Decided
  BY DEF Decided
<1>4. Known'
  BY <1>2, <1>3 DEF IInv, Known
<1>5. DoneIsWritten' /\ EnteredIsRecorded'
  BY <1>2 DEF IInv, DoneIsWritten, EnteredIsRecorded, Stages
<1>6. ScreenIsFresh'
  BY NobodyAssumption DEF IInv, ScreenIsFresh, HasQueuedAllow, Ids
<1>. QED
  BY <1>1, <1>4, <1>5, <1>6, RowsKept DEF IInv

\* What a device sends is its queue, in a request that was free.
LEMMA Sent ==
    ASSUME IInv, NEW d \in Devices, NEW requests \in [Batches -> Request],
           SendFrom(d, requests)
    PROVE  /\ batch' \in [Batches -> Request]
           /\ \A b \in Batches : batch'[b] \in {requests[b], Between(d, queue[d], {})}
<1>1. Between(d, queue[d], {}) \in Request
  BY RequestBuilt DEF IInv, TypeOK, Clients
<1>. QED
  BY <1>1 DEF SendFrom

\* The requests of a device whose page is gone.
LEMMA Orphaned ==
    ASSUME IInv, NEW b \in Batches, batch[b] # Free
    PROVE  [batch[b] EXCEPT !.for = Nobody] \in Request
<1>1. batch[b] \in Request
  BY DEF IInv, TypeOK
<1>. QED
  BY <1>1 DEF Request, Clients

LEMMA ConnectionStep ==
    ASSUME IInv,
           \/ \E d \in Devices : GoOnline(d) \/ SyncNow(d) \/ Reload(d)
           \/ \E b \in Batches : LoseConnection(b)
           \/ ServerRestart
    PROVE  IInv'
<1>0. batch \in [Batches -> Request] /\ faults \in Nat
  BY DEF IInv, TypeOK
<1>1. CASE \E d \in Devices : GoOnline(d) \/ SyncNow(d)
  <2>1. PICK d \in Devices : GoOnline(d) \/ SyncNow(d)
    BY <1>1
  <2>2. SendFrom(d, batch)
    BY <2>1 DEF GoOnline, SyncNow, Send
  <2>3. online' \in [Devices -> BOOLEAN]
    BY <2>1 DEF GoOnline, SyncNow, device, IInv, TypeOK
  <2>. QED
    BY <1>0, <2>1, <2>2, <2>3, Sent, RequestsChanged DEF GoOnline, SyncNow, device, IInv, TypeOK
<1>2. CASE \E d \in Devices : Reload(d)
  <2>1. PICK d \in Devices : Reload(d)
    BY <1>2
  <2>. DEFINE requests == [b \in Batches |->
                 IF batch[b] # Free /\ batch[b].for = d
                 THEN [batch[b] EXCEPT !.for = Nobody] ELSE batch[b]]
  <2>2. requests \in [Batches -> Request]
    BY <1>0, Orphaned
  <2>3. SendFrom(d, requests) \/ batch' = requests
    BY <2>1 DEF Reload
  <2>4. /\ batch' \in [Batches -> Request]
        /\ \A b \in Batches : batch'[b] \in {requests[b], Between(d, queue[d], {})}
    <3>. HIDE DEF requests
    <3>. QED
      BY <2>2, <2>3, Sent
  <2>5. \A b \in Batches :
          \/ batch'[b] = batch[b]
          \/ \E c \in Devices : batch'[b] = Between(c, queue[c], {})
          \/ batch[b] # Free /\ batch'[b] = [batch[b] EXCEPT !.for = Nobody]
    BY <2>4
  <2>6. /\ screen' \in [Devices -> Ids \cup {NoPass}]
        /\ \A c \in Devices : screen'[c] \in {screen[c], NoPass}
        /\ faults' \in Nat /\ online' \in [Devices -> BOOLEAN]
    BY <1>0, <2>1 DEF Reload, IInv, TypeOK
  <2>7. UNCHANGED <<pass, over, inside, syncRow, recorded, online, manifest, queue, event>>
    BY <2>1 DEF Reload
  <2>. QED
    BY <2>4, <2>5, <2>6, <2>7, RequestsChanged
<1>3. CASE \E b \in Batches : LoseConnection(b)
  <2>1. PICK b \in Batches : LoseConnection(b)
    BY <1>3
  <2>2. /\ batch' \in [Batches -> Request]
        /\ \A c \in Batches :
             \/ batch'[c] = batch[c]
             \/ batch[c] # Free /\ batch'[c] = [batch[c] EXCEPT !.for = Nobody]
    BY <1>0, <2>1, Orphaned DEF LoseConnection
  <2>. QED
    BY <1>0, <2>1, <2>2, RequestsChanged DEF LoseConnection, device, IInv, TypeOK
<1>4. CASE ServerRestart
  <2>1. Free \in Request
    BY DEF Request
  <2>2. batch' \in [Batches -> Request] /\ \A b \in Batches : batch'[b] = Free
    BY <1>4, <2>1 DEF ServerRestart
  <2>. QED
    BY <1>0, <1>4, <2>2, RequestsChanged DEF ServerRestart, device, IInv, TypeOK
<1>. QED
  BY <1>1, <1>2, <1>3, <1>4

-----------------------------------------------------------------------------
\* The officer's decision.

LEMMA DecisionStep ==
    ASSUME IInv, NEW d \in Devices, Decide(d)
    PROVE  IInv'
<1>1. PICK e \in Events, allowed \in BOOLEAN :
        /\ event[e] = NoEvent
        /\ event' = [event EXCEPT ![e] =
                       [device |-> d, inv |-> screen[d], allowed |-> allowed]]
        /\ queue' = [queue EXCEPT ![d] = @ \cup {e}]
  BY DEF Decide
<1>2. /\ screen[d] \in Ids
      /\ screen' = [screen EXCEPT ![d] = NoPass]
      /\ UNCHANGED <<pass, over, inside, syncRow, batch, recorded, online, manifest, faults>>
  BY DEF Decide, IInv, TypeOK, server
<1>3. [device |-> d, inv |-> screen[d], allowed |-> allowed] \in Decision
  BY <1>2, Zenon DEF Decision
<1>4. event' \in [Events -> Decision \cup {NoEvent}]
  <2>. DEFINE new == [device |-> d, inv |-> screen[d], allowed |-> allowed]
  <2>1. event' = [event EXCEPT ![e] = new] /\ new \in Decision
    BY <1>1, <1>3
  <2>. HIDE DEF new
  <2>. QED
    BY <2>1 DEF IInv, TypeOK
<1>5. TypeOK'
  <2>1. queue' \in [Devices -> SUBSET Events] /\ screen' \in [Devices -> Ids \cup {NoPass}]
    BY <1>1, <1>2 DEF IInv, TypeOK
  <2>. QED
    BY <1>2, <1>4, <2>1 DEF IInv, TypeOK
\* What is new about the state: one decision, on a pass that had none queued.
<1>6. /\ e \notin Decided
      /\ Decided' = Decided \cup {e}
      /\ \A f \in Events \ {e} : event'[f] = event[f]
      /\ event'[e].device = d /\ event'[e].inv = screen[d]
      /\ queue'[d] = queue[d] \cup {e}
      /\ \A c \in Devices \ {d} : queue'[c] = queue[c]
  <2>1. event'[e] # NoEvent
    BY <1>1, <1>3, NoEventAssumption DEF IInv, TypeOK, Decision
  <2>2. \A f \in Events \ {e} : event'[f] = event[f]
    BY <1>1 DEF IInv, TypeOK
  <2>3. event'[e].device = d /\ event'[e].inv = screen[d]
    BY <1>1, Zenon DEF IInv, TypeOK
  <2>. QED
    BY <1>1, <2>1, <2>2, <2>3 DEF IInv, TypeOK, Decided
<1>7. recorded[e] = 0 /\ syncRow[e] = "NONE"
  BY <1>6 DEF IInv, Known, TypeOK
<1>8. Known'
  BY <1>2, <1>6 DEF IInv, Known
<1>9. DoneIsWritten'
  BY <1>2 DEF IInv, DoneIsWritten
<1>10. EnteredIsRecorded'
  <2>1. \A b \in Batches : batch[b].stage = "synced" =>
          batch[b].event \in Events \ {e}
    BY <1>6 DEF IInv, Known, Stages, Decided
  <2>. QED
    BY <1>2, <1>6, <2>1 DEF IInv, EnteredIsRecorded
<1>11. RecordedIsUsed'
  BY <1>2, <1>6, <1>7 DEF IInv, RecordedIsUsed
<1>12. NothingLost'
  BY <1>2, <1>6 DEF IInv, NothingLost, TypeOK, Decision
<1>13. SyncedIsRecorded'
  BY <1>2, <1>6, <1>7 DEF IInv, SyncedIsRecorded
<1>14. OneWins'
  BY <1>2, <1>6, <1>7 DEF IInv, OneWins
<1>15. ScreenIsFresh'
  <2>1. SUFFICES ASSUME NEW c \in Devices, screen'[c] \in OneTimeIds, NEW f \in queue'[c]
                 PROVE  ~(event'[f].inv = screen'[c] /\ event'[f].allowed)
    BY DEF ScreenIsFresh, HasQueuedAllow
  <2>2. c # d /\ screen'[c] = screen[c]
    BY <1>2, <2>1, NobodyAssumption DEF IInv, TypeOK, Ids
  <2>3. f \in queue[c] /\ f \in Events \ {e}
    BY <1>6, <2>1, <2>2 DEF IInv, Known, Decided
  <2>. QED
    BY <1>6, <2>1, <2>2, <2>3 DEF IInv, ScreenIsFresh, HasQueuedAllow
<1>16. QueuedOnce'
  <2>1. SUFFICES ASSUME NEW c \in Devices, NEW f \in queue'[c], NEW g \in queue'[c],
                        event'[f].allowed, event'[g].allowed,
                        event'[f].inv = event'[g].inv, event'[f].inv \in OneTimeIds
                 PROVE  f = g
    BY DEF QueuedOnce
  <2>2. \A h \in queue[c] : h \in Events \ {e}
    BY <1>6 DEF IInv, Known, Decided
  <2>3. CASE f # e /\ g # e
    BY <1>6, <2>1, <2>2, <2>3 DEF IInv, QueuedOnce
  <2>4. ASSUME NEW h \in queue'[c], h # e, e \in queue'[c], screen[d] \in OneTimeIds,
               event'[h].inv = screen[d], event'[h].allowed
        PROVE  FALSE
    <3>1. c = d /\ h \in queue[d]
      BY <1>6, <2>2, <2>4
    <3>. QED
      BY <1>6, <2>2, <2>4, <3>1 DEF IInv, ScreenIsFresh, HasQueuedAllow
  <2>. QED
    BY <1>6, <2>1, <2>3, <2>4
<1>. QED
  BY <1>5, <1>8, <1>9, <1>10, <1>11, <1>12, <1>13, <1>14, <1>15, <1>16 DEF IInv

-----------------------------------------------------------------------------
\* The server.

\* A request that works on an event: what is known of it.
LEMMA AtWork ==
    ASSUME IInv, NEW b \in Batches, batch[b].stage # "free"
    PROVE  /\ batch[b] \in Request
           /\ batch[b].stage \in {"next"} \cup Stages
           /\ batch[b].for \in Clients
           /\ batch[b].todo \subseteq Events /\ batch[b].done \subseteq Events
           /\ batch[b].todo \subseteq Decided /\ batch[b].done \subseteq Decided
           /\ \A e \in batch[b].done : syncRow[e] # "NONE"
           /\ batch[b].stage \in Stages =>
                batch[b].event \in Events /\ batch[b].event \in Decided
<1>1. batch[b] \in Request
  BY DEF IInv, TypeOK
<1>. QED
  BY <1>1, RequestShape DEF IInv, Known, DoneIsWritten

\* A step of request b that leaves the queues alone, never takes a row back and
\* leaves b in an accurate state keeps what is said of the requests.
LEMMA RequestMoved ==
    ASSUME IInv, NEW b \in Batches, NEW r \in Request,
           batch' = [batch EXCEPT ![b] = r],
           UNCHANGED <<queue, event>>,
           \A e \in Events : syncRow[e] # "NONE" => syncRow'[e] # "NONE",
           \A e \in Events : recorded[e] > 0 => recorded'[e] > 0,
           \A e \in Events : recorded'[e] > 0 \/ syncRow'[e] # "NONE" => e \in Decided,
           r.stage # "free" =>
             /\ r.todo \subseteq Decided /\ r.done \subseteq Decided
             /\ \A e \in r.done : syncRow'[e] # "NONE",
           r.stage \in Stages => r.event \in Decided,
           r.stage = "synced" /\ event[r.event].allowed => recorded'[r.event] > 0
    PROVE  Known' /\ DoneIsWritten' /\ EnteredIsRecorded'
<1>1. Decided' = Decided
  BY DEF Decided
<1>2. batch'[b] = r /\ \A c \in Batches \ {b} : batch'[c] = batch[c]
  BY DEF IInv, TypeOK
<1>3. Known'
  BY <1>1, <1>2 DEF IInv, Known
<1>4. DoneIsWritten'
  <2>1. \A c \in Batches \ {b} : batch[c].stage # "free" =>
          \A e \in batch[c].done : e \in Events /\ syncRow[e] # "NONE"
    BY AtWork
  <2>. QED
    BY <1>2, <2>1 DEF DoneIsWritten
<1>5. EnteredIsRecorded'
  <2>1. \A c \in Batches : batch[c].stage = "synced" => batch[c].event \in Events
    BY AtWork DEF Stages
  <2>. QED
    BY <1>2, <2>1 DEF IInv, EnteredIsRecorded
<1>. QED
  BY <1>3, <1>4, <1>5

LEMMA NextEventStep ==
    ASSUME IInv, NEW b \in Batches, NextEvent(b)
    PROVE  IInv'
<1>1. UNCHANGED <<pass, over, inside, syncRow, recorded, online, manifest, screen, queue,
                  event, faults>>
  BY DEF NextEvent, device
<1>2. PICK e \in batch[b].todo :
        \/ /\ syncRow[e] # "NONE"
           /\ batch' = [batch EXCEPT ![b] =
                Between(batch[b].for, batch[b].todo \ {e}, batch[b].done \cup {e})]
        \/ /\ syncRow[e] = "NONE"
           /\ batch' = [batch EXCEPT ![b] =
                At(IF event[e].allowed THEN "enter" ELSE "synced", e,
                   batch[b].for, batch[b].todo \ {e}, batch[b].done)]
  BY DEF NextEvent
<1>3. batch[b].stage = "next"
  BY DEF NextEvent
<1>4. PICK r \in Request :
        /\ batch' = [batch EXCEPT ![b] = r]
        /\ r.stage # "free" =>
             /\ r.todo \subseteq Decided /\ r.done \subseteq Decided
             /\ \A f \in r.done : syncRow'[f] # "NONE"
        /\ r.stage \in Stages => r.event \in Decided
        /\ ~(r.stage = "synced" /\ event[r.event].allowed)
  <2>1. CASE syncRow[e] # "NONE"
    <3>. DEFINE r == Between(batch[b].for, batch[b].todo \ {e}, batch[b].done \cup {e})
    <3>1. r \in Request
      BY <1>3, AtWork, RequestBuilt
    <3>. QED
      BY <1>1, <1>2, <1>3, <2>1, <3>1, AtWork DEF Between, Stages
  <2>2. CASE syncRow[e] = "NONE"
    <3>. DEFINE stage == IF event[e].allowed THEN "enter" ELSE "synced"
                r == At(stage, e, batch[b].for, batch[b].todo \ {e}, batch[b].done)
    <3>1. stage \in Stages /\ e \in Events /\ e \in Decided
      BY <1>3, AtWork DEF Stages
    <3>2. r \in Request
      BY <1>3, <3>1, AtWork, RequestBuilt
    <3>3. /\ r.stage = stage /\ r.event = e
          /\ r.todo = batch[b].todo \ {e} /\ r.done = batch[b].done
      BY DEF At
    <3>4. batch' = [batch EXCEPT ![b] = r]
      BY <1>2, <2>2
    <3>5. stage = "synced" => ~event[e].allowed
      BY Zenon
    <3>. HIDE DEF r, stage
    <3>. QED
      BY <1>1, <1>3, <3>1, <3>2, <3>3, <3>4, <3>5, AtWork
  <2>. QED
    BY <2>1, <2>2
<1>5. Known' /\ DoneIsWritten' /\ EnteredIsRecorded'
  BY <1>1, <1>4, RequestMoved DEF IInv, Known
<1>6. TypeOK'
  BY <1>1, <1>4 DEF IInv, TypeOK
<1>7. ScreenIsFresh'
  BY <1>1 DEF IInv, ScreenIsFresh, HasQueuedAllow
<1>. QED
  BY <1>1, <1>5, <1>6, <1>7, RowsKept DEF IInv

\* The requests built at the statements for one event.
LEMMA RequestGoes ==
    ASSUME IInv, NEW b \in Batches, batch[b].stage \in Stages
    PROVE  /\ \A stage \in Stages :
                LET r == At(stage, batch[b].event, batch[b].for, batch[b].todo, batch[b].done)
                IN  /\ r \in Request
                    /\ r.stage = stage /\ r.event = batch[b].event
                    /\ r.todo = batch[b].todo /\ r.done = batch[b].done
           /\ LET r == Between(batch[b].for, batch[b].todo,
                               batch[b].done \cup {batch[b].event})
              IN  /\ r \in Request
                  /\ r.stage = "next" /\ r.todo = batch[b].todo
                  /\ r.done = batch[b].done \cup {batch[b].event}
<1>1. batch[b].stage # "free"
  BY DEF Stages
<1>. QED
  BY <1>1, AtWork, RequestBuilt DEF At, Between

\* Going on to another statement after a failure changes nothing but the request.
LEMMA FailedStep ==
    ASSUME IInv, NEW b \in Batches, batch[b].stage \in Stages, Goto(b, "failed"),
           UNCHANGED <<pass, over, inside, syncRow, recorded, device>>, faults' \in Nat
    PROVE  IInv'
<1>0. UNCHANGED <<online, manifest, screen, queue, event>>
  BY DEF device
<1>. DEFINE r == At("failed", batch[b].event, batch[b].for, batch[b].todo, batch[b].done)
<1>1. batch' = [batch EXCEPT ![b] = r]
  BY DEF Goto
<1>2. /\ r \in Request /\ r.stage = "failed" /\ r.event = batch[b].event
      /\ r.todo = batch[b].todo /\ r.done = batch[b].done
  BY RequestGoes DEF Stages
<1>3. batch[b].stage # "free" /\ "failed" \in Stages
  BY DEF Stages
<1>. HIDE DEF r
<1>4. Known' /\ DoneIsWritten' /\ EnteredIsRecorded'
  BY <1>0, <1>1, <1>2, <1>3, AtWork, RequestMoved DEF IInv, Known
<1>5. TypeOK'
  BY <1>0, <1>1, <1>2 DEF IInv, TypeOK
<1>6. ScreenIsFresh'
  BY <1>0 DEF IInv, ScreenIsFresh, HasQueuedAllow
<1>. QED
  BY <1>0, <1>4, <1>5, <1>6, RowsKept DEF IInv

LEMMA EnterStep ==
    ASSUME IInv, NEW b \in Batches, Enter(b)
    PROVE  IInv'
<1>0. batch[b].stage \in Stages /\ batch[b].stage = "enter" /\ batch[b].stage # "free"
  BY DEF Enter, Stages
<1>. DEFINE e == batch[b].event
            i == event[e].inv
<1>1. CASE Goto(b, "failed") /\ UNCHANGED <<pass, inside, recorded>>
  <2>1. UNCHANGED <<pass, over, inside, syncRow, recorded, device>> /\ faults' \in Nat
    BY <1>1 DEF Enter, IInv, TypeOK
  <2>. QED
    BY <1>0, <1>1, <2>1, FailedStep
<1>2. CASE /\ Admissible(i)
           /\ pass' = Used(i)
           /\ inside' = [inside EXCEPT ![i] = @ + 1]
           /\ recorded' = [recorded EXCEPT ![e] = @ + 1]
           /\ Goto(b, "synced")
           /\ UNCHANGED faults
  <2>1. UNCHANGED <<over, syncRow, online, manifest, screen, queue, event, faults>>
    BY <1>2 DEF Enter, device
  <2>2. e \in Events /\ e \in Decided /\ i \in Ids
    <3>1. e \in Events /\ e \in Decided
      BY <1>0, AtWork
    <3>. QED
      BY <3>1 DEF Decided, IInv, TypeOK, Decision
  \* A pass just used up has no entry of another decision.
  <2>3. i \in OneTimeIds =>
          /\ pass[i] = "ACTIVE" /\ pass'[i] = "USED"
          /\ \A f \in Events : event[f].inv = i => recorded[f] = 0
    BY <1>2, <2>2 DEF Admissible, Used, IInv, RecordedIsUsed, TypeOK
  <2>4. /\ pass' \in [Ids -> PassStatus]
        /\ \A j \in Ids : pass[j] # "ACTIVE" => pass'[j] # "ACTIVE"
    BY <1>2, <2>2 DEF Used, IInv, TypeOK, PassStatus
  <2>5. /\ recorded' \in [Events -> Nat]
        /\ recorded'[e] = recorded[e] + 1
        /\ \A f \in Events \ {e} : recorded'[f] = recorded[f]
    BY <1>2, <2>2 DEF IInv, TypeOK
  <2>. DEFINE r == At("synced", batch[b].event, batch[b].for, batch[b].todo, batch[b].done)
  <2>6. /\ r \in Request /\ r.stage = "synced" /\ r.event = e
        /\ r.todo = batch[b].todo /\ r.done = batch[b].done
        /\ batch' = [batch EXCEPT ![b] = r]
    BY <1>0, <1>2, RequestGoes DEF Stages, Goto
  <2>. HIDE DEF r, e
  <2>7. Known' /\ DoneIsWritten' /\ EnteredIsRecorded'
    <3>1. /\ recorded'[e] > 0
          /\ \A f \in Events : recorded[f] > 0 => recorded'[f] > 0
      BY <2>2, <2>5 DEF IInv, TypeOK
    <3>2. \A f \in Events : recorded'[f] > 0 \/ syncRow'[f] # "NONE" => f \in Decided
      BY <2>1, <2>2, <2>5 DEF IInv, Known
    <3>3. /\ r.todo \subseteq Decided /\ r.done \subseteq Decided
          /\ \A f \in r.done : syncRow'[f] # "NONE"
      BY <1>0, <2>1, <2>6, AtWork
    <3>. QED
      BY <2>1, <2>2, <2>6, <3>1, <3>2, <3>3, RequestMoved
  <2>8. TypeOK'
    <3>1. inside' \in [Ids -> Nat]
      BY <1>2, <2>2 DEF IInv, TypeOK
    <3>2. batch' \in [Batches -> Request]
      BY <2>6 DEF IInv, TypeOK
    <3>. QED
      BY <2>1, <2>4, <2>5, <3>1, <3>2 DEF IInv, TypeOK
  <2>9. RecordedIsUsed'
    <3>1. SUFFICES ASSUME NEW f \in Events, recorded'[f] > 0, event[f].inv \in OneTimeIds
                   PROVE  pass'[event[f].inv] # "ACTIVE"
      BY <2>1 DEF RecordedIsUsed
    <3>2. CASE f = e
      BY <2>3, <3>1, <3>2
    <3>3. CASE f # e
      BY <2>4, <2>5, <3>1, <3>3 DEF IInv, RecordedIsUsed, Ids
    <3>. QED
      BY <3>2, <3>3
  <2>10. OneWins'
    <3>1. SUFFICES ASSUME NEW f \in Events, NEW g \in Events,
                          recorded'[f] > 0, recorded'[g] > 0,
                          event[f].inv = event[g].inv, event[f].inv \in OneTimeIds
                   PROVE  f = g /\ recorded'[f] = 1
      BY <2>1 DEF OneWins
    <3>2. CASE event[f].inv = i
      <4>1. i \in OneTimeIds /\ event[e].inv = i
        BY <3>1, <3>2
      <4>. HIDE DEF i
      <4>2. recorded[e] = 0 /\ recorded[f] = 0 /\ recorded[g] = 0
        BY <2>2, <2>3, <3>1, <3>2, <4>1
      <4>. QED
        BY <2>5, <3>1, <4>2
    <3>3. CASE event[f].inv # i
      BY <2>2, <2>5, <3>1, <3>3 DEF IInv, OneWins
    <3>. QED
      BY <3>2, <3>3
  <2>11. NothingLost' /\ SyncedIsRecorded'
    <3>1. NothingLost'
      BY <2>1 DEF IInv, NothingLost
    <3>2. \A f \in Events : recorded[f] > 0 => recorded'[f] > 0
      BY <2>2, <2>5 DEF IInv, TypeOK
    <3>. QED
      BY <2>1, <3>1, <3>2 DEF IInv, SyncedIsRecorded
  <2>12. ScreenIsFresh' /\ QueuedOnce'
    BY <2>1 DEF IInv, ScreenIsFresh, HasQueuedAllow, QueuedOnce
  <2>. QED
    BY <2>7, <2>8, <2>9, <2>10, <2>11, <2>12 DEF IInv
<1>. QED
  BY <1>1, <1>2 DEF Enter

\* A row is written under an id that had none, and says SYNCED only of an entry
\* that is recorded.
LEMMA RowWritten ==
    ASSUME IInv, NEW b \in Batches, batch[b].stage \in Stages,
           NEW said \in {"SYNCED", "FAILED"},
           syncRow[batch[b].event] = "NONE",
           syncRow' = [syncRow EXCEPT ![batch[b].event] = said],
           said = "SYNCED" => batch[b].stage = "synced",
           Answered(b),
           UNCHANGED <<pass, over, inside, recorded, device, faults>>
    PROVE  IInv'
<1>. DEFINE e == batch[b].event
            r == Between(batch[b].for, batch[b].todo, batch[b].done \cup {batch[b].event})
<1>1. UNCHANGED <<online, manifest, screen, queue, event>>
  BY DEF device
<1>2. batch[b].stage # "free" /\ "next" \notin Stages
  BY DEF Stages
<1>3. e \in Events /\ e \in Decided
  BY <1>2, AtWork
<1>4. /\ r \in Request /\ r.stage = "next" /\ r.todo = batch[b].todo
      /\ r.done = batch[b].done \cup {e}
      /\ batch' = [batch EXCEPT ![b] = r]
  BY RequestGoes DEF Answered
<1>5. said = "SYNCED" /\ event[e].allowed => recorded[e] > 0
  BY DEF IInv, EnteredIsRecorded
<1>6. /\ syncRow' = [syncRow EXCEPT ![e] = said]
      /\ syncRow[e] = "NONE"
  OBVIOUS
<1>. HIDE DEF e, r
<1>7. /\ syncRow' \in [Events -> {"NONE", "SYNCED", "FAILED"}]
      /\ syncRow'[e] = said
      /\ \A f \in Events \ {e} : syncRow'[f] = syncRow[f]
  BY <1>3, <1>6 DEF IInv, TypeOK
<1>8. Known' /\ DoneIsWritten' /\ EnteredIsRecorded'
  <2>1. \A f \in Events : recorded'[f] > 0 \/ syncRow'[f] # "NONE" => f \in Decided
    BY <1>3, <1>7 DEF IInv, Known
  <2>2. /\ r.todo \subseteq Decided /\ r.done \subseteq Decided
        /\ \A f \in r.done : syncRow'[f] # "NONE"
    BY <1>2, <1>3, <1>4, <1>7, AtWork
  <2>. QED
    BY <1>1, <1>2, <1>4, <1>7, <2>1, <2>2, RequestMoved
<1>9. TypeOK'
  BY <1>1, <1>4, <1>7 DEF IInv, TypeOK
<1>10. NothingLost' /\ SyncedIsRecorded'
  BY <1>1, <1>5, <1>7 DEF IInv, NothingLost, SyncedIsRecorded
<1>11. RecordedIsUsed' /\ OneWins'
  BY <1>1 DEF IInv, RecordedIsUsed, OneWins
<1>12. ScreenIsFresh' /\ QueuedOnce'
  BY <1>1 DEF IInv, ScreenIsFresh, HasQueuedAllow, QueuedOnce
<1>. QED
  BY <1>8, <1>9, <1>10, <1>11, <1>12 DEF IInv

LEMMA WriteStep ==
    ASSUME IInv, NEW b \in Batches, WriteSynced(b) \/ WriteFailed(b)
    PROVE  IInv'
<1>1. batch[b].stage \in Stages
  BY DEF WriteSynced, WriteFailed, Stages
<1>2. CASE WriteSynced(b)
  <2>1. CASE Goto(b, "failed") /\ UNCHANGED syncRow
    <3>1. faults' \in Nat
      BY <1>2 DEF WriteSynced, IInv, TypeOK
    <3>. QED
      BY <1>1, <1>2, <2>1, <3>1, FailedStep DEF WriteSynced
  <2>2. CASE /\ syncRow[batch[b].event] = "NONE"
             /\ syncRow' = [syncRow EXCEPT ![batch[b].event] = "SYNCED"]
             /\ Answered(b)
             /\ UNCHANGED faults
    BY <1>1, <1>2, <2>2, RowWritten DEF WriteSynced
  <2>. QED
    BY <1>2, <2>1, <2>2 DEF WriteSynced
<1>3. CASE WriteFailed(b)
  <2>1. CASE syncRow[batch[b].event] = "NONE"
    BY <1>1, <1>3, <2>1, RowWritten DEF WriteFailed
  <2>2. CASE syncRow[batch[b].event] # "NONE"
    <3>1. /\ batch' = [batch EXCEPT ![b] = Free] /\ Free \in Request
          /\ UNCHANGED <<pass, over, inside, syncRow, recorded, device, faults>>
      BY <1>3, <2>2 DEF WriteFailed, Request
    <3>2. /\ batch' \in [Batches -> Request]
          /\ \A c \in Batches : batch'[c] \in {batch[c], Free}
      BY <3>1 DEF IInv, TypeOK
    <3>. QED
      BY <3>1, <3>2, RequestsChanged DEF device, IInv, TypeOK
  <2>. QED
    BY <2>1, <2>2
<1>. QED
  BY <1>2, <1>3

\* The device forgets exactly what has its row.
LEMMA ReplyStep ==
    ASSUME IInv, NEW b \in Batches, Reply(b)
    PROVE  IInv'
<1>1. /\ UNCHANGED <<pass, over, inside, syncRow, recorded, online, manifest, screen,
                      event, faults>>
      /\ batch' = [batch EXCEPT ![b] = Free]
      /\ batch[b].stage # "free"
  BY DEF Reply
<1>2. /\ queue' \in [Devices -> SUBSET Events]
      /\ \A d \in Devices : queue'[d] \subseteq queue[d]
      /\ \A d \in Devices, e \in Events :
           e \in queue[d] /\ e \notin queue'[d] => syncRow[e] # "NONE"
  BY <1>1, AtWork DEF Reply, IInv, TypeOK
<1>3. TypeOK'
  <2>1. Free \in Request
    BY DEF Request
  <2>. QED
    BY <1>1, <1>2, <2>1 DEF IInv, TypeOK
<1>4. /\ batch'[b].stage = "free"
      /\ \A c \in Batches \ {b} : batch'[c] = batch[c]
      /\ Decided' = Decided
  BY <1>1 DEF IInv, TypeOK, Free, Decided
<1>5. Known'
  BY <1>1, <1>2, <1>4 DEF IInv, Known, Stages
<1>6. DoneIsWritten' /\ EnteredIsRecorded'
  BY <1>1, <1>4 DEF IInv, DoneIsWritten, EnteredIsRecorded
<1>7. NothingLost'
  BY <1>1, <1>2 DEF IInv, NothingLost, TypeOK, Decision
<1>8. RecordedIsUsed' /\ SyncedIsRecorded' /\ OneWins'
  BY <1>1 DEF IInv, RecordedIsUsed, SyncedIsRecorded, OneWins
<1>9. ScreenIsFresh' /\ QueuedOnce'
  <2>1. ScreenIsFresh'
    BY <1>1, <1>2 DEF IInv, ScreenIsFresh, HasQueuedAllow
  <2>2. QueuedOnce'
    BY <1>1, <1>2 DEF IInv, QueuedOnce
  <2>. QED
    BY <2>1, <2>2
<1>. QED
  BY <1>3, <1>5, <1>6, <1>7, <1>8, <1>9 DEF IInv

-----------------------------------------------------------------------------
\* Every reachable state satisfies the inductive invariant: what is queued, sent
\* or written down was decided, replies report only what has a row, and the
\* entry of a one-time pass has used it up.
THEOREM InductiveInvariant == Spec => []IInv
<1>1. IInv /\ [Next]_vars => IInv'
  <2>1. SUFFICES ASSUME IInv, [Next]_vars PROVE IInv'
    OBVIOUS
  <2>2. CASE \E i \in Ids : World(i)
    BY <2>1, <2>2, WorldStep
  <2>3. CASE \E d \in Devices : DeviceStep(d)
    BY <2>1, <2>3, CacheStep, ConnectionStep, DecisionStep DEF DeviceStep
  <2>4. CASE \E b \in Batches : Process(b)
    BY <2>1, <2>4, NextEventStep, EnterStep, WriteStep, ReplyStep DEF Process
  <2>5. CASE ServerRestart \/ \E b \in Batches : LoseConnection(b)
    BY <2>1, <2>5, ConnectionStep
  <2>6. CASE UNCHANGED vars
    <3>1. UNCHANGED <<pass, over, inside, syncRow, batch, recorded, online, manifest,
                      screen, queue, event, faults>>
      BY <2>6 DEF vars, server, device
    <3>2. TypeOK'
      BY <2>1, <3>1 DEF IInv, TypeOK
    <3>3. Known' /\ DoneIsWritten' /\ EnteredIsRecorded'
      BY <2>1, <3>1 DEF IInv, Known, Decided, DoneIsWritten, EnteredIsRecorded
    <3>4. ScreenIsFresh'
      BY <2>1, <3>1 DEF IInv, ScreenIsFresh, HasQueuedAllow
    <3>. QED
      BY <2>1, <3>1, <3>2, <3>3, <3>4, RowsKept DEF IInv
  <2>. QED
    BY <2>1, <2>2, <2>3, <2>4, <2>5, <2>6 DEF Next
<1>. QED
  BY <1>1, InitialState, PTL DEF Spec

\* A decision leaves its device only when what became of it is written down
\* (sync-queue.ts removes what the reply of syncBatch names).
THEOREM NothingIsLost == Spec => []NothingLost
BY InductiveInvariant, PTL DEF IInv

\* A row that says SYNCED of an allowed decision has its recorded entry.
THEOREM SyncedHasEntry == Spec => []SyncedIsRecorded
BY InductiveInvariant, PTL DEF IInv

\* However many devices let the visitor of a one-time pass in, one entry is
\* recorded.
THEOREM OneDeviceWins == Spec => []OneWins
BY InductiveInvariant, PTL DEF IInv

\* No device queues two admissions on a one-time pass.
THEOREM NoSecondAdmission == Spec => []QueuedOnce
BY InductiveInvariant, PTL DEF IInv

\* No retry changes what was answered for an event.
THEOREM AnswersNeverChange == Spec => AnswersFinal
<1>1. TypeOK /\ [Next]_vars =>
        [\A e \in Events : syncRow[e] # "NONE" => syncRow'[e] = syncRow[e]]_vars
  <2>1. SUFFICES ASSUME TypeOK, [Next]_vars, NEW e \in Events, syncRow[e] # "NONE"
                 PROVE  syncRow'[e] = syncRow[e]
    OBVIOUS
  <2>2. CASE \E i \in Ids : World(i)
    BY <2>2 DEF World, OnlineEntry, Exit, Revoke, RunOut
  <2>3. CASE \E d \in Devices : DeviceStep(d)
    BY <2>3 DEF DeviceStep, GoOffline, GoOnline, RefreshManifest, SyncNow, Decide, Reload,
                VerifyOffline, server
  <2>4. CASE \E b \in Batches : Process(b)
    <3>1. PICK b \in Batches : Process(b)
      BY <2>4
    <3>2. CASE NextEvent(b) \/ Enter(b) \/ Reply(b)
      BY <3>2 DEF NextEvent, Enter, Reply
    <3>3. CASE WriteSynced(b) \/ WriteFailed(b)
      BY <2>1, <3>3 DEF WriteSynced, WriteFailed, TypeOK
    <3>. QED
      BY <3>1, <3>2, <3>3 DEF Process
  <2>5. CASE ServerRestart \/ \E b \in Batches : LoseConnection(b)
    BY <2>5 DEF ServerRestart, LoseConnection
  <2>6. CASE UNCHANGED vars
    BY <2>6 DEF vars, server
  <2>. QED
    BY <2>1, <2>2, <2>3, <2>4, <2>5, <2>6 DEF Next
<1>2. IInv => TypeOK
  BY DEF IInv
<1>. QED
  BY <1>1, <1>2, InductiveInvariant, PTL DEF AnswersFinal, Spec

=============================================================================
