------------------------------ MODULE PushDevices ------------------------------
(***************************************************************************)
(* Which phones are told, and as whom: the browser's subscription          *)
(* (lib/push.ts, usePushStatus.ts) and the server's row for it             *)
(* (push.service.ts).  A browser is shared: who signs in next takes over   *)
(* its subscription when their page re-registers it, quietly.              *)
(***************************************************************************)
EXTENDS Naturals, Sequences, FiniteSets, SequencesExt

CONSTANTS
    People,
    Browsers,
    Endpoints,      \* names for the push service's addresses
    Nobody,         \* no person, no endpoint
    MaxDevices,     \* MAX_DEVICES_PER_USER
    MaxPosts        \* bound on the registrations under way

ASSUME PushAssumption == Nobody \notin People \cup Endpoints

VARIABLES
    user,           \* who is signed in on each browser
    subscription,   \* each browser's endpoint
    owner,          \* PushSubscription rows: whom each endpoint's messages are for
    createdAt,      \* the endpoints with a row, oldest first
    toggle,         \* what each browser's page shows of it, or is doing
    posts,          \* registrations under way
    undone          \* browsers whose last registration failed, was trimmed or was
                    \* followed by one of an earlier person

pushVars == <<user, subscription, owner, createdAt, toggle, posts, undone>>

Registration == [by: Browsers, endpoint: Endpoints, as: People, quiet: BOOLEAN,
                 stage: {"asked", "upserted", "counted"}, out: SUBSET Endpoints]

PushTypeOK ==
    /\ user \in [Browsers -> People \cup {Nobody}]
    /\ subscription \in [Browsers -> Endpoints \cup {Nobody}]
    /\ owner \in [Endpoints -> People \cup {Nobody}]
    /\ createdAt \in Seq(Endpoints) /\ IsInjective(createdAt)
    /\ toggle \in [Browsers -> {"loading", "off", "on", "enabling", "disabling"}]
    /\ posts \subseteq Registration
    /\ undone \subseteq Browsers

PushInit ==
    /\ user = [b \in Browsers |-> Nobody]
    /\ subscription = [b \in Browsers |-> Nobody]
    /\ owner = [e \in Endpoints |-> Nobody]
    /\ createdAt = <<>>
    /\ toggle = [b \in Browsers |-> "loading"]
    /\ posts = {}
    /\ undone = {}

\* A name no browser, row or request has.
Unheld(e) == /\ \A b \in Browsers : subscription[b] # e
             /\ owner[e] = Nobody
             /\ \A r \in posts : r.endpoint # e

Holders(e) == {b \in Browsers : subscription[b] = e}

DeleteRows(rows) ==
    /\ owner' = [e \in Endpoints |-> IF e \in rows THEN Nobody ELSE owner[e]]
    /\ createdAt' = SelectSeq(createdAt, LAMBDA e : e \notin rows)

\* postSubscription
Register(b, e, quiet) ==
    LET r == [by |-> b, endpoint |-> e, as |-> user[b], quiet |-> quiet,
              stage |-> "asked", out |-> {}] IN
    /\ r \notin posts
    /\ Cardinality(posts) < MaxPosts
    /\ posts' = posts \cup {r}
-----------------------------------------------------------------------------
SignIn(b, p) ==
    /\ user[b] = Nobody
    /\ user' = [user EXCEPT ![b] = p]
    /\ toggle' = [toggle EXCEPT ![b] = "loading"]
    /\ UNCHANGED <<subscription, owner, createdAt, posts, undone>>

\* Signing out leaves the subscription and its row.
SignOut(b) ==
    /\ user[b] # Nobody /\ toggle[b] \in {"loading", "off", "on"}
    /\ user' = [user EXCEPT ![b] = Nobody]
    /\ toggle' = [toggle EXCEPT ![b] = "loading"]
    /\ UNCHANGED <<subscription, owner, createdAt, posts, undone>>

\* readPushState: a browser that is subscribed registers again without waiting.
ReadPushState(b) ==
    /\ user[b] # Nobody /\ toggle[b] = "loading"
    /\ IF subscription[b] = Nobody
       THEN /\ toggle' = [toggle EXCEPT ![b] = "off"]
            /\ UNCHANGED posts
       ELSE /\ toggle' = [toggle EXCEPT ![b] = "on"]
            /\ Register(b, subscription[b], TRUE)
    /\ UNCHANGED <<user, subscription, owner, createdAt, undone>>

\* enablePush, permission granted: subscribe, then register and wait.
EnablePush(b, e) ==
    /\ toggle[b] = "off"
    /\ IF subscription[b] = Nobody THEN Unheld(e) ELSE e = subscription[b]
    /\ subscription' = [subscription EXCEPT ![b] = e]
    /\ Register(b, e, FALSE)
    /\ toggle' = [toggle EXCEPT ![b] = "enabling"]
    /\ UNCHANGED <<user, owner, createdAt, undone>>

\* Mutant: the update of a known endpoint leaves its person.
UpsertKeys(r) ==
    /\ r.stage = "asked"
    /\ owner' = [owner EXCEPT ![r.endpoint] = IF @ = Nobody THEN r.as ELSE @]
    /\ createdAt' = IF owner[r.endpoint] = Nobody THEN Append(createdAt, r.endpoint)
                                                  ELSE createdAt
    /\ posts' = (posts \ {r}) \cup {[r EXCEPT !.stage = "upserted"]}
    /\ undone' = IF user[r.by] = r.as THEN undone \ Holders(r.endpoint)
                                      ELSE undone \cup Holders(r.endpoint)
    /\ UNCHANGED <<user, subscription, toggle>>

\* subscribe: the endpoint's row moves to whoever asks; a row that moves is as old as
\* it was.
Upsert(r) ==
    /\ r.stage = "asked"
    /\ owner' = [owner EXCEPT ![r.endpoint] = r.as]
    /\ createdAt' = IF owner[r.endpoint] = Nobody THEN Append(createdAt, r.endpoint)
                                                  ELSE createdAt
    /\ posts' = (posts \ {r}) \cup {[r EXCEPT !.stage = "upserted"]}
    /\ undone' = IF user[r.by] = r.as THEN undone \ Holders(r.endpoint)
                                      ELSE undone \cup Holders(r.endpoint)
    /\ UNCHANGED <<user, subscription, toggle>>

\* ... whose oldest devices beyond the limit are picked, by id,
CountDevices(r) ==
    LET mine == SelectSeq(createdAt, LAMBDA e : owner[e] = r.as)
        spare == IF Len(mine) > MaxDevices THEN Len(mine) - MaxDevices ELSE 0
    IN  /\ r.stage = "upserted"
        /\ posts' = (posts \ {r}) \cup {[r EXCEPT !.stage = "counted",
                                                  !.out = Range(SubSeq(mine, 1, spare))]}
        /\ UNCHANGED <<user, subscription, owner, createdAt, toggle, undone>>

\* ... and deleted, whoever they are for by now.  Then the page that waits is told.
TrimDevices(r) ==
    /\ r.stage = "counted"
    /\ DeleteRows(r.out)
    /\ undone' = undone \cup UNION {Holders(e) : e \in r.out}
    /\ posts' = posts \ {r}
    /\ toggle' = [toggle EXCEPT ![r.by] = IF r.quiet THEN @ ELSE "on"]
    /\ UNCHANGED <<user, subscription>>

\* The request or its answer is lost: a page that waits says so, a quiet one does not.
RegisterFails(r) ==
    /\ posts' = posts \ {r}
    /\ toggle' = [toggle EXCEPT ![r.by] = IF r.quiet THEN @ ELSE "off"]
    /\ undone' = undone \cup Holders(r.endpoint)
    /\ UNCHANGED <<user, subscription, owner, createdAt>>

DisablePush(b) ==
    /\ toggle[b] = "on"
    /\ toggle' = [toggle EXCEPT ![b] = "disabling"]
    /\ UNCHANGED <<user, subscription, owner, createdAt, posts, undone>>

\* unsubscribe deletes the person's own row, or the request is lost; the browser
\* gives the endpoint up either way.
Unsubscribe(b) ==
    /\ toggle[b] = "disabling"
    /\ \/ DeleteRows({e \in {subscription[b]} : owner[e] = user[b]})
       \/ UNCHANGED <<owner, createdAt>>
    /\ subscription' = [subscription EXCEPT ![b] = Nobody]
    /\ toggle' = [toggle EXCEPT ![b] = "off"]
    /\ UNCHANGED <<user, posts, undone>>

\* sendToUsers: the push service answers 410 for an endpoint nobody holds.
SendFindsGone(e) ==
    /\ owner[e] # Nobody /\ Holders(e) = {}
    /\ DeleteRows({e})
    /\ UNCHANGED <<user, subscription, toggle, posts, undone>>

PushNext ==
    \/ \E b \in Browsers : \/ SignOut(b) \/ ReadPushState(b) \/ DisablePush(b) \/ Unsubscribe(b)
                           \/ \E p \in People : SignIn(b, p)
                           \/ \E e \in Endpoints : EnablePush(b, e)
    \/ \E r \in posts : \/ Upsert(r) \/ CountDevices(r) \/ TrimDevices(r) \/ RegisterFails(r)
    \/ \E e \in Endpoints : SendFindsGone(e)

PushSpec == PushInit /\ [][PushNext]_pushVars
-----------------------------------------------------------------------------
(* "A device that signs in as someone else simply moves to them"           *)
(* (schema.prisma, PushSubscription): where the page says notifications    *)
(* are on, and nothing is under way, they are for the person signed in.    *)
(* The exceptions: the quiet registration was lost, another device of the  *)
(* person pushed this one out, or an earlier person's registration landed  *)
(* last.                                                                   *)
OnMeansOn ==
    \A b \in Browsers \ undone :
        (toggle[b] = "on" /\ \A r \in posts : r.by # b) => owner[subscription[b]] = user[b]
=============================================================================
