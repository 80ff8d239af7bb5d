------------------------------ MODULE Sessions ------------------------------
(***************************************************************************)
(* The session of one account: a refresh token whose hash is a column of   *)
(* the user's row (auth.service.ts), two cookies in every browser          *)
(* (auth.controller.ts) and the wrapper through which the pages call the   *)
(* server (api-client.ts).  The tabs of a browser share its cookies but    *)
(* not their JavaScript: each has its own inFlightRefresh.                 *)
(*                                                                         *)
(* A token is a JWT made of the user's id and the second it was issued, so *)
(* it is modelled by that second: two tokens of one second are one token.  *)
(***************************************************************************)
EXTENDS Integers, FiniteSets

CONSTANTS
    Calls,          \* apiFetch calls that may be under way at once
    Tabs,
    Browsers,
    Layouts,        \* how the calls may be spread over the tabs
    BrowserOf,      \* the browser a tab is open in
    AccessTTL,      \* AUTH_ACCESS_TOKEN_TTL
    RefreshTTL,     \* maxAge of the refresh cookie
    MaxClock,       \* bound on the clock
    MaxMishaps,     \* bound on lost connections and acts of the administration
    NoCall

ASSUME TabsAssumption == Layouts \subseteq [Calls -> Tabs] /\ BrowserOf \in [Tabs -> Browsers]
ASSUME TTLAssumption == {AccessTTL, RefreshTTL, MaxClock, MaxMishaps} \subseteq Nat
ASSUME NoCallAssumption == NoCall \notin Calls

VARIABLES
    tabOf,          \* the tab each call is made in, the same throughout
    clock,
    account,        \* the user's row: status and refreshTokenHash
    jar,            \* the cookies of each browser
    page,           \* what a tab shows: the app or the login page
    call,           \* what each call of apiFetch is waiting for
    inFlight,       \* inFlightRefresh: the call whose refresh a tab shares
    exchange,       \* what the server does for the call, with what it has read
    deaf,           \* calls whose connection broke: nobody hears the reply
    trouble,        \* something has happened that may cost a session
    forced,         \* a tab has been sent to the login page with `sessionExpired'
    mishaps,        \* how many of those there have been
    lateWrite       \* a rotation was written over a removal

sessionVars == <<tabOf, clock, account, jar, page, call, inFlight, exchange, deaf,
                 trouble, forced, mishaps, lateWrite>>

client == <<tabOf, jar, page, call, inFlight, forced>>
-----------------------------------------------------------------------------
NoToken == -1
Token == Nat \cup {NoToken}

AccountRow == [status: {"ACTIVE", "SUSPENDED", "REMOVED"}, hash: Token]

\* until: when the browser drops the refresh cookie.
Cookies == [access: Token, refresh: Token, until: Nat]

CallState == [kind: {"api", "logout", "login"},
              step: {"idle", "denied", "waiting", "retrying", "signing", "leaving"}]

\* token: the token presented, then the second it was read at, then the new one.
ExchangeState == [kind: {"refresh", "login", "logout"},
                  step: {"idle", "arriving", "replayed", "writing", "granted", "refused"},
                  token: Token]

SessionsTypeOK ==
    /\ tabOf \in Layouts
    /\ clock \in Nat
    /\ account \in AccountRow
    /\ jar \in [Browsers -> Cookies]
    /\ page \in [Tabs -> {"app", "login"}]
    /\ call \in [Calls -> CallState]
    /\ inFlight \in [Tabs -> Calls \cup {NoCall}]
    /\ exchange \in [Calls -> ExchangeState]
    /\ deaf \subseteq Calls
    /\ mishaps \in Nat
    /\ {trouble, forced, lateWrite} \subseteq BOOLEAN

Quiet == [kind |-> "refresh", step |-> "idle", token |-> NoToken]
AtRest == [kind |-> "api", step |-> "idle"]

\* The account exists; nobody is signed in.
SessionsInit ==
    /\ tabOf \in Layouts
    /\ clock = 0
    /\ account = [status |-> "ACTIVE", hash |-> NoToken]
    /\ jar = [b \in Browsers |-> [access |-> NoToken, refresh |-> NoToken, until |-> 0]]
    /\ page = [t \in Tabs |-> "login"]
    /\ call = [c \in Calls |-> AtRest]
    /\ inFlight = [t \in Tabs |-> NoCall]
    /\ exchange = [c \in Calls |-> Quiet]
    /\ deaf = {}
    /\ trouble = FALSE
    /\ forced = FALSE
    /\ mishaps = 0
    /\ lateWrite = FALSE
-----------------------------------------------------------------------------
JarOf(c) == jar[BrowserOf[tabOf[c]]]

\* JwtStrategy.validate: the access cookie has not run out, the account is ACTIVE.
Authorised(c) ==
    /\ JarOf(c).access # NoToken
    /\ clock < JarOf(c).access + AccessTTL
    /\ account.status = "ACTIVE"

PresentedBy(c) == IF clock < JarOf(c).until THEN JarOf(c).refresh ELSE NoToken

\* A step that ends up writing the user's hash begins.
Opens(c, kind, step, token) ==
    /\ exchange[c] = Quiet
    /\ exchange' = [exchange EXCEPT ![c] = [kind |-> kind, step |-> step, token |-> token]]

OthersBusy(c) == \E d \in Calls \ {c} : exchange[d].step # "idle"

\* A sign-in or a logout is under way, or a refresh of another tab.
OthersOverlap(c) ==
    \E d \in Calls \ {c} :
       /\ exchange[d].step # "idle"
       /\ exchange[d].kind # "refresh" \/ tabOf[d] # tabOf[c]

SignedInElsewhere(c) ==
    \E b \in Browsers \ {BrowserOf[tabOf[c]]} : jar[b].refresh # NoToken
-----------------------------------------------------------------------------
(* The tab. *)

\* A page calls the API.  A call that is served changes nothing here.
Send(c, kind) ==
    /\ page[tabOf[c]] = "app"
    /\ call[c] = AtRest
    /\ kind \in {"api", "logout"}
    /\ ~Authorised(c)
    /\ call' = [call EXCEPT ![c] = [kind |-> kind, step |-> "denied"]]
    /\ UNCHANGED <<tabOf, clock, account, jar, page, inFlight, exchange, deaf, trouble, forced, mishaps, lateWrite>>

\* logout with a good access cookie: the guard has let it in.
SignOut(c) ==
    /\ \/ page[tabOf[c]] = "app" /\ call[c] = AtRest
       \/ call[c] = [kind |-> "logout", step |-> "retrying"]
    /\ Authorised(c)
    /\ Opens(c, "logout", "writing", NoToken)
    /\ call' = [call EXCEPT ![c] = [kind |-> "logout", step |-> "leaving"]]
    /\ trouble' = (trouble \/ OthersBusy(c))
    /\ UNCHANGED <<tabOf, clock, account, jar, page, inFlight, deaf, forced, mishaps, lateWrite>>

\* Mutant: every call starts a refresh of its own.
DeniedAlone(c) ==
    /\ call[c].step = "denied"
    /\ call' = [call EXCEPT ![c].step = "waiting"]
    /\ Opens(c, "refresh", "arriving", PresentedBy(c))
    /\ inFlight' = [inFlight EXCEPT ![tabOf[c]] = c]
    /\ trouble' = (trouble \/ OthersOverlap(c) \/ PresentedBy(c) = NoToken)
    /\ UNCHANGED <<tabOf, clock, account, jar, page, deaf, forced, mishaps, lateWrite>>

\* apiFetch sees a 401: refreshOnce starts a refresh or joins the tab's.
Denied(c) ==
    /\ call[c].step = "denied"
    /\ call' = [call EXCEPT ![c].step = "waiting"]
    /\ IF inFlight[tabOf[c]] = NoCall
       THEN /\ Opens(c, "refresh", "arriving", PresentedBy(c))
            /\ inFlight' = [inFlight EXCEPT ![tabOf[c]] = c]
            /\ trouble' = (trouble \/ OthersOverlap(c) \/ PresentedBy(c) = NoToken)
       ELSE UNCHANGED <<exchange, inFlight, trouble>>
    /\ UNCHANGED <<tabOf, clock, account, jar, page, deaf, forced, mishaps, lateWrite>>

\* The request is sent once more; a second 401 is an error like any other.
Retry(c) ==
    /\ call[c].step = "retrying"
    /\ call[c].kind = "logout" => ~Authorised(c)
    /\ call' = [call EXCEPT ![c] = AtRest]
    /\ page' = IF call[c].kind = "logout"
               THEN [page EXCEPT ![tabOf[c]] = "login"] ELSE page
    /\ UNCHANGED <<tabOf, clock, account, jar, inFlight, exchange, deaf, trouble, forced, mishaps, lateWrite>>

\* Mutant: only the call that asked for the refresh hears of it.
RefreshedFirstOnly(t) ==
    /\ inFlight' = [inFlight EXCEPT ![t] = NoCall]
    /\ call' = [c \in Calls |-> IF c = inFlight[t]
                                THEN [call[c] EXCEPT !.step = "retrying"] ELSE call[c]]
    /\ UNCHANGED <<page, forced>>

\* The refresh tab t shares has worked: whoever waits for it sends again.
Refreshed(t) ==
    /\ inFlight' = [inFlight EXCEPT ![t] = NoCall]
    /\ call' = [c \in Calls |-> IF tabOf[c] = t /\ call[c].step = "waiting"
                                THEN [call[c] EXCEPT !.step = "retrying"] ELSE call[c]]
    /\ UNCHANGED <<page, forced>>

\* It has not: forceSessionLogout loads the login page, unless it is shown already.
ForcedOut(t) ==
    /\ inFlight' = [inFlight EXCEPT ![t] = NoCall]
    /\ page' = [page EXCEPT ![t] = "login"]
    /\ IF page[t] = "app"
       THEN /\ call' = [c \in Calls |-> IF tabOf[c] = t THEN AtRest ELSE call[c]]
            /\ forced' = TRUE
       ELSE /\ call' = [c \in Calls |-> IF tabOf[c] = t /\ call[c].step = "waiting"
                                        THEN AtRest ELSE call[c]]
            /\ UNCHANGED forced

\* The connections a page that is loaded anew gives up.
GivenUp(c) ==
    IF page[tabOf[c]] = "login" THEN {}
    ELSE {d \in Calls \ {c} : tabOf[d] = tabOf[c] /\ exchange[d].step # "idle"}

SignIn(c) ==
    /\ page[tabOf[c]] = "login"
    /\ call[c] = AtRest
    /\ \A d \in Calls : tabOf[d] = tabOf[c] => call[d].kind # "login"
    /\ Opens(c, "login", "arriving", NoToken)
    /\ call' = [call EXCEPT ![c] = [kind |-> "login", step |-> "signing"]]
    /\ trouble' = (trouble \/ OthersBusy(c) \/ SignedInElsewhere(c))
    /\ UNCHANGED <<tabOf, clock, account, jar, page, inFlight, deaf, forced, mishaps, lateWrite>>
-----------------------------------------------------------------------------
(* The server. *)

\* login: findFirst, the status, bcrypt.compare.
LoginRead(c) ==
    /\ exchange[c].kind = "login"
    /\ exchange[c].step = "arriving"
    /\ exchange' = [exchange EXCEPT ![c] =
          IF account.status = "ACTIVE" THEN [@ EXCEPT !.step = "writing", !.token = clock]
                                       ELSE [@ EXCEPT !.step = "refused"]]
    /\ UNCHANGED <<clock, account, client, deaf, trouble, mishaps, lateWrite>>

\* refresh: the row is read and the hashes compared; the status is not.
RefreshRead(c) ==
    /\ exchange[c].kind = "refresh"
    /\ exchange[c].step = "arriving"
    /\ LET presented == exchange[c].token
       IN  exchange' = [exchange EXCEPT ![c] =
             IF presented = NoToken \/ account.hash = NoToken
             THEN [@ EXCEPT !.step = "refused"]
             ELSE IF presented # account.hash
             THEN [@ EXCEPT !.step = "replayed"]
             ELSE [@ EXCEPT !.step = "writing", !.token = clock]]
    /\ UNCHANGED <<clock, account, client, deaf, trouble, mishaps, lateWrite>>

\* issueTokens, then an update by id, whatever the row has become meanwhile.
WriteTokens(c) ==
    /\ exchange[c].kind \in {"login", "refresh"}
    /\ exchange[c].step = "writing"
    /\ \E issued \in exchange[c].token .. clock :
         /\ account' = [account EXCEPT !.hash = issued]
         /\ exchange' = [exchange EXCEPT ![c].step = "granted", ![c].token = issued]
    /\ lateWrite' = (lateWrite \/ account.status = "REMOVED")
    /\ UNCHANGED <<clock, client, deaf, trouble, mishaps>>

\* A token that is not the row's: the session is ended.
Replayed(c) ==
    /\ exchange[c].step = "replayed"
    /\ account' = [account EXCEPT !.hash = NoToken]
    /\ exchange' = [exchange EXCEPT ![c].step = "refused"]
    /\ UNCHANGED <<clock, client, deaf, trouble, mishaps, lateWrite>>

WriteLogout(c) ==
    /\ exchange[c].kind = "logout"
    /\ exchange[c].step = "writing"
    /\ account' = [account EXCEPT !.hash = NoToken]
    /\ exchange' = [exchange EXCEPT ![c].step = "granted"]
    /\ trouble' = TRUE
    /\ UNCHANGED <<clock, client, deaf, mishaps, lateWrite>>
-----------------------------------------------------------------------------
(* The reply reaches the browser, which keeps the cookies it carries. *)

Closes(c) == exchange' = [exchange EXCEPT ![c] = Quiet]

SetCookies(c, token) ==
    jar' = [jar EXCEPT ![BrowserOf[tabOf[c]]] =
              [access |-> token, refresh |-> token, until |-> clock + RefreshTTL]]

ClearCookies(c) ==
    jar' = [jar EXCEPT ![BrowserOf[tabOf[c]]] =
              [access |-> NoToken, refresh |-> NoToken, until |-> 0]]

Granted(c) ==
    /\ exchange[c].step = "granted"
    /\ c \notin deaf
    /\ Closes(c)
    /\ CASE exchange[c].kind = "refresh" ->
              /\ SetCookies(c, exchange[c].token)
              /\ Refreshed(tabOf[c])
         [] exchange[c].kind = "login" ->
              /\ SetCookies(c, exchange[c].token)
              /\ call' = [call EXCEPT ![c] = AtRest]
              /\ page' = [page EXCEPT ![tabOf[c]] = "app"]
              /\ UNCHANGED <<inFlight, forced>>
         [] exchange[c].kind = "logout" ->
              /\ ClearCookies(c)
              /\ call' = [call EXCEPT ![c] = AtRest]
              /\ page' = [page EXCEPT ![tabOf[c]] = "login"]
              /\ UNCHANGED <<inFlight, forced>>
    /\ UNCHANGED <<tabOf, clock, account, deaf, trouble, mishaps, lateWrite>>

Refused(c) ==
    /\ exchange[c].step = "refused"
    /\ c \notin deaf
    /\ Closes(c)
    /\ IF exchange[c].kind = "refresh"
       THEN ForcedOut(tabOf[c]) /\ deaf' = deaf \cup GivenUp(c)
       ELSE /\ call' = [call EXCEPT ![c] = AtRest]
            /\ UNCHANGED <<page, inFlight, forced, deaf>>
    /\ UNCHANGED <<tabOf, clock, account, jar, trouble, mishaps, lateWrite>>

Mishap == mishaps < MaxMishaps /\ mishaps' = mishaps + 1

\* fetch fails: the server may not have heard, or may be about to answer.
Lose(c) ==
    /\ exchange[c].step # "idle"
    /\ c \notin deaf
    /\ \E unheard \in {{}, {c}} :
         /\ deaf' = deaf \cup unheard \cup
                      (IF exchange[c].kind = "refresh" THEN GivenUp(c) ELSE {})
         /\ IF unheard = {} THEN exchange[c].step = "arriving" /\ Closes(c)
                            ELSE UNCHANGED exchange
    /\ Mishap
    /\ trouble' = TRUE
    /\ IF exchange[c].kind = "refresh"
       THEN ForcedOut(tabOf[c])
       ELSE /\ call' = [call EXCEPT ![c] = AtRest]
            /\ page' = IF exchange[c].kind = "logout"
                       THEN [page EXCEPT ![tabOf[c]] = "login"] ELSE page
            /\ UNCHANGED <<inFlight, forced>>
    /\ UNCHANGED <<tabOf, clock, account, jar, lateWrite>>

\* A reply nobody waits for.
Unheard(c) ==
    /\ c \in deaf
    /\ exchange[c].step \in {"granted", "refused"}
    /\ Closes(c)
    /\ deaf' = deaf \ {c}
    /\ UNCHANGED <<clock, account, client, trouble, mishaps, lateWrite>>
-----------------------------------------------------------------------------
(* The administration (administration.service.ts) and time. *)

\* Mutant: only the status is written.
RemoveAccountOnly ==
    /\ Mishap
    /\ account' = [account EXCEPT !.status = "REMOVED"]
    /\ trouble' = TRUE
    /\ UNCHANGED <<clock, client, exchange, deaf, lateWrite>>

RemoveAccount ==
    /\ Mishap
    /\ account' = [status |-> "REMOVED", hash |-> NoToken]
    /\ trouble' = TRUE
    /\ UNCHANGED <<clock, client, exchange, deaf, lateWrite>>

SetAccountStatus ==
    /\ Mishap
    /\ \E status \in {"ACTIVE", "SUSPENDED"} :
         account' = [account EXCEPT !.status = status]
    /\ UNCHANGED <<clock, client, exchange, deaf, trouble, lateWrite>>

ClockTick ==
    /\ clock < MaxClock
    /\ clock' = clock + 1
    /\ UNCHANGED <<account, client, exchange, deaf, trouble, mishaps, lateWrite>>

\* What a call waits for, on the server, on the way back or in the tab.
Progress(c) ==
    \/ Denied(c) \/ Retry(c) \/ (SignOut(c) /\ call[c].step = "retrying")
    \/ LoginRead(c) \/ RefreshRead(c) \/ WriteTokens(c) \/ Replayed(c) \/ WriteLogout(c)
    \/ Granted(c) \/ Refused(c) \/ Unheard(c)

SessionsNext ==
    \/ \E c \in Calls :
         \/ \E kind \in {"api", "logout"} : Send(c, kind)
         \/ SignOut(c) \/ SignIn(c) \/ Lose(c)
         \/ Denied(c) \/ Retry(c)
         \/ LoginRead(c) \/ RefreshRead(c) \/ WriteTokens(c) \/ Replayed(c) \/ WriteLogout(c)
         \/ Granted(c) \/ Refused(c) \/ Unheard(c)
    \/ RemoveAccount \/ SetAccountStatus \/ ClockTick

\* The server answers what reaches it, and a tab goes on when it has its answer.
SessionsFairness == \A c \in Calls : WF_sessionVars(Progress(c))

SessionsSpec == SessionsInit /\ [][SessionsNext]_sessionVars /\ SessionsFairness
-----------------------------------------------------------------------------
(* Properties. *)

(* A tab is sent to the login page with "session expired" only after       *)
(* something that may end a session: an exchange whose reply was lost, two *)
(* exchanges that overlapped (two tabs, or a sign-in during a refresh), a  *)
(* logout or a removal, a sign-in in another browser, a cookie that ran    *)
(* out.  However many calls of a tab get a 401 at once, and in whatever    *)
(* order, is not such a thing (api-client.ts, refreshOnce).                *)
LoggedOutForCause == forced => trouble

(* Removing an account leaves it no session (administration.service.ts:    *)
(* "clearing the refresh token hash kills any session"), unless a rotation *)
(* that had read the row before the removal wrote its hash after it.       *)
RemovalEndsSession ==
    account.status = "REMOVED" /\ account.hash # NoToken => lateWrite

(* Every call that was denied is answered in the end: the retry happens    *)
(* once, a refresh that never gets through lets go of those who wait.      *)
EveryCallEnds == \A c \in Calls : call[c].step # "idle" ~> call[c].step = "idle"
=============================================================================
