---------------------------- MODULE AccountsProofs ----------------------------
(***************************************************************************)
(* What holds of sessions, and of residents, invites and homes, for any    *)
(* number of browsers, requests, apartments and people.                    *)
(***************************************************************************)
EXTENDS Sessions, Residency, TLAPS
-----------------------------------------------------------------------------
(* Sessions.  While nothing has happened that costs a session, requests that*)
(* change one do not meet, and what a browser or a request carries is the  *)
(* row's token or the one it is about to become.                           *)

Busy(c) == exchange[c].step # "idle"

Hearing(c) == Busy(c) /\ exchange[c].kind # "logout"

\* What is at hand while nothing has happened that costs a session: the tabs' exchanges do
\* not meet, and a refresh presents the token of the row.
OneExchange == \A c, d \in Calls : Busy(c) /\ Busy(d) => c = d

RefreshFits ==
    \A c \in Calls : Busy(c) /\ exchange[c].kind = "refresh" =>
        /\ inFlight[tabOf[c]] = c
        /\ exchange[c].step \in {"arriving", "writing", "granted"}
        /\ exchange[c].step = "arriving" =>
              exchange[c].token = account.hash /\ exchange[c].token # NoToken

GrantFits ==
    \A c \in Calls :
        /\ exchange[c].step # "replayed"
        /\ exchange[c].step = "granted" =>
              exchange[c].kind # "logout" /\ exchange[c].token = account.hash

\* One browser has the cookies, which are the row's token or about to be replaced.
JarFits ==
    \A b \in Browsers : jar[b].refresh # NoToken =>
        /\ \A d \in Browsers : jar[d].refresh # NoToken => d = b
        /\ \A c \in Calls : Hearing(c) => b = BrowserOf[tabOf[c]]
        /\ jar[b].refresh = account.hash \/ \E c \in Calls : exchange[c].step = "granted"

SessionKept == deaf = {} /\ OneExchange /\ RefreshFits /\ GrantFits /\ JarFits

SessionsInv == SessionsTypeOK /\ LoggedOutForCause /\ (~trouble => SessionKept)

Steps == {"idle", "arriving", "replayed", "writing", "granted", "refused"}
Kinds == {"refresh", "login", "logout"}

LEMMA QuietRow == Quiet \in ExchangeState /\ Quiet.step = "idle"
  BY DEF Quiet, ExchangeState, Token, NoToken

LEMMA RestRow == AtRest \in CallState
  BY DEF AtRest, CallState

LEMMA SessionsInitial == SessionsInit => SessionsInv
<1>. SUFFICES ASSUME SessionsInit PROVE SessionsInv
  OBVIOUS
<1>1. SessionsTypeOK
  BY QuietRow, RestRow, TabsAssumption
     DEF SessionsInit, SessionsTypeOK, AccountRow, Cookies, Token, NoToken
<1>2. \A c \in Calls : exchange[c].step = "idle"
  BY QuietRow DEF SessionsInit
<1>3. \A b \in Browsers : jar[b].refresh = NoToken
  BY DEF SessionsInit
<1>4. SessionKept
  BY <1>2, <1>3 DEF SessionsInit, SessionKept, OneExchange, RefreshFits, GrantFits, JarFits, Busy
<1>. QED
  BY <1>1, <1>4 DEF SessionsInit, SessionsInv, LoggedOutForCause

LEMMA ExchangeStepped ==
    ASSUME NEW e \in ExchangeState, NEW s \in Steps
    PROVE  /\ [e EXCEPT !.step = s] \in ExchangeState
           /\ [e EXCEPT !.step = s].kind = e.kind
           /\ [e EXCEPT !.step = s].step = s
           /\ [e EXCEPT !.step = s].token = e.token
  BY DEF ExchangeState, Steps

Stepped(e, s, t) == [e EXCEPT !.step = s, !.token = t]

LEMMA ExchangeChange ==
    ASSUME NEW e \in ExchangeState, NEW s \in Steps, NEW t \in Token
    PROVE  /\ Stepped(e, s, t) \in ExchangeState /\ Stepped(e, s, t).kind = e.kind
           /\ Stepped(e, s, t).step = s /\ Stepped(e, s, t).token = t
  BY DEF ExchangeState, Steps, Stepped

LEMMA CallChange ==
    ASSUME NEW e \in CallState, NEW s \in {"idle", "denied", "waiting", "retrying", "signing", "leaving"}
    PROVE  [e EXCEPT !.step = s] \in CallState
  BY DEF CallState

\* Facts of the layout.
LEMMA Places ==
    ASSUME SessionsTypeOK, NEW c \in Calls
    PROVE  tabOf[c] \in Tabs /\ BrowserOf[tabOf[c]] \in Browsers /\ inFlight[tabOf[c]] \in Calls \cup {NoCall}
  BY TabsAssumption DEF SessionsTypeOK

LEMMA RefreshedFits ==
    ASSUME SessionsTypeOK, NEW t \in Tabs, Refreshed(t)
    PROVE  call' \in [Calls -> CallState] /\ inFlight' \in [Tabs -> Calls \cup {NoCall}]
<1>1. \A c \in Calls : [call[c] EXCEPT !.step = "retrying"] \in CallState
  BY CallChange DEF SessionsTypeOK
<1>2. \A c \in Calls : call[c] \in CallState
  BY DEF SessionsTypeOK
<1>3. call' \in [Calls -> CallState]
  BY <1>1, <1>2 DEF Refreshed
<1>. QED
  BY <1>3 DEF Refreshed, SessionsTypeOK

LEMMA ForcedOutFits ==
    ASSUME SessionsTypeOK, NEW t \in Tabs, ForcedOut(t)
    PROVE  /\ call' \in [Calls -> CallState] /\ inFlight' \in [Tabs -> Calls \cup {NoCall}]
           /\ page' \in [Tabs -> {"app", "login"}] /\ forced' \in BOOLEAN
<1>1. \A c \in Calls : call[c] \in CallState
  BY DEF SessionsTypeOK
<1>2. call' \in [Calls -> CallState]
  BY <1>1, RestRow DEF ForcedOut
<1>. QED
  BY <1>2 DEF ForcedOut, SessionsTypeOK

LEMMA ExchangeMoves ==
    ASSUME SessionsTypeOK, NEW c \in Calls, NEW e \in ExchangeState,
           exchange' = [exchange EXCEPT ![c] = e]
    PROVE  /\ exchange' \in [Calls -> ExchangeState] /\ exchange'[c] = e
           /\ \A d \in Calls \ {c} : exchange'[d] = exchange[d]
  BY DEF SessionsTypeOK

\* What the pages do between two requests.
LEMMA PageSteps ==
    ASSUME SessionsInv, NEW c \in Calls,
           Retry(c) \/ \E kind \in {"api", "logout"} : Send(c, kind)
    PROVE  SessionsInv'
<1>1. /\ UNCHANGED <<tabOf, clock, account, jar, inFlight, exchange, deaf, trouble, forced,
                     mishaps, lateWrite>>
  BY DEF Retry, Send
<1>2. call' \in [Calls -> CallState]
  BY RestRow DEF Retry, Send, SessionsInv, SessionsTypeOK, CallState
<1>3. page' \in [Tabs -> {"app", "login"}]
  BY DEF Retry, Send, SessionsInv, SessionsTypeOK
<1>4. SessionsTypeOK'
  BY <1>1, <1>2, <1>3 DEF SessionsInv, SessionsTypeOK
<1>5. SessionKept => SessionKept'
  BY <1>1 DEF SessionKept, OneExchange, RefreshFits, GrantFits, JarFits, Busy, Hearing
<1>. QED
  BY <1>1, <1>4, <1>5 DEF SessionsInv, LoggedOutForCause

\* An exchange begins.
LEMMA OpensFits ==
    ASSUME SessionsTypeOK, NEW c \in Calls, NEW k \in Kinds, NEW s \in Steps, NEW t \in Token,
           Opens(c, k, s, t)
    PROVE  /\ exchange[c].step = "idle"
           /\ exchange' \in [Calls -> ExchangeState]
           /\ exchange'[c].kind = k /\ exchange'[c].step = s /\ exchange'[c].token = t
           /\ \A d \in Calls \ {c} : exchange'[d] = exchange[d]
<1>. DEFINE e == [kind |-> k, step |-> s, token |-> t]
<1>1. e \in ExchangeState /\ e.kind = k /\ e.step = s /\ e.token = t
  BY DEF ExchangeState, Kinds, Steps
<1>2. exchange' = [exchange EXCEPT ![c] = e]
  BY DEF Opens
<1>3. exchange[c].step = "idle"
  BY QuietRow DEF Opens
<1>. HIDE DEF e
<1>. QED
  BY <1>1, <1>2, <1>3, ExchangeMoves

LEMMA SignOutStep ==
    ASSUME SessionsInv, NEW c \in Calls, SignOut(c)
    PROVE  SessionsInv'
<1>1. /\ UNCHANGED <<tabOf, clock, account, jar, page, inFlight, deaf, forced, mishaps, lateWrite>>
      /\ trouble' = (trouble \/ OthersBusy(c))
  BY DEF SignOut
<1>2. /\ exchange[c].step = "idle"
      /\ exchange' \in [Calls -> ExchangeState]
      /\ exchange'[c].kind = "logout" /\ exchange'[c].step = "writing"
      /\ \A d \in Calls \ {c} : exchange'[d] = exchange[d]
  BY OpensFits DEF SignOut, SessionsInv, Kinds, Steps, Token
<1>3. call' \in [Calls -> CallState]
  BY DEF SignOut, SessionsInv, SessionsTypeOK, CallState
<1>4. SessionsTypeOK'
  BY <1>1, <1>2, <1>3 DEF SessionsInv, SessionsTypeOK
<1>5. ASSUME ~trouble' PROVE SessionKept'
  <2>1. \A d \in Calls \ {c} : exchange[d].step = "idle"
    BY <1>1, <1>5 DEF OthersBusy
  <2>2. SessionKept /\ ~trouble
    BY <1>1, <1>5 DEF SessionsInv
  <2>3. OneExchange' /\ RefreshFits' /\ GrantFits'
    BY <1>1, <1>2, <2>1, <2>2 DEF SessionKept, OneExchange, RefreshFits, GrantFits, Busy
  <2>4. JarFits'
    BY <1>1, <1>2, <2>1, <2>2 DEF SessionKept, JarFits, Busy, Hearing
  <2>. QED
    BY <1>1, <2>2, <2>3, <2>4 DEF SessionKept
<1>. QED
  BY <1>1, <1>4, <1>5 DEF SessionsInv, LoggedOutForCause

LEMMA SignInStep ==
    ASSUME SessionsInv, NEW c \in Calls, SignIn(c)
    PROVE  SessionsInv'
<1>1. /\ UNCHANGED <<tabOf, clock, account, jar, page, inFlight, deaf, forced, mishaps, lateWrite>>
      /\ trouble' = (trouble \/ OthersBusy(c) \/ SignedInElsewhere(c))
  BY DEF SignIn
<1>2. /\ exchange[c].step = "idle"
      /\ exchange' \in [Calls -> ExchangeState]
      /\ exchange'[c].kind = "login" /\ exchange'[c].step = "arriving"
      /\ \A d \in Calls \ {c} : exchange'[d] = exchange[d]
  BY OpensFits DEF SignIn, SessionsInv, Kinds, Steps, Token
<1>3. call' \in [Calls -> CallState]
  BY DEF SignIn, SessionsInv, SessionsTypeOK, CallState
<1>4. SessionsTypeOK'
  BY <1>1, <1>2, <1>3 DEF SessionsInv, SessionsTypeOK
<1>5. ASSUME ~trouble' PROVE SessionKept'
  <2>1. \A d \in Calls \ {c} : exchange[d].step = "idle"
    BY <1>1, <1>5 DEF OthersBusy
  <2>2. SessionKept /\ ~trouble
    BY <1>1, <1>5 DEF SessionsInv
  <2>3. \A b \in Browsers : jar[b].refresh # NoToken => b = BrowserOf[tabOf[c]]
    BY <1>1, <1>5 DEF SignedInElsewhere
  <2>4. OneExchange' /\ RefreshFits' /\ GrantFits'
    BY <1>1, <1>2, <2>1, <2>2 DEF SessionKept, OneExchange, RefreshFits, GrantFits, Busy
  <2>5. JarFits'
    BY <1>1, <1>2, <2>1, <2>2, <2>3 DEF SessionKept, JarFits, Busy, Hearing
  <2>. QED
    BY <1>1, <2>2, <2>4, <2>5 DEF SessionKept
<1>. QED
  BY <1>1, <1>4, <1>5 DEF SessionsInv, LoggedOutForCause

LEMMA PresentedFits ==
    ASSUME SessionsTypeOK, NEW c \in Calls
    PROVE  /\ PresentedBy(c) \in Token
           /\ PresentedBy(c) # NoToken => PresentedBy(c) = jar[BrowserOf[tabOf[c]]].refresh
  BY Places DEF PresentedBy, JarOf, SessionsTypeOK, Cookies, Token

\* A tab that is denied: it joins the refresh of the tab, or begins one.
LEMMA DeniedStep ==
    ASSUME SessionsInv, NEW c \in Calls, Denied(c)
    PROVE  SessionsInv'
<1>1. UNCHANGED <<tabOf, clock, account, jar, page, deaf, forced, mishaps, lateWrite>>
  BY DEF Denied
<1>2. call' \in [Calls -> CallState]
  BY DEF Denied, SessionsInv, SessionsTypeOK, CallState
<1>3. CASE inFlight[tabOf[c]] # NoCall
  <2>1. UNCHANGED <<exchange, inFlight, trouble>>
    BY <1>3 DEF Denied
  <2>2. SessionsTypeOK'
    BY <1>1, <1>2, <2>1 DEF SessionsInv, SessionsTypeOK
  <2>3. SessionKept => SessionKept'
    BY <1>1, <2>1 DEF SessionKept, OneExchange, RefreshFits, GrantFits, JarFits, Busy, Hearing
  <2>. QED
    BY <1>1, <2>1, <2>2, <2>3 DEF SessionsInv, LoggedOutForCause
<1>4. CASE inFlight[tabOf[c]] = NoCall
  <2>1. /\ Opens(c, "refresh", "arriving", PresentedBy(c))
        /\ inFlight' = [inFlight EXCEPT ![tabOf[c]] = c]
        /\ trouble' = (trouble \/ OthersOverlap(c) \/ PresentedBy(c) = NoToken)
    BY <1>4 DEF Denied
  <2>2. /\ exchange[c].step = "idle"
        /\ exchange' \in [Calls -> ExchangeState]
        /\ exchange'[c].kind = "refresh" /\ exchange'[c].step = "arriving"
        /\ exchange'[c].token = PresentedBy(c)
        /\ \A d \in Calls \ {c} : exchange'[d] = exchange[d]
    BY <2>1, OpensFits, PresentedFits DEF SessionsInv, Kinds, Steps
  <2>3. /\ inFlight' \in [Tabs -> Calls \cup {NoCall}] /\ inFlight'[tabOf[c]] = c
    BY <2>1, Places DEF SessionsInv, SessionsTypeOK
  <2>4. SessionsTypeOK'
    BY <1>1, <1>2, <2>1, <2>2, <2>3 DEF SessionsInv, SessionsTypeOK
  <2>5. ASSUME ~trouble' PROVE SessionKept'
    <3>1. SessionKept /\ ~trouble /\ PresentedBy(c) # NoToken /\ ~OthersOverlap(c)
      BY <2>1, <2>5 DEF SessionsInv
    <3>2. \A d \in Calls \ {c} : ~Busy(d)
      BY <1>4, <3>1, NoCallAssumption DEF OthersOverlap, Busy, SessionKept, RefreshFits
    <3>. DEFINE b == BrowserOf[tabOf[c]]
    <3>3. b \in Browsers /\ jar[b].refresh = PresentedBy(c)
      BY <3>1, PresentedFits, Places DEF SessionsInv
    <3>4. \A d \in Calls : exchange[d].step = "idle"
      BY <2>2, <3>2 DEF Busy
    <3>5. /\ \A d \in Browsers : jar[d].refresh # NoToken => d = b
          /\ jar[b].refresh = account.hash
      BY <3>1, <3>3, <3>4 DEF SessionKept, JarFits
    <3>6. OneExchange' /\ RefreshFits' /\ GrantFits'
      BY <1>1, <2>2, <2>3, <3>1, <3>3, <3>4, <3>5
         DEF OneExchange, RefreshFits, GrantFits, Busy
    <3>7. JarFits'
      BY <1>1, <2>2, <3>3, <3>4, <3>5 DEF JarFits, Busy, Hearing
    <3>. QED
      BY <1>1, <3>1, <3>6, <3>7 DEF SessionKept
  <2>. QED
    BY <1>1, <2>1, <2>4, <2>5 DEF SessionsInv, LoggedOutForCause
<1>. QED
  BY <1>3, <1>4

\* The server's first step: the row is read.
LEMMA ReadStep ==
    ASSUME SessionsInv, NEW c \in Calls, LoginRead(c) \/ RefreshRead(c)
    PROVE  SessionsInv'
<1>1. UNCHANGED <<clock, account, client, deaf, trouble, mishaps, lateWrite>>
      /\ exchange[c].step = "arriving"
  BY DEF LoginRead, RefreshRead
<1>2. exchange[c] \in ExchangeState /\ clock \in Token
  BY DEF SessionsInv, SessionsTypeOK, Token
<1>3. \E e \in ExchangeState :
        /\ exchange' = [exchange EXCEPT ![c] = e]
        /\ e.kind = exchange[c].kind
        /\ \/ e.step = "writing"
           \/ /\ e.step = "refused"
              /\ e.kind = "refresh" => exchange[c].token = NoToken \/ account.hash = NoToken
           \/ e.step = "replayed" /\ e.kind = "refresh" /\ exchange[c].token # account.hash
  <2>. DEFINE e == Stepped(exchange[c], "writing", clock)
              r == [exchange[c] EXCEPT !.step = "refused"]
              p == [exchange[c] EXCEPT !.step = "replayed"]
  <2>1. /\ e \in ExchangeState /\ e.kind = exchange[c].kind /\ e.step = "writing"
        /\ r \in ExchangeState /\ r.kind = exchange[c].kind /\ r.step = "refused"
        /\ p \in ExchangeState /\ p.kind = exchange[c].kind /\ p.step = "replayed"
    <3>1. {"writing", "refused", "replayed"} \subseteq Steps
      BY DEF Steps
    <3>. QED
      BY <1>2, <3>1, ExchangeChange, ExchangeStepped
  <2>2. \/ exchange' = [exchange EXCEPT ![c] = e]
        \/ /\ exchange' = [exchange EXCEPT ![c] = r]
           /\ exchange[c].kind = "refresh" =>
                exchange[c].token = NoToken \/ account.hash = NoToken
        \/ /\ exchange' = [exchange EXCEPT ![c] = p] /\ exchange[c].kind = "refresh"
           /\ exchange[c].token # account.hash
    BY DEF LoginRead, RefreshRead, SessionsInv, SessionsTypeOK, Stepped
  <2>. HIDE DEF e, r, p
  <2>. QED
    BY <2>1, <2>2
<1>4. PICK e \in ExchangeState :
        /\ exchange' = [exchange EXCEPT ![c] = e]
        /\ e.kind = exchange[c].kind
        /\ \/ e.step = "writing"
           \/ /\ e.step = "refused"
              /\ e.kind = "refresh" => exchange[c].token = NoToken \/ account.hash = NoToken
           \/ e.step = "replayed" /\ e.kind = "refresh" /\ exchange[c].token # account.hash
  BY <1>3
<1>5. /\ exchange' \in [Calls -> ExchangeState] /\ exchange'[c] = e
      /\ \A d \in Calls \ {c} : exchange'[d] = exchange[d]
  BY <1>4, ExchangeMoves DEF SessionsInv
<1>6. SessionsTypeOK'
  BY <1>1, <1>5 DEF SessionsInv, SessionsTypeOK, client
<1>7. ASSUME SessionKept PROVE SessionKept'
  <2>1. (Busy(c) /\ Hearing(c)) \/ exchange[c].kind = "logout"
    BY <1>1 DEF Busy, Hearing
  <2>2. e.kind = "refresh" => e.step = "writing"
    BY <1>1, <1>4, <1>7 DEF SessionKept, RefreshFits, Busy
  <2>3. /\ exchange'[c].step \in {"writing", "refused"}
        /\ exchange'[c].kind = "refresh" => exchange'[c].step = "writing"
        /\ exchange'[c].kind = exchange[c].kind
    BY <1>4, <1>5, <2>2
  <2>4. \A d \in Calls : Busy(d)' <=> Busy(d)
    BY <1>1, <1>5, <2>3 DEF Busy
  <2>5. \A d \in Calls : Hearing(d)' <=> Hearing(d)
    BY <1>5, <2>3, <2>4 DEF Hearing
  <2>6. OneExchange' /\ RefreshFits' /\ GrantFits'
    BY <1>1, <1>5, <1>7, <2>3, <2>4
       DEF SessionKept, OneExchange, RefreshFits, GrantFits, client
  <2>7. \A d \in Calls : exchange[d].step = "granted" => exchange'[d].step = "granted"
    BY <1>1, <1>5
  <2>8. JarFits'
    BY <1>1, <1>7, <2>5, <2>7 DEF SessionKept, JarFits, client
  <2>. QED
    BY <1>1, <1>7, <2>6, <2>8 DEF SessionKept
<1>. QED
  BY <1>1, <1>6, <1>7 DEF SessionsInv, LoggedOutForCause, client

LEMMA AccountHash ==
    ASSUME NEW a \in AccountRow, NEW h \in Token
    PROVE  LET n == [a EXCEPT !.hash = h]
           IN  n \in AccountRow /\ n.hash = h /\ n.status = a.status
  BY DEF AccountRow

\* ... and the second: the token it answers with is the row's.
LEMMA WriteTokensStep ==
    ASSUME SessionsInv, NEW c \in Calls, WriteTokens(c)
    PROVE  SessionsInv'
<1>1. /\ UNCHANGED <<clock, client, deaf, trouble, mishaps>>
      /\ lateWrite' = (lateWrite \/ account.status = "REMOVED")
      /\ exchange[c].kind \in {"login", "refresh"} /\ exchange[c].step = "writing"
  BY DEF WriteTokens
<1>2. /\ exchange[c] \in ExchangeState /\ exchange[c].token \in Token /\ clock \in Nat
      /\ account \in AccountRow
  BY DEF SessionsInv, SessionsTypeOK, ExchangeState
<1>3. PICK issued \in exchange[c].token .. clock :
        /\ account' = [account EXCEPT !.hash = issued]
        /\ exchange' = [exchange EXCEPT ![c].step = "granted", ![c].token = issued]
  BY DEF WriteTokens
<1>4. issued \in Token
  BY <1>2 DEF Token, NoToken
<1>5. account' \in AccountRow /\ account'.hash = issued
  BY <1>2, <1>3, <1>4, AccountHash
<1>. DEFINE e == Stepped(exchange[c], "granted", issued)
<1>6. /\ e \in ExchangeState /\ e.kind = exchange[c].kind /\ e.step = "granted"
      /\ e.token = issued
  <2>1. "granted" \in Steps
    BY DEF Steps
  <2>. QED
    BY <1>2, <1>4, <2>1, ExchangeChange
<1>7. exchange' = [exchange EXCEPT ![c] = e]
  BY <1>3 DEF SessionsInv, SessionsTypeOK, Stepped
<1>. HIDE DEF e
<1>8. /\ exchange' \in [Calls -> ExchangeState] /\ exchange'[c] = e
      /\ \A d \in Calls \ {c} : exchange'[d] = exchange[d]
  BY <1>6, <1>7, ExchangeMoves DEF SessionsInv
<1>9. SessionsTypeOK'
  BY <1>1, <1>5, <1>8 DEF SessionsInv, SessionsTypeOK, client
<1>10. ASSUME SessionKept PROVE SessionKept'
  <2>1. \A d \in Calls \ {c} : ~Busy(d)
    BY <1>1, <1>10 DEF SessionKept, OneExchange, Busy
  <2>2. \A d \in Calls : (Busy(d)' <=> Busy(d)) /\ (Hearing(d)' <=> Hearing(d))
    BY <1>1, <1>6, <1>8 DEF Busy, Hearing
  <2>3. OneExchange' /\ RefreshFits'
    BY <1>1, <1>6, <1>8, <1>10, <2>1, <2>2
       DEF SessionKept, OneExchange, RefreshFits, Busy, client
  <2>4. GrantFits'
    BY <1>1, <1>5, <1>6, <1>8, <2>1 DEF GrantFits, Busy
  <2>5. JarFits'
    BY <1>1, <1>6, <1>8, <1>10, <2>2 DEF SessionKept, JarFits, client
  <2>. QED
    BY <1>1, <1>10, <2>3, <2>4, <2>5 DEF SessionKept
<1>. QED
  BY <1>1, <1>9, <1>10 DEF SessionsInv, LoggedOutForCause, client

\* What ends a session is known to do so; a token that is not the row's is not presented.
LEMMA EndSessionStep ==
    ASSUME SessionsInv, NEW c \in Calls, Replayed(c) \/ WriteLogout(c)
    PROVE  SessionsInv'
<1>1. /\ UNCHANGED <<clock, client, deaf, mishaps, lateWrite>>
      /\ account' = [account EXCEPT !.hash = NoToken]
      /\ trouble' = TRUE \/ (trouble' = trouble /\ exchange[c].step = "replayed")
  BY DEF Replayed, WriteLogout
<1>2. account' \in AccountRow
  BY <1>1, AccountHash DEF SessionsInv, SessionsTypeOK, Token
<1>3. \E s \in Steps : exchange' = [exchange EXCEPT ![c] = [exchange[c] EXCEPT !.step = s]]
  BY DEF Replayed, WriteLogout, Steps, SessionsInv, SessionsTypeOK
<1>4. PICK s \in Steps : exchange' = [exchange EXCEPT ![c] = [exchange[c] EXCEPT !.step = s]]
  BY <1>3
<1>5. [exchange[c] EXCEPT !.step = s] \in ExchangeState
  BY ExchangeStepped DEF SessionsInv, SessionsTypeOK, Token
<1>6. exchange' \in [Calls -> ExchangeState]
  BY <1>4, <1>5, ExchangeMoves DEF SessionsInv
<1>7. trouble' = TRUE
  BY <1>1 DEF SessionsInv, SessionKept, GrantFits, SessionsTypeOK
<1>8. SessionsTypeOK'
  BY <1>1, <1>2, <1>6, <1>7 DEF SessionsInv, SessionsTypeOK, client
<1>. QED
  BY <1>7, <1>8 DEF SessionsInv, LoggedOutForCause

\* An exchange is over.
LEMMA ClosesFits ==
    ASSUME SessionsInv, NEW c \in Calls, Closes(c)
    PROVE  /\ exchange' \in [Calls -> ExchangeState] /\ exchange'[c].step = "idle"
           /\ \A d \in Calls \ {c} : exchange'[d] = exchange[d]
  BY QuietRow, ExchangeMoves DEF SessionsInv, Closes

\* The cookies of an answer are those of the row, and no other browser has any.
LEMMA GrantedStep ==
    ASSUME SessionsInv, NEW c \in Calls, Granted(c)
    PROVE  SessionsInv'
<1>1. /\ UNCHANGED <<tabOf, clock, account, deaf, trouble, mishaps, lateWrite>>
      /\ exchange[c].step = "granted" /\ Closes(c)
  BY DEF Granted
<1>2. /\ exchange' \in [Calls -> ExchangeState] /\ exchange'[c].step = "idle"
      /\ \A d \in Calls \ {c} : exchange'[d] = exchange[d]
  BY <1>1, ClosesFits
<1>. DEFINE b == BrowserOf[tabOf[c]]
<1>3. /\ exchange[c] \in ExchangeState /\ exchange[c].token \in Token
      /\ exchange[c].kind \in Kinds /\ clock + RefreshTTL \in Nat
      /\ tabOf[c] \in Tabs /\ b \in Browsers
  BY Places, TTLAssumption DEF SessionsInv, SessionsTypeOK, ExchangeState, Kinds
<1>. DEFINE t == exchange[c].token
            new == [access |-> t, refresh |-> t, until |-> clock + RefreshTTL]
            none == [access |-> NoToken, refresh |-> NoToken, until |-> 0]
<1>4. new \in Cookies /\ new.refresh = t /\ none \in Cookies
  BY <1>3 DEF Cookies, Token
<1>5. /\ \/ exchange[c].kind # "logout" /\ jar' = [jar EXCEPT ![b] = new]
         \/ exchange[c].kind = "logout" /\ jar' = [jar EXCEPT ![b] = none]
      /\ forced' = forced
  BY <1>3 DEF Granted, Kinds, SetCookies, ClearCookies, Refreshed
<1>. HIDE DEF new, none
<1>6. /\ jar' \in [Browsers -> Cookies]
      /\ \A d \in Browsers \ {b} : jar'[d] = jar[d]
      /\ exchange[c].kind # "logout" => jar'[b].refresh = t
  BY <1>3, <1>4, <1>5 DEF SessionsInv, SessionsTypeOK
<1>7. /\ call' \in [Calls -> CallState]
      /\ inFlight' \in [Tabs -> Calls \cup {NoCall}]
      /\ page' \in [Tabs -> {"app", "login"}]
  <2>1. CASE exchange[c].kind = "refresh"
    <3>1. Refreshed(tabOf[c])
      BY <2>1 DEF Granted
    <3>. QED
      BY <1>3, <3>1, RefreshedFits DEF SessionsInv, SessionsTypeOK, Refreshed
  <2>2. CASE exchange[c].kind = "login" \/ exchange[c].kind = "logout"
    <3>1. /\ call' = [call EXCEPT ![c] = AtRest] /\ inFlight' = inFlight
          /\ \/ page' = [page EXCEPT ![tabOf[c]] = "app"]
             \/ page' = [page EXCEPT ![tabOf[c]] = "login"]
      BY <2>2 DEF Granted
    <3>. QED
      BY <3>1, RestRow DEF SessionsInv, SessionsTypeOK
  <2>. QED
    BY <1>3, <2>1, <2>2 DEF Kinds
<1>8. SessionsTypeOK'
  BY <1>1, <1>2, <1>5, <1>6, <1>7 DEF SessionsInv, SessionsTypeOK
<1>9. ASSUME SessionKept PROVE SessionKept'
  <2>1. exchange[c].kind # "logout" /\ t = account.hash /\ Hearing(c) /\ Busy(c)
    BY <1>1, <1>9 DEF SessionKept, GrantFits, Busy, Hearing
  <2>2. \A d \in Calls : exchange'[d].step = "idle"
    BY <1>2, <1>9, <2>1 DEF SessionKept, OneExchange, Busy
  <2>3. OneExchange' /\ RefreshFits' /\ GrantFits'
    BY <2>2 DEF OneExchange, RefreshFits, GrantFits, Busy
  <2>4. \A d \in Browsers : jar'[d].refresh # NoToken => d = b
    BY <1>6, <1>9, <2>1 DEF SessionKept, JarFits
  <2>5. jar'[b].refresh = account'.hash
    BY <1>1, <1>6, <2>1
  <2>6. JarFits'
    BY <2>2, <2>4, <2>5 DEF JarFits, Busy, Hearing
  <2>. QED
    BY <1>1, <1>9, <2>3, <2>6 DEF SessionKept
<1>. QED
  BY <1>1, <1>5, <1>8, <1>9 DEF SessionsInv, LoggedOutForCause

\* A refresh is refused only after something that costs a session.
LEMMA RefusedStep ==
    ASSUME SessionsInv, NEW c \in Calls, Refused(c)
    PROVE  SessionsInv'
<1>1. /\ UNCHANGED <<tabOf, clock, account, jar, trouble, mishaps, lateWrite>>
      /\ exchange[c].step = "refused" /\ Closes(c)
  BY DEF Refused
<1>2. /\ exchange' \in [Calls -> ExchangeState] /\ exchange'[c].step = "idle"
      /\ \A d \in Calls \ {c} : exchange'[d] = exchange[d]
  BY <1>1, ClosesFits
<1>3. CASE exchange[c].kind = "refresh"
  <2>1. trouble
    BY <1>1, <1>3 DEF SessionsInv, SessionKept, RefreshFits, Busy
  <2>2. /\ call' \in [Calls -> CallState] /\ inFlight' \in [Tabs -> Calls \cup {NoCall}]
        /\ page' \in [Tabs -> {"app", "login"}] /\ forced' \in BOOLEAN
    BY <1>3, Places, ForcedOutFits DEF SessionsInv, Refused
  <2>3. deaf' \subseteq Calls
    BY <1>3 DEF Refused, GivenUp, SessionsInv, SessionsTypeOK
  <2>4. SessionsTypeOK'
    BY <1>1, <1>2, <2>2, <2>3 DEF SessionsInv, SessionsTypeOK
  <2>. QED
    BY <1>1, <2>1, <2>4 DEF SessionsInv, LoggedOutForCause
<1>4. CASE exchange[c].kind # "refresh"
  <2>1. UNCHANGED <<page, inFlight, forced, deaf>> /\ call' = [call EXCEPT ![c] = AtRest]
    BY <1>4 DEF Refused
  <2>2. SessionsTypeOK'
    BY <1>1, <1>2, <2>1, RestRow DEF SessionsInv, SessionsTypeOK
  <2>3. ASSUME SessionKept PROVE SessionKept'
    <3>1. OneExchange' /\ RefreshFits' /\ GrantFits'
      BY <1>1, <1>2, <2>1, <2>3 DEF SessionKept, OneExchange, RefreshFits, GrantFits, Busy
    <3>2. JarFits'
      BY <1>1, <1>2, <2>1, <2>3 DEF SessionKept, JarFits, Busy, Hearing
    <3>. QED
      BY <2>1, <2>3, <3>1, <3>2 DEF SessionKept
  <2>. QED
    BY <1>1, <2>1, <2>2, <2>3 DEF SessionsInv, LoggedOutForCause
<1>. QED
  BY <1>3, <1>4

LEMMA LoseStep ==
    ASSUME SessionsInv, NEW c \in Calls, Lose(c)
    PROVE  SessionsInv'
<1>1. /\ UNCHANGED <<tabOf, clock, account, jar, lateWrite>> /\ trouble' = TRUE
      /\ mishaps' = mishaps + 1
  BY DEF Lose, Mishap
<1>2. exchange' \in [Calls -> ExchangeState]
  BY ClosesFits DEF Lose, SessionsInv, SessionsTypeOK
<1>3. deaf' \subseteq Calls
  BY DEF Lose, GivenUp, SessionsInv, SessionsTypeOK
<1>4. /\ call' \in [Calls -> CallState] /\ inFlight' \in [Tabs -> Calls \cup {NoCall}]
      /\ page' \in [Tabs -> {"app", "login"}] /\ forced' \in BOOLEAN
  <2>1. CASE exchange[c].kind = "refresh"
    BY <2>1, Places, ForcedOutFits DEF SessionsInv, Lose
  <2>2. CASE exchange[c].kind # "refresh"
    <3>1. /\ call' = [call EXCEPT ![c] = AtRest] /\ UNCHANGED <<inFlight, forced>>
          /\ page' = page \/ page' = [page EXCEPT ![tabOf[c]] = "login"]
      BY <2>2 DEF Lose
    <3>. QED
      BY <3>1, RestRow DEF SessionsInv, SessionsTypeOK
  <2>. QED
    BY <2>1, <2>2
<1>5. SessionsTypeOK'
  BY <1>1, <1>2, <1>3, <1>4 DEF SessionsInv, SessionsTypeOK
<1>. QED
  BY <1>1, <1>5 DEF SessionsInv, LoggedOutForCause

LEMMA UnheardStep ==
    ASSUME SessionsInv, NEW c \in Calls, Unheard(c)
    PROVE  SessionsInv'
<1>1. /\ UNCHANGED <<clock, account, client, trouble, mishaps, lateWrite>>
      /\ deaf' = deaf \ {c} /\ Closes(c) /\ c \in deaf
  BY DEF Unheard
<1>2. exchange' \in [Calls -> ExchangeState]
  BY <1>1, ClosesFits
<1>3. trouble
  BY <1>1 DEF SessionsInv, SessionKept
<1>4. SessionsTypeOK'
  BY <1>1, <1>2 DEF SessionsInv, SessionsTypeOK, client
<1>. QED
  BY <1>1, <1>3, <1>4 DEF SessionsInv, LoggedOutForCause

\* The administration, and time.
LEMMA OutsideStep ==
    ASSUME SessionsInv, RemoveAccount \/ SetAccountStatus \/ ClockTick
    PROVE  SessionsInv'
<1>1. CASE RemoveAccount
  BY <1>1 DEF RemoveAccount, Mishap, SessionsInv, SessionsTypeOK, AccountRow, Token,
              LoggedOutForCause, client
<1>2. CASE SetAccountStatus \/ ClockTick
  <2>1. /\ UNCHANGED <<client, exchange, deaf, trouble, lateWrite>>
        /\ account'.hash = account.hash /\ account' \in AccountRow
        /\ clock' \in Nat /\ mishaps' \in Nat
    BY <1>2 DEF SetAccountStatus, ClockTick, Mishap, SessionsInv, SessionsTypeOK, AccountRow
  <2>2. SessionsTypeOK'
    BY <2>1 DEF SessionsInv, SessionsTypeOK, client
  <2>3. SessionKept => SessionKept'
    BY <2>1 DEF SessionKept, OneExchange, RefreshFits, GrantFits, JarFits, Busy, Hearing, client
  <2>. QED
    BY <2>1, <2>2, <2>3 DEF SessionsInv, LoggedOutForCause, client
<1>. QED
  BY <1>1, <1>2

\* What holds of an account's session, with any number of calls, tabs and browsers: as long as
\* nothing has happened that costs a session, one exchange at a time is under way, it presents
\* or carries the token of the row, and so do the cookies (auth.service.ts, api-client.ts).
THEOREM SessionsInvariant == SessionsSpec => []SessionsInv
<1>1. ASSUME SessionsInv, [SessionsNext]_sessionVars
      PROVE  SessionsInv'
  <2>1. CASE \E c \in Calls : Retry(c) \/ \E kind \in {"api", "logout"} : Send(c, kind)
    BY <1>1, <2>1, PageSteps
  <2>2. CASE \E c \in Calls : SignOut(c) \/ SignIn(c) \/ Denied(c)
    BY <1>1, <2>2, SignOutStep, SignInStep, DeniedStep
  <2>3. CASE \E c \in Calls : LoginRead(c) \/ RefreshRead(c) \/ WriteTokens(c)
    BY <1>1, <2>3, ReadStep, WriteTokensStep
  <2>4. CASE \E c \in Calls : Replayed(c) \/ WriteLogout(c)
    BY <1>1, <2>4, EndSessionStep
  <2>5. CASE \E c \in Calls : Granted(c) \/ Refused(c) \/ Lose(c) \/ Unheard(c)
    BY <1>1, <2>5, GrantedStep, RefusedStep, LoseStep, UnheardStep
  <2>6. CASE RemoveAccount \/ SetAccountStatus \/ ClockTick
    BY <1>1, <2>6, OutsideStep
  <2>7. CASE UNCHANGED sessionVars
    BY <1>1, <2>7 DEF sessionVars, SessionsInv, SessionsTypeOK, LoggedOutForCause, SessionKept,
                      OneExchange, RefreshFits, GrantFits, JarFits, Busy, Hearing
  <2>. QED
    BY <1>1, <2>1, <2>2, <2>3, <2>4, <2>5, <2>6, <2>7 DEF SessionsNext
<1>. QED
  BY <1>1, SessionsInitial, PTL DEF SessionsSpec

\* api-client.ts, refreshOnce: however many calls of however many tabs are denied at once, the
\* login page is forced only after something that may end a session.
THEOREM ForcedOutForCause == SessionsSpec => []LoggedOutForCause
  BY SessionsInvariant, PTL DEF SessionsInv

\* A removed account has a token only if a rotation was written over the removal.
LEMMA RemovalStep ==
    ASSUME SessionsTypeOK, RemovalEndsSession, [SessionsNext]_sessionVars
    PROVE  RemovalEndsSession'
<1>1. CASE UNCHANGED account /\ UNCHANGED lateWrite
  BY <1>1 DEF RemovalEndsSession
<1>2. CASE \E c \in Calls : WriteTokens(c)
  <2>1. PICK h : account' = [account EXCEPT !.hash = h]
    BY <1>2 DEF WriteTokens
  <2>2. account'.status = account.status
    BY <2>1 DEF SessionsTypeOK, AccountRow
  <2>3. lateWrite' = (lateWrite \/ account.status = "REMOVED")
    BY <1>2 DEF WriteTokens
  <2>. QED
    BY <2>2, <2>3 DEF RemovalEndsSession
<1>3. CASE \E c \in Calls : Replayed(c) \/ WriteLogout(c)
  BY <1>3 DEF Replayed, WriteLogout, RemovalEndsSession, SessionsTypeOK, AccountRow
<1>4. CASE RemoveAccount \/ SetAccountStatus
  BY <1>4 DEF RemoveAccount, SetAccountStatus, RemovalEndsSession, SessionsTypeOK, AccountRow
<1>. QED
  BY <1>1, <1>2, <1>3, <1>4
     DEF SessionsNext, sessionVars, Send, SignOut, SignIn, Lose, Denied, Retry, LoginRead,
         RefreshRead, Granted, Refused, Unheard, ClockTick

\* administration.service.ts, "clearing the refresh token hash kills any session": for good,
\* unless a rotation that had read the row before was written over it.
THEOREM RemovedHasNoSession == SessionsSpec => []RemovalEndsSession
<1>1. SessionsInit => RemovalEndsSession
  BY DEF SessionsInit, RemovalEndsSession
<1>2. SessionsInv => SessionsTypeOK
  BY DEF SessionsInv
<1>. QED
  BY <1>1, <1>2, RemovalStep, SessionsInvariant, PTL DEF SessionsSpec
-----------------------------------------------------------------------------
(* Residency.  A profile stands on an apartment that stands, an invite names*)
(* its apartment and its person for good, and what a request has read is   *)
(* still so but for the apartments it could not see change.                *)

\* A profile stands on an apartment of the estate, and belongs to an account.
HomesStand ==
    \A p \in Persons : person[p].home # Nobody =>
        Stands(person[p].home) /\ person[p].user # "NONE"

\* An invite that has been sent names its apartment and its person for good; the apartment
\* stands as long as the invite does, and an account made through it stays.
InvitesNamed ==
    \A i \in Invites :
        /\ invite[i].status # "NONE" =>
              invite[i].home \in Apartments /\ invite[i].person \in Persons
        /\ invite[i].status = "NONE" => invite[i].home = Nobody
        /\ invite[i].status \notin {"NONE", "GONE"} => Stands(invite[i].home)
        /\ madeBy[i] > 0 =>
              invite[i].status # "NONE" /\ person[invite[i].person].user # "NONE"

\* What a transaction has counted is still so, where nothing has changed since.
CountFresh(r) ==
    admin[r].step = "commit" =>
        LET p == admin[r].person
        IN  /\ admin[r].from \notin unseen[r] =>
                  (admin[r].left <=> OthersIn(p, admin[r].from))
            /\ admin[r].to \notin unseen[r] \cup {Nobody} =>
                  (admin[r].joined <=> OthersIn(p, admin[r].to) \/ person[p].user # "REMOVED")

\* ... and so is what the other requests have read.
ReadFresh(r) ==
    /\ admin[r].step = "demolish" =>
          \A a \in Apartments : apartment[a].building = admin[r].building => a \in unseen[r]
    /\ admin[r].step \in {"resend", "cancel", "complete"} =>
          invite[admin[r].invite].status # "NONE"
    /\ admin[r].step = "complete" =>
          LET a == invite[admin[r].invite].home IN Inhabited(a) => a \in unseen[r]

ReadsFresh == \A r \in Admins : CountFresh(r) /\ ReadFresh(r)

ResidencyInv ==
    /\ ResidencyTypeOK
    /\ OccupancyRight
    /\ InviteMakesOneAccount
    /\ HomesStand
    /\ InvitesNamed
    /\ ReadsFresh
-----------------------------------------------------------------------------
\* The fields a step of a request has.
LEMMA StepFields ==
    ASSUME NEW x \in AdminStep
    PROVE  /\ x.step \in {"supersede", "insert"} => x.home \in Apartments /\ x.person \in Persons
           /\ x.step \in {"resend", "cancel", "complete"} => x.invite \in Invites
           /\ x.step \in {"remove", "move", "commit"} => x.person \in Persons /\ x.from \in Apartments
           /\ x.step = "move" => x.to \in Apartments
           /\ x.step = "commit" => /\ x.to \in Apartments \cup {Nobody}
                                   /\ x.left \in BOOLEAN /\ x.joined \in BOOLEAN
           /\ x.step = "demolish" => x.building \in Buildings
  BY DEF AdminStep, Free

LEMMA NewSteps ==
    /\ \A b \in Buildings : [step |-> "demolish", building |-> b] \in AdminStep
    /\ \A p \in Persons, a \in Apartments :
          /\ [step |-> "remove", person |-> p, from |-> a] \in AdminStep
          /\ [step |-> "supersede", home |-> a, person |-> p] \in AdminStep
          /\ [step |-> "insert", home |-> a, person |-> p] \in AdminStep
    /\ \A p \in Persons : \A a, c \in Apartments :
          [step |-> "move", person |-> p, from |-> a, to |-> c] \in AdminStep
    /\ \A i \in Invites :
          /\ [step |-> "resend", invite |-> i] \in AdminStep
          /\ [step |-> "cancel", invite |-> i] \in AdminStep
          /\ [step |-> "complete", invite |-> i] \in AdminStep
  BY DEF AdminStep

Counted(p, from, to, left, joined) ==
    [step |-> "commit", person |-> p, from |-> from, to |-> to, left |-> left, joined |-> joined]

LEMMA CommitRow ==
    ASSUME NEW p \in Persons, NEW from \in Apartments, NEW to \in Apartments \cup {Nobody},
           NEW left \in BOOLEAN, NEW joined \in BOOLEAN
    PROVE  Counted(p, from, to, left, joined) \in AdminStep
  BY DEF AdminStep, Counted

LEMMA CommitFields ==
    ASSUME NEW p, NEW from, NEW to, NEW left, NEW joined
    PROVE  LET e == Counted(p, from, to, left, joined)
           IN  /\ e.step = "commit" /\ e.person = p /\ e.from = from /\ e.to = to
               /\ e.left = left /\ e.joined = joined
  BY DEF Counted

LEMMA FreeStep == Free \in AdminStep /\ Free.step = "idle"
  BY DEF AdminStep, Free

\* A request looks, or is done.
LEMMA LookMoves ==
    ASSUME ResidencyTypeOK, NEW r \in Admins, NEW e \in AdminStep, Look(r, e)
    PROVE  /\ admin' \in [Admins -> AdminStep] /\ unseen' \in [Admins -> SUBSET Apartments]
           /\ admin'[r] = e /\ unseen'[r] = offBook
           /\ \A s \in Admins \ {r} : admin'[s] = admin[s] /\ unseen'[s] = unseen[s]
  BY DEF ResidencyTypeOK, Look

LEMMA DoneMoves ==
    ASSUME ResidencyTypeOK, NEW r \in Admins, NEW changed \in SUBSET Apartments, Done(r, changed)
    PROVE  /\ admin' \in [Admins -> AdminStep] /\ unseen' \in [Admins -> SUBSET Apartments]
           /\ admin'[r] = Free
           /\ \A s \in Admins \ {r} : /\ admin'[s] = admin[s]
                                      /\ unseen'[s] = unseen[s] \cup changed
<1>. \A s \in Admins : unseen[s] \cup changed \in SUBSET Apartments
  BY DEF ResidencyTypeOK
<1>. QED
  BY FreeStep DEF ResidencyTypeOK, Done

LEMMA DoneQuietly ==
    ASSUME ResidencyTypeOK, NEW r \in Admins, Done(r, {})
    PROVE  /\ admin' \in [Admins -> AdminStep] /\ unseen' \in [Admins -> SUBSET Apartments]
           /\ admin'[r] = Free
           /\ \A s \in Admins \ {r} : admin'[s] = admin[s] /\ unseen'[s] = unseen[s]
<1>1. {} \in SUBSET Apartments
  OBVIOUS
<1>2. /\ admin' \in [Admins -> AdminStep] /\ unseen' \in [Admins -> SUBSET Apartments]
      /\ admin'[r] = Free
      /\ \A s \in Admins \ {r} : admin'[s] = admin[s] /\ unseen'[s] = unseen[s] \cup {}
  BY <1>1, DoneMoves, Zenon
<1>. QED
  BY <1>2

LEMMA WithOne ==
    ASSUME NEW p \in Persons, NEW a
    PROVE  Inhabited(a) <=> Lives(p, a) \/ OthersIn(p, a)
  BY DEF Inhabited, OthersIn

\* What the other requests know stays known: the apartments whose residents change
\* are put in their `unseen'.
LEMMA OthersFresh ==
    ASSUME ResidencyInv, NEW r \in Admins, NEW changed \in SUBSET Apartments,
           \A s \in Admins \ {r} : admin'[s] = admin[s] /\ unseen'[s] = unseen[s] \cup changed,
           \A x \in Persons, a \in Apartments \ changed : Lives(x, a)' <=> Lives(x, a),
           \A x \in Persons : (person'[x].user = "REMOVED" <=> person[x].user = "REMOVED")
                                 \/ Targets(x) \subseteq changed,
           \A a \in Apartments \ changed : apartment'[a].building \in {apartment[a].building, Nobody},
           \A i \in Invites : invite[i].status # "NONE" =>
              invite'[i].status # "NONE" /\ invite'[i].home = invite[i].home,
           CountFresh(r)', ReadFresh(r)'
    PROVE  ReadsFresh'
<1>. SUFFICES ASSUME NEW s \in Admins \ {r} PROVE CountFresh(s)' /\ ReadFresh(s)'
  BY DEF ReadsFresh
<1>1. /\ admin[s] \in AdminStep /\ admin'[s] = admin[s] /\ unseen'[s] = unseen[s] \cup changed
      /\ CountFresh(s) /\ ReadFresh(s)
  BY DEF ResidencyInv, ResidencyTypeOK, ReadsFresh
<1>2. \A a \in Apartments \ changed : Inhabited(a)' <=> Inhabited(a)
  BY DEF Inhabited
<1>3. \A p \in Persons : \A a \in Apartments \ changed : OthersIn(p, a)' <=> OthersIn(p, a)
  BY DEF OthersIn
<1>4. CountFresh(s)'
  <2>. SUFFICES ASSUME admin[s].step = "commit" PROVE CountFresh(s)'
    BY <1>1 DEF CountFresh
  <2>. DEFINE p == admin[s].person
  <2>1. /\ p \in Persons /\ admin[s].from \in Apartments
        /\ admin[s].to \in Apartments \cup {Nobody}
    BY <1>1, StepFields
  <2>2. admin[s].to \in Apartments \ changed =>
          (person'[p].user = "REMOVED" <=> person[p].user = "REMOVED")
    BY <2>1 DEF Targets
  <2>3. admin[s].from \notin unseen'[s] => (admin[s].left <=> OthersIn(p, admin[s].from)')
    BY <1>1, <1>3, <2>1 DEF CountFresh
  <2>4. admin[s].to \notin unseen'[s] \cup {Nobody} =>
          (admin[s].joined <=> OthersIn(p, admin[s].to)' \/ person'[p].user # "REMOVED")
    BY <1>1, <1>3, <2>1, <2>2 DEF CountFresh
  <2>. QED
    BY <1>1, <2>3, <2>4 DEF CountFresh, OthersIn, Lives
<1>5. ReadFresh(s)'
  <2>1. admin[s].step = "demolish" =>
          \A a \in Apartments : apartment'[a].building = admin[s].building => a \in unseen'[s]
    <3>1. admin[s].step = "demolish" => admin[s].building # Nobody
      BY <1>1, StepFields, NobodyAssumption
    <3>. QED
      BY <1>1, <3>1 DEF ReadFresh
  <2>2. admin[s].step \in {"resend", "cancel", "complete"} =>
          /\ admin[s].invite \in Invites /\ invite[admin[s].invite].status # "NONE"
          /\ invite'[admin[s].invite].status # "NONE"
          /\ invite'[admin[s].invite].home = invite[admin[s].invite].home
    BY <1>1, StepFields DEF ReadFresh
  <2>3. ASSUME admin[s].step = "complete", NEW a, a = invite[admin[s].invite].home, Inhabited(a)'
        PROVE  a \in unseen'[s]
    <3>1. a \in Apartments
      BY <2>2, <2>3 DEF ResidencyInv, InvitesNamed
    <3>2. CASE a \in changed
      BY <1>1, <3>2
    <3>3. CASE a \notin changed
      BY <1>1, <1>2, <2>3, <3>1, <3>3 DEF ReadFresh
    <3>. QED
      BY <3>2, <3>3
  <2>. QED
    BY <1>1, <2>1, <2>2, <2>3 DEF ReadFresh, Inhabited, Lives
<1>. QED
  BY <1>4, <1>5

\* A step that changes no row of a home, and keeps an invite's name and apartment.
LEMMA HomesAlone ==
    ASSUME ResidencyInv, UNCHANGED <<homes, madeBy>>, NEW r \in Admins,
           admin' \in [Admins -> AdminStep], unseen' \in [Admins -> SUBSET Apartments],
           expired' \subseteq Invites, invite' \in [Invites -> InviteRow],
           \A s \in Admins \ {r} : admin'[s] = admin[s] /\ unseen'[s] = unseen[s],
           \A i \in Invites :
              /\ invite[i].status # "NONE" =>
                   /\ invite'[i].status # "NONE"
                   /\ invite'[i].home = invite[i].home /\ invite'[i].person = invite[i].person
              /\ invite'[i].status # "NONE" =>
                   invite'[i].home \in Apartments /\ invite'[i].person \in Persons
              /\ invite'[i].status = "NONE" => invite'[i].home = Nobody
              /\ invite'[i].status \notin {"NONE", "GONE"} => Stands(invite'[i].home),
           CountFresh(r)', ReadFresh(r)'
    PROVE  ResidencyInv'
<1>1. ResidencyTypeOK'
  BY DEF ResidencyInv, ResidencyTypeOK, homes
<1>2. OccupancyRight' /\ HomesStand' /\ InviteMakesOneAccount'
  BY DEF ResidencyInv, OccupancyRight, HomesStand, InviteMakesOneAccount, homes, Stands, Inhabited, Lives
<1>3. InvitesNamed'
  BY DEF ResidencyInv, InvitesNamed, homes, Stands
<1>4. ReadsFresh'
  <2>1. \A x \in Persons, a \in Apartments : Lives(x, a)' <=> Lives(x, a)
    BY DEF Lives, homes
  <2>2. /\ person' = person /\ apartment' = apartment
        /\ \A s \in Admins \ {r} : unseen'[s] = unseen[s] \cup {}
    BY DEF homes
  <2>3. /\ \A x \in Persons, a \in Apartments \ {} : Lives(x, a)' <=> Lives(x, a)
        /\ \A x \in Persons : (person'[x].user = "REMOVED" <=> person[x].user = "REMOVED")
                                 \/ Targets(x) \subseteq {}
        /\ \A a \in Apartments \ {} : apartment'[a].building \in {apartment[a].building, Nobody}
        /\ {} \in SUBSET Apartments
    BY <2>1, <2>2
  <2>4. \A i \in Invites : invite[i].status # "NONE" =>
           invite'[i].status # "NONE" /\ invite'[i].home = invite[i].home
    OBVIOUS
  <2>. QED
    BY <2>2, <2>3, <2>4, OthersFresh
<1>. QED
  BY <1>1, <1>2, <1>3, <1>4 DEF ResidencyInv

\* ... and an invite altogether.
LEMMA OnlyReads ==
    ASSUME ResidencyInv, UNCHANGED <<homes, invite, madeBy>>, NEW r \in Admins,
           admin' \in [Admins -> AdminStep], unseen' \in [Admins -> SUBSET Apartments],
           expired' \subseteq Invites,
           \A s \in Admins \ {r} : admin'[s] = admin[s] /\ unseen'[s] = unseen[s],
           CountFresh(r)', ReadFresh(r)'
    PROVE  ResidencyInv'
<1>1. /\ invite' = invite /\ invite \in [Invites -> InviteRow]
      /\ \A i \in Invites :
            /\ invite[i].status # "NONE" =>
                 invite[i].home \in Apartments /\ invite[i].person \in Persons
            /\ invite[i].status = "NONE" => invite[i].home = Nobody
            /\ invite[i].status \notin {"NONE", "GONE"} => Stands(invite[i].home)
  BY DEF ResidencyInv, ResidencyTypeOK, InvitesNamed
<1>. QED
  BY <1>1, HomesAlone

\* A request that stops, or never began, has counted nothing.
LEMMA FreeIsFresh ==
    ASSUME NEW r \in Admins, admin'[r] = Free
    PROVE  CountFresh(r)' /\ ReadFresh(r)'
  BY FreeStep DEF CountFresh, ReadFresh

LEMMA IsFree ==
    ASSUME NEW r \in Admins, admin[r] = Free
    PROVE  CountFresh(r) /\ ReadFresh(r)
  BY FreeStep DEF CountFresh, ReadFresh

\* The reads by which a request of the administrator begins.
LEMMA ReadSteps ==
    ASSUME ResidencyInv, NEW r \in Admins,
           \/ \E b \in Buildings : RemoveBuildingRead(r, b)
           \/ \E p \in Persons :
                \/ RemoveResidentRead(r, p)
                \/ \E a \in Apartments : UpdateResidentRead(r, p, a) \/ CreateInviteRead(r, p, a)
           \/ \E i \in Invites : ResendInviteRead(r, i) \/ CancelInviteRead(r, i)
    PROVE  ResidencyInv'
<1>1. UNCHANGED <<homes, invite, expired, madeBy>>
  BY DEF RemoveBuildingRead, RemoveResidentRead, UpdateResidentRead, CreateInviteRead,
         ResendInviteRead, CancelInviteRead
<1>2. \E e \in AdminStep :
        /\ admin' = [admin EXCEPT ![r] = e]
        /\ unseen' = [unseen EXCEPT ![r] = offBook] \/ unseen' = [unseen EXCEPT ![r] = {}]
        /\ e.step \in {"demolish", "remove", "move", "supersede", "resend", "cancel"}
        /\ e.step = "demolish" => \A a \in Apartments : apartment[a].building # e.building
        /\ e.step \in {"resend", "cancel"} => invite[e.invite].status # "NONE"
  <2>1. CASE \E b \in Buildings : RemoveBuildingRead(r, b)
    <3>1. PICK b \in Buildings : RemoveBuildingRead(r, b)
      BY <2>1
    <3>. DEFINE e == [step |-> "demolish", building |-> b]
    <3>3. e \in AdminStep
      BY <3>1, NewSteps
    <3>. QED
      BY <3>1, <3>3 DEF RemoveBuildingRead, Look
  <2>2. CASE \E p \in Persons : RemoveResidentRead(r, p)
    <3>1. PICK p \in Persons : RemoveResidentRead(r, p)
      BY <2>2
    <3>. DEFINE e == [step |-> "remove", person |-> p, from |-> person[p].home]
    <3>2. person[p].home \in Apartments
      BY <3>1 DEF RemoveResidentRead, ResidencyInv, ResidencyTypeOK, PersonRow
    <3>3. e \in AdminStep
      BY <3>1, <3>2, NewSteps
    <3>. QED
      BY <3>1, <3>3 DEF RemoveResidentRead, Look
  <2>3. CASE \E p \in Persons, a \in Apartments : UpdateResidentRead(r, p, a)
    <3>1. PICK p \in Persons, a \in Apartments : UpdateResidentRead(r, p, a)
      BY <2>3
    <3>. DEFINE e == [step |-> "move", person |-> p, from |-> person[p].home, to |-> a]
    <3>2. person[p].home \in Apartments
      BY <3>1 DEF UpdateResidentRead, ResidencyInv, ResidencyTypeOK, PersonRow
    <3>3. e \in AdminStep
      BY <3>1, <3>2, NewSteps
    <3>. QED
      BY <3>1, <3>3 DEF UpdateResidentRead, Look
  <2>4. CASE \E p \in Persons, a \in Apartments : CreateInviteRead(r, p, a)
    <3>1. PICK p \in Persons, a \in Apartments : CreateInviteRead(r, p, a)
      BY <2>4
    <3>. DEFINE e == [step |-> "supersede", home |-> a, person |-> p]
    <3>3. e \in AdminStep
      BY <3>1, NewSteps
    <3>. QED
      BY <3>1, <3>3 DEF CreateInviteRead, Look
  <2>5. CASE \E i \in Invites : ResendInviteRead(r, i)
    <3>1. PICK i \in Invites : ResendInviteRead(r, i)
      BY <2>5
    <3>. DEFINE e == [step |-> "resend", invite |-> i]
    <3>3. e \in AdminStep
      BY <3>1, NewSteps
    <3>. QED
      BY <3>1, <3>3 DEF ResendInviteRead, Look
  <2>6. CASE \E i \in Invites : CancelInviteRead(r, i)
    <3>1. PICK i \in Invites : CancelInviteRead(r, i)
      BY <2>6
    <3>. DEFINE e == [step |-> "cancel", invite |-> i]
    <3>3. e \in AdminStep
      BY <3>1, NewSteps
    <3>. QED
      BY <3>1, <3>3 DEF CancelInviteRead, Look
  <2>. QED
    BY <2>1, <2>2, <2>3, <2>4, <2>5, <2>6
<1>3. PICK e \in AdminStep :
        /\ admin' = [admin EXCEPT ![r] = e]
        /\ unseen' = [unseen EXCEPT ![r] = offBook] \/ unseen' = [unseen EXCEPT ![r] = {}]
        /\ e.step \in {"demolish", "remove", "move", "supersede", "resend", "cancel"}
        /\ e.step = "demolish" => \A a \in Apartments : apartment[a].building # e.building
        /\ e.step \in {"resend", "cancel"} => invite[e.invite].status # "NONE"
  BY <1>2
<1>4. /\ admin' \in [Admins -> AdminStep] /\ unseen' \in [Admins -> SUBSET Apartments]
      /\ admin'[r] = e
      /\ \A s \in Admins \ {r} : admin'[s] = admin[s] /\ unseen'[s] = unseen[s]
      /\ expired' \subseteq Invites
  BY <1>1, <1>3 DEF ResidencyInv, ResidencyTypeOK
<1>5. CountFresh(r)' /\ ReadFresh(r)'
  <2>1. apartment' = apartment /\ invite' = invite
    BY <1>1 DEF homes
  <2>. QED
    BY <1>3, <1>4, <2>1 DEF CountFresh, ReadFresh
<1>. QED
  BY <1>1, <1>4, <1>5, OnlyReads

\* The link is opened: an apartment that is inhabited, and whose status said otherwise,
\* was off the book.
LEMMA CompleteInviteReadStep ==
    ASSUME ResidencyInv, NEW r \in Admins, NEW i \in Invites, CompleteInviteRead(r, i)
    PROVE  ResidencyInv'
<1>. DEFINE e == [step |-> "complete", invite |-> i]
<1>1. UNCHANGED <<homes, invite, expired, madeBy>> /\ Look(r, e)
  BY DEF CompleteInviteRead
<1>2. e \in AdminStep /\ e.step = "complete" /\ e.invite = i
  BY DEF AdminStep
<1>. HIDE DEF e
<1>3. /\ admin' \in [Admins -> AdminStep] /\ unseen' \in [Admins -> SUBSET Apartments]
      /\ admin'[r] = e /\ unseen'[r] = offBook
      /\ \A s \in Admins \ {r} : admin'[s] = admin[s] /\ unseen'[s] = unseen[s]
  BY <1>1, <1>2, LookMoves DEF ResidencyInv
<1>. DEFINE a == invite[i].home
<1>4. Inhabited(a) => a \in offBook
  <2>1. a \in Apartments /\ Stands(a) /\ apartment[a].status # "OCCUPIED"
    BY DEF CompleteInviteRead, ResidencyInv, InvitesNamed
  <2>. QED
    BY <2>1 DEF ResidencyInv, OccupancyRight
<1>5. CountFresh(r)' /\ ReadFresh(r)'
  <2>1. person' = person /\ invite' = invite /\ invite[i].status = "PENDING"
    BY <1>1 DEF homes, CompleteInviteRead
  <2>. QED
    BY <1>2, <1>3, <1>4, <2>1 DEF CountFresh, ReadFresh, Inhabited, Lives
<1>6. expired' \subseteq Invites
  BY <1>1 DEF ResidencyInv, ResidencyTypeOK
<1>. QED
  BY <1>1, <1>3, <1>5, <1>6, OnlyReads

\* A transaction counts.
LEMMA CountSteps ==
    ASSUME ResidencyInv, NEW r \in Admins, RemoveResidentCount(r) \/ UpdateResidentCount(r)
    PROVE  ResidencyInv'
<1>1. UNCHANGED <<homes, invite, expired, madeBy>>
  BY DEF RemoveResidentCount, UpdateResidentCount
<1>. DEFINE p == admin[r].person
            from == admin[r].from
<1>2. /\ p \in Persons /\ from \in Apartments
      /\ admin[r].step = "move" => admin[r].to \in Apartments
  BY StepFields DEF RemoveResidentCount, UpdateResidentCount, ResidencyInv, ResidencyTypeOK
<1>. DEFINE left == OthersIn(p, from)
<1>3. \E to \in Apartments \cup {Nobody}, joined \in BOOLEAN :
        /\ Look(r, Counted(p, from, to, left, joined))
        /\ to # Nobody => (joined <=> OthersIn(p, to) \/ person[p].user # "REMOVED")
  <2>1. CASE RemoveResidentCount(r)
    BY <2>1 DEF RemoveResidentCount, Counted
  <2>2. CASE UpdateResidentCount(r)
    <3>. DEFINE to == admin[r].to
                joined == OthersIn(p, to) \/ person[p].user # "REMOVED"
    <3>1. to \in Apartments \cup {Nobody}
      <4>1. admin[r].step = "move"
        BY <2>2 DEF UpdateResidentCount
      <4>. QED
        BY <1>2, <4>1
    <3>2. joined \in BOOLEAN
      OBVIOUS
    <3>3. Look(r, Counted(p, from, to, left, joined))
      BY <2>2 DEF UpdateResidentCount, Counted
    <3>4. joined <=> OthersIn(p, to) \/ person[p].user # "REMOVED"
      OBVIOUS
    <3>. HIDE DEF p, from, left, to, joined
    <3>. QED
      BY <3>1, <3>2, <3>3, <3>4
  <2>. QED
    BY <2>1, <2>2
<1>4. PICK to \in Apartments \cup {Nobody}, joined \in BOOLEAN :
        /\ Look(r, Counted(p, from, to, left, joined))
        /\ to # Nobody => (joined <=> OthersIn(p, to) \/ person[p].user # "REMOVED")
  BY <1>3
<1>. DEFINE e == Counted(p, from, to, left, joined)
<1>10. left \in BOOLEAN /\ (left <=> OthersIn(p, from))
  BY DEF OthersIn
<1>. HIDE DEF left, e, p, from
<1>11. e \in AdminStep
  BY <1>2, <1>10, CommitRow DEF e
<1>12. /\ e.step = "commit" /\ e.person = p /\ e.from = from /\ e.to = to
       /\ e.left = left /\ e.joined = joined
  BY CommitFields DEF e
<1>5. Look(r, e)
  BY <1>4 DEF e
<1>6. /\ admin' \in [Admins -> AdminStep] /\ unseen' \in [Admins -> SUBSET Apartments]
      /\ admin'[r] = e
      /\ \A s \in Admins \ {r} : admin'[s] = admin[s] /\ unseen'[s] = unseen[s]
  BY <1>5, <1>11, LookMoves DEF ResidencyInv
<1>7. CountFresh(r)' /\ ReadFresh(r)'
  <2>1. person' = person
    BY <1>1 DEF homes
  <2>. QED
    BY <1>4, <1>6, <1>10, <1>12, <2>1 DEF CountFresh, ReadFresh, OthersIn, Lives
<1>8. expired' \subseteq Invites
  BY <1>1 DEF ResidencyInv, ResidencyTypeOK
<1>. QED
  BY <1>1, <1>6, <1>7, <1>8, OnlyReads

\* An invite changes its status, or is sent.
Marked(v, s) == [v EXCEPT !.status = s]

LEMMA InviteRows ==
    ASSUME NEW v \in InviteRow, NEW s \in {"PENDING", "REVOKED", "USED", "GONE"}
    PROVE  /\ Marked(v, s) \in InviteRow /\ Marked(v, s).status = s
           /\ Marked(v, s).home = v.home /\ Marked(v, s).person = v.person
  BY DEF InviteRow, Marked

LEMMA CreateInviteSupersedeStep ==
    ASSUME ResidencyInv, NEW r \in Admins, CreateInviteSupersede(r)
    PROVE  ResidencyInv'
<1>1. /\ UNCHANGED <<homes, expired, unseen, madeBy>> /\ admin[r].step = "supersede"
      /\ admin' = [admin EXCEPT ![r].step = "insert"]
  BY DEF CreateInviteSupersede
<1>2. admin[r] \in AdminStep /\ admin \in [Admins -> AdminStep] /\ expired \subseteq Invites
      /\ invite \in [Invites -> InviteRow] /\ unseen \in [Admins -> SUBSET Apartments]
  BY DEF ResidencyInv, ResidencyTypeOK
<1>. DEFINE e == [admin[r] EXCEPT !.step = "insert"]
<1>3. e \in AdminStep /\ e.step = "insert"
  <2>1. PICK a \in Apartments, p \in Persons :
          admin[r] = [step |-> "supersede", home |-> a, person |-> p]
    BY <1>1, <1>2 DEF AdminStep, Free
  <2>2. e = [step |-> "insert", home |-> a, person |-> p]
    BY <2>1
  <2>. QED
    BY <2>2, NewSteps
<1>4. admin' = [admin EXCEPT ![r] = e]
  BY <1>1, <1>2
<1>. HIDE DEF e
<1>5. /\ admin' \in [Admins -> AdminStep] /\ admin'[r] = e
      /\ \A s \in Admins \ {r} : admin'[s] = admin[s] /\ unseen'[s] = unseen[s]
  BY <1>1, <1>2, <1>3, <1>4
<1>6. /\ invite' \in [Invites -> InviteRow]
      /\ \A i \in Invites : /\ invite'[i].home = invite[i].home
                            /\ invite'[i].person = invite[i].person
                            /\ invite'[i] = invite[i] \/ /\ invite[i].status = "PENDING"
                                                         /\ invite'[i].status = "REVOKED"
  <2>1. \A i \in Invites : LET w == Marked(invite[i], "REVOKED")
                           IN  /\ w \in InviteRow /\ w.status = "REVOKED"
                               /\ w.home = invite[i].home /\ w.person = invite[i].person
    BY <1>2, InviteRows
  <2>. QED
    BY <1>2, <2>1 DEF CreateInviteSupersede, Marked
<1>7. CountFresh(r)' /\ ReadFresh(r)'
  BY <1>3, <1>5 DEF CountFresh, ReadFresh
<1>8. \A i \in Invites :
        /\ invite[i].status # "NONE" => invite'[i].status # "NONE"
        /\ invite'[i].status # "NONE" =>
             invite'[i].home \in Apartments /\ invite'[i].person \in Persons
        /\ invite'[i].status = "NONE" => invite'[i].home = Nobody
        /\ invite'[i].status \notin {"NONE", "GONE"} => Stands(invite'[i].home)
  BY <1>6 DEF ResidencyInv, InvitesNamed
<1>. QED
  BY <1>1, <1>2, <1>5, <1>6, <1>7, <1>8, HomesAlone

\* The insert, and the two updates by id.
LEMMA InviteWrites ==
    ASSUME ResidencyInv, NEW r \in Admins,
           (\E i \in Invites : CreateInviteInsert(r, i)) \/ ResendInvite(r) \/ CancelInvite(r)
    PROVE  ResidencyInv'
<1>1. UNCHANGED <<homes, madeBy>> /\ Done(r, {})
  BY DEF CreateInviteInsert, ResendInvite, CancelInvite
<1>2. /\ admin' \in [Admins -> AdminStep] /\ unseen' \in [Admins -> SUBSET Apartments]
      /\ admin'[r] = Free
      /\ \A s \in Admins \ {r} : admin'[s] = admin[s] /\ unseen'[s] = unseen[s]
  BY <1>1, DoneQuietly DEF ResidencyInv
<1>3. /\ admin[r] \in AdminStep /\ invite \in [Invites -> InviteRow] /\ expired \subseteq Invites
      /\ InvitesNamed /\ ReadFresh(r)
  BY DEF ResidencyInv, ResidencyTypeOK, ReadsFresh
<1>4. \E i \in Invites, w \in InviteRow :
        /\ invite' = [invite EXCEPT ![i] = w]
        /\ w.status \in {"PENDING", "REVOKED"}
        /\ w.home \in Apartments /\ w.person \in Persons /\ Stands(w.home)
        /\ invite[i].status # "NONE" => w.home = invite[i].home /\ w.person = invite[i].person
  <2>1. CASE \E i \in Invites : CreateInviteInsert(r, i)
    <3>0. PICK i \in Invites : CreateInviteInsert(r, i)
      BY <2>1
    <3>. DEFINE w == [status |-> "PENDING", home |-> admin[r].home, person |-> admin[r].person]
    <3>1. admin[r].home \in Apartments /\ admin[r].person \in Persons
      BY <1>3, <3>0, StepFields DEF CreateInviteInsert
    <3>2. w \in InviteRow /\ w.status = "PENDING" /\ w.home = admin[r].home
          /\ w.person = admin[r].person
      BY <3>1 DEF InviteRow
    <3>3. invite' = [invite EXCEPT ![i] = w] /\ invite[i].status = "NONE" /\ Stands(w.home)
      BY <3>0 DEF CreateInviteInsert
    <3>. HIDE DEF w
    <3>. QED
      BY <3>1, <3>2, <3>3
  <2>2. CASE ResendInvite(r) \/ CancelInvite(r)
    <3>. DEFINE i == admin[r].invite
    <3>1. /\ i \in Invites /\ invite[i].status \notin {"NONE", "GONE"}
          /\ invite[i] \in InviteRow
      BY <1>3, <2>2, StepFields DEF ResendInvite, CancelInvite, ReadFresh
    <3>2. PICK s \in {"PENDING", "REVOKED"} : invite' = [invite EXCEPT ![i].status = s]
      BY <2>2 DEF ResendInvite, CancelInvite
    <3>. DEFINE w == Marked(invite[i], s)
    <3>3. w \in InviteRow /\ w.status = s /\ w.home = invite[i].home
          /\ w.person = invite[i].person
      BY <3>1, InviteRows
    <3>4. invite' = [invite EXCEPT ![i] = w]
      BY <1>3, <3>1, <3>2 DEF Marked
    <3>. HIDE DEF w, i
    <3>. QED
      BY <1>3, <3>1, <3>3, <3>4 DEF InvitesNamed
  <2>. QED
    BY <2>1, <2>2
<1>5. PICK i \in Invites, w \in InviteRow :
        /\ invite' = [invite EXCEPT ![i] = w]
        /\ w.status \in {"PENDING", "REVOKED"}
        /\ w.home \in Apartments /\ w.person \in Persons /\ Stands(w.home)
        /\ invite[i].status # "NONE" => w.home = invite[i].home /\ w.person = invite[i].person
  BY <1>4
<1>6. /\ invite' \in [Invites -> InviteRow] /\ invite'[i] = w
      /\ \A j \in Invites \ {i} : invite'[j] = invite[j]
  BY <1>3, <1>5
<1>7. \A j \in Invites :
        /\ invite[j].status # "NONE" =>
             /\ invite'[j].status # "NONE"
             /\ invite'[j].home = invite[j].home /\ invite'[j].person = invite[j].person
        /\ invite'[j].status # "NONE" =>
             invite'[j].home \in Apartments /\ invite'[j].person \in Persons
        /\ invite'[j].status = "NONE" => invite'[j].home = Nobody
        /\ invite'[j].status \notin {"NONE", "GONE"} => Stands(invite'[j].home)
  BY <1>3, <1>5, <1>6 DEF InvitesNamed
<1>8. expired' \subseteq Invites
  BY <1>3 DEF CreateInviteInsert, ResendInvite, CancelInvite
<1>9. CountFresh(r)' /\ ReadFresh(r)'
  BY <1>2, FreeIsFresh
<1>. QED
  BY <1>1, <1>2, <1>6, <1>7, <1>8, <1>9, HomesAlone

LEMMA AdminFailsStep ==
    ASSUME ResidencyInv, NEW r \in Admins, AdminFails(r)
    PROVE  ResidencyInv'
<1>1. UNCHANGED <<homes, invite, expired, madeBy>> /\ Done(r, {})
  BY DEF AdminFails
<1>2. /\ admin' \in [Admins -> AdminStep] /\ unseen' \in [Admins -> SUBSET Apartments]
      /\ admin'[r] = Free
      /\ \A s \in Admins \ {r} : admin'[s] = admin[s] /\ unseen'[s] = unseen[s]
  BY <1>1, DoneQuietly DEF ResidencyInv
<1>3. expired' \subseteq Invites
  BY <1>1 DEF ResidencyInv, ResidencyTypeOK
<1>4. CountFresh(r)' /\ ReadFresh(r)'
  BY <1>2, FreeIsFresh
<1>. QED
  BY <1>1, <1>2, <1>3, <1>4, OnlyReads

\* Nothing the invariant speaks of changes.
LEMMA ResidencyStutter ==
    ASSUME ResidencyInv, expired' \subseteq Invites,
           UNCHANGED <<homes, invite, admin, unseen, madeBy>>
    PROVE  ResidencyInv'
<1>1. ResidencyTypeOK'
  BY DEF ResidencyInv, ResidencyTypeOK, homes
<1>2. OccupancyRight' /\ InviteMakesOneAccount' /\ HomesStand' /\ InvitesNamed'
  BY DEF ResidencyInv, OccupancyRight, HomesStand, InviteMakesOneAccount, InvitesNamed, homes,
         Stands, Inhabited, Lives
<1>3. ReadsFresh'
  BY DEF ResidencyInv, ReadsFresh, CountFresh, ReadFresh, homes, OthersIn, Inhabited, Lives
<1>. QED
  BY <1>1, <1>2, <1>3 DEF ResidencyInv
-----------------------------------------------------------------------------
\* A request is done, and the apartments it has changed are in `changed'.
LEMMA DoneFresh ==
    ASSUME ResidencyInv, NEW r \in Admins, NEW changed \in SUBSET Apartments, Done(r, changed),
           \A x \in Persons, a \in Apartments \ changed : Lives(x, a)' <=> Lives(x, a),
           \A x \in Persons : (person'[x].user = "REMOVED" <=> person[x].user = "REMOVED")
                                 \/ Targets(x) \subseteq changed,
           \A a \in Apartments \ changed : apartment'[a].building \in {apartment[a].building, Nobody},
           \A i \in Invites : invite[i].status # "NONE" =>
              invite'[i].status # "NONE" /\ invite'[i].home = invite[i].home
    PROVE  /\ ReadsFresh'
           /\ admin' \in [Admins -> AdminStep] /\ unseen' \in [Admins -> SUBSET Apartments]
<1>1. /\ admin' \in [Admins -> AdminStep] /\ unseen' \in [Admins -> SUBSET Apartments]
      /\ admin'[r] = Free
      /\ \A s \in Admins \ {r} : admin'[s] = admin[s] /\ unseen'[s] = unseen[s] \cup changed
  BY DoneMoves DEF ResidencyInv
<1>2. CountFresh(r)' /\ ReadFresh(r)'
  BY <1>1, FreeIsFresh
<1>. QED
  BY <1>1, <1>2, OthersFresh

\* An apartment is new, or moves to another building: it stands, and nobody came or went.
LEMMA ApartmentSteps ==
    ASSUME ResidencyInv, NEW r \in Admins, NEW a \in Apartments,
           CreateApartment(r, a) \/ UpdateApartment(r, a)
    PROVE  ResidencyInv'
<1>1. /\ UNCHANGED <<buildings, person, invite, expired, offBook, madeBy, reinstated>>
      /\ Done(r, {a})
  BY DEF CreateApartment, UpdateApartment
<1>2. /\ apartment \in [Apartments -> ApartmentRow] /\ buildings \subseteq Buildings
      /\ person \in [Persons -> PersonRow]
      /\ HomesStand /\ InvitesNamed /\ OccupancyRight
  BY DEF ResidencyInv, ResidencyTypeOK
<1>3. \E e \in ApartmentRow :
        /\ apartment' = [apartment EXCEPT ![a] = e] /\ e.building # Nobody
        /\ \/ e.status = "VACANT" /\ ~Stands(a)
           \/ e.status = apartment[a].status /\ Stands(a)
  <2>1. CASE CreateApartment(r, a)
    <3>1. PICK b \in buildings :
            apartment' = [apartment EXCEPT ![a] = [building |-> b, status |-> "VACANT"]]
      BY <2>1 DEF CreateApartment
    <3>. DEFINE e == [building |-> b, status |-> "VACANT"]
    <3>2. e \in ApartmentRow /\ e.building # Nobody /\ e.status = "VACANT"
      BY <1>2, NobodyAssumption DEF ApartmentRow
    <3>. HIDE DEF e
    <3>. QED
      BY <2>1, <3>1, <3>2 DEF CreateApartment, e
  <2>2. CASE UpdateApartment(r, a)
    <3>1. PICK b \in buildings : apartment' = [apartment EXCEPT ![a].building = b]
      BY <2>2 DEF UpdateApartment
    <3>. DEFINE e == [building |-> b, status |-> apartment[a].status]
    <3>2. /\ e \in ApartmentRow /\ e.building # Nobody
          /\ e.status = apartment[a].status
          /\ e = [apartment[a] EXCEPT !.building = b]
      BY <1>2, NobodyAssumption DEF ApartmentRow
    <3>3. apartment' = [apartment EXCEPT ![a] = e]
      BY <1>2, <3>1, <3>2
    <3>. HIDE DEF e
    <3>. QED
      BY <2>2, <3>2, <3>3 DEF UpdateApartment
  <2>. QED
    BY <2>1, <2>2
<1>4. PICK e \in ApartmentRow :
        /\ apartment' = [apartment EXCEPT ![a] = e] /\ e.building # Nobody
        /\ \/ e.status = "VACANT" /\ ~Stands(a)
           \/ e.status = apartment[a].status /\ Stands(a)
  BY <1>3
<1>5. /\ apartment' \in [Apartments -> ApartmentRow] /\ apartment'[a] = e
      /\ \A d \in Apartments \ {a} : apartment'[d] = apartment[d]
  BY <1>2, <1>4
<1>6. /\ \A x \in Persons, d \in Apartments : Lives(x, d)' <=> Lives(x, d)
      /\ \A d \in Apartments : Inhabited(d)' <=> Inhabited(d)
      /\ \A d \in Apartments : Stands(d) => Stands(d)'
  BY <1>1, <1>4, <1>5 DEF Lives, Inhabited, Stands
<1>7. /\ ReadsFresh'
      /\ admin' \in [Admins -> AdminStep] /\ unseen' \in [Admins -> SUBSET Apartments]
  <2>1. /\ \A x \in Persons, d \in Apartments \ {a} : Lives(x, d)' <=> Lives(x, d)
        /\ \A x \in Persons : (person'[x].user = "REMOVED" <=> person[x].user = "REMOVED")
                                 \/ Targets(x) \subseteq {a}
        /\ \A d \in Apartments \ {a} : apartment'[d].building \in {apartment[d].building, Nobody}
        /\ \A i \in Invites : invite[i].status # "NONE" =>
              invite'[i].status # "NONE" /\ invite'[i].home = invite[i].home
        /\ {a} \in SUBSET Apartments
    BY <1>1, <1>5, <1>6
  <2>. QED
    BY <1>1, <2>1, DoneFresh
<1>8. ResidencyTypeOK'
  BY <1>1, <1>5, <1>7 DEF ResidencyInv, ResidencyTypeOK
<1>9. HomesStand' /\ InvitesNamed' /\ InviteMakesOneAccount'
  <2>1. \A p \in Persons : person[p].home \in Apartments \cup {Nobody}
    BY <1>2 DEF PersonRow
  <2>. QED
    BY <1>1, <1>2, <1>6, <2>1 DEF HomesStand, InvitesNamed, InviteMakesOneAccount, ResidencyInv
<1>10. OccupancyRight'
  <2>1. ~Stands(a) => ~Inhabited(a)
    BY <1>2, NobodyAssumption DEF Inhabited, Lives, HomesStand
  <2>. QED
    BY <1>1, <1>2, <1>4, <1>5, <1>6, <2>1 DEF OccupancyRight, Stands
<1>. QED
  BY <1>7, <1>8, <1>9, <1>10 DEF ResidencyInv

\* The delete takes the apartments, the profiles and the invites with it.
LEMMA RemoveBuildingStep ==
    ASSUME ResidencyInv, NEW r \in Admins, RemoveBuilding(r)
    PROVE  ResidencyInv'
<1>. DEFINE gone == {a \in Apartments : apartment[a].building = admin[r].building}
<1>1. /\ UNCHANGED <<expired, madeBy, reinstated>> /\ Done(r, gone)
      /\ buildings' \subseteq Buildings /\ offBook' = offBook \ gone
      /\ apartment' = [a \in Apartments |->
                IF a \in gone THEN [building |-> Nobody, status |-> "VACANT"]
                              ELSE apartment[a]]
      /\ person' = [p \in Persons |->
                IF person[p].home \in gone THEN [person[p] EXCEPT !.home = Nobody]
                                           ELSE person[p]]
      /\ invite' = [i \in Invites |->
                IF invite[i].home \in gone THEN Marked(invite[i], "GONE") ELSE invite[i]]
  BY DEF RemoveBuilding, Marked, ResidencyInv, ResidencyTypeOK
<1>2. /\ apartment \in [Apartments -> ApartmentRow] /\ person \in [Persons -> PersonRow]
      /\ invite \in [Invites -> InviteRow]
      /\ HomesStand /\ InvitesNamed /\ OccupancyRight /\ InviteMakesOneAccount
      /\ gone \in SUBSET Apartments
  BY DEF ResidencyInv, ResidencyTypeOK
<1>. HIDE DEF gone
<1>3. /\ apartment' \in [Apartments -> ApartmentRow]
      /\ \A a \in Apartments : IF a \in gone THEN ~Stands(a)' ELSE apartment'[a] = apartment[a]
  <2>1. [building |-> Nobody, status |-> "VACANT"] \in ApartmentRow
    BY DEF ApartmentRow
  <2>. QED
    BY <1>1, <1>2, <2>1 DEF Stands
<1>4. /\ person' \in [Persons -> PersonRow]
      /\ \A p \in Persons :
            /\ person'[p].user = person[p].user
            /\ person'[p].home = IF person[p].home \in gone THEN Nobody ELSE person[p].home
  <2>1. \A p \in Persons : LET n == [person[p] EXCEPT !.home = Nobody]
                           IN  /\ person[p] \in PersonRow /\ n \in PersonRow
                               /\ n.user = person[p].user /\ n.home = Nobody
    BY <1>2 DEF PersonRow
  <2>. QED
    BY <1>1, <2>1
<1>5. /\ invite' \in [Invites -> InviteRow]
      /\ \A i \in Invites :
            /\ invite'[i].home = invite[i].home /\ invite'[i].person = invite[i].person
            /\ invite'[i].status = IF invite[i].home \in gone THEN "GONE" ELSE invite[i].status
  <2>1. \A i \in Invites : LET w == Marked(invite[i], "GONE")
                           IN  /\ w \in InviteRow /\ w.status = "GONE"
                               /\ w.home = invite[i].home /\ w.person = invite[i].person
    BY <1>2, InviteRows
  <2>. QED
    BY <1>1, <1>2, <2>1
<1>6. /\ \A x \in Persons, a \in Apartments \ gone : Lives(x, a)' <=> Lives(x, a)
      /\ \A a \in Apartments \ gone : Inhabited(a)' <=> Inhabited(a)
      /\ \A a \in Apartments \ gone : Stands(a)' <=> Stands(a)
  BY <1>3, <1>4, NobodyAssumption DEF Lives, Inhabited, Stands
<1>7. /\ ReadsFresh'
      /\ admin' \in [Admins -> AdminStep] /\ unseen' \in [Admins -> SUBSET Apartments]
  <2>1. /\ \A x \in Persons : (person'[x].user = "REMOVED" <=> person[x].user = "REMOVED")
                                 \/ Targets(x) \subseteq gone
        /\ \A d \in Apartments \ gone : apartment'[d].building \in {apartment[d].building, Nobody}
        /\ \A i \in Invites : invite[i].status # "NONE" =>
              invite'[i].status # "NONE" /\ invite'[i].home = invite[i].home
    BY <1>3, <1>4, <1>5
  <2>. QED
    BY <1>1, <1>2, <1>6, <2>1, DoneFresh
<1>8. ResidencyTypeOK'
  BY <1>1, <1>3, <1>4, <1>5, <1>7 DEF ResidencyInv, ResidencyTypeOK
<1>9. HomesStand'
  <2>1. \A p \in Persons : person[p].home \in Apartments \cup {Nobody}
    BY <1>2 DEF PersonRow
  <2>. QED
    BY <1>2, <1>4, <1>6, <2>1 DEF HomesStand
<1>10. InvitesNamed'
  <2>1. \A i \in Invites : invite[i].status = "NONE" => invite'[i].status = "NONE"
    BY <1>2, <1>5, NobodyAssumption DEF InvitesNamed
  <2>2. \A i \in Invites :
          /\ invite'[i].status # "NONE" =>
               invite'[i].home \in Apartments /\ invite'[i].person \in Persons
          /\ invite'[i].status = "NONE" => invite'[i].home = Nobody
    BY <1>2, <1>5, <2>1 DEF InvitesNamed
  <2>. QED
    BY <1>1, <1>2, <1>4, <1>5, <1>6, <2>2 DEF InvitesNamed
<1>11. OccupancyRight' /\ InviteMakesOneAccount'
  BY <1>1, <1>2, <1>3, <1>6 DEF OccupancyRight, InviteMakesOneAccount
<1>. QED
  BY <1>7, <1>8, <1>9, <1>10, <1>11 DEF ResidencyInv

\* Facts of the rows every step below rests on.
LEMMA Rows ==
    ASSUME ResidencyInv
    PROVE  /\ apartment \in [Apartments -> ApartmentRow] /\ person \in [Persons -> PersonRow]
           /\ \A x \in Persons : /\ person[x].home \in Apartments \cup {Nobody}
                                 /\ person[x].user \in {"NONE", "CURRENT", "REMOVED"}
           /\ \A a \in Apartments : apartment[a].status \in {"VACANT", "OCCUPIED"}
           /\ invite \in [Invites -> InviteRow]
           /\ admin \in [Admins -> AdminStep] /\ unseen \in [Admins -> SUBSET Apartments]
           /\ offBook \in SUBSET Apartments
           /\ HomesStand /\ InvitesNamed /\ OccupancyRight /\ InviteMakesOneAccount /\ ReadsFresh
  BY DEF ResidencyInv, ResidencyTypeOK, PersonRow, ApartmentRow

\* A person moves in: where there was no account there is one.
LEMMA MovesIn ==
    ASSUME ResidencyInv, NEW r \in Admins, NEW p \in Persons, NEW a \in Apartments,
           Stands(a), person[p].user = "NONE", Done(r, {a}),
           person' = [person EXCEPT ![p] = [user |-> "CURRENT", home |-> a]],
           apartment' = [apartment EXCEPT ![a].status = "OCCUPIED"],
           offBook' = offBook \ {a},
           \A i \in Invites : invite[i].status # "NONE" =>
              invite'[i].status # "NONE" /\ invite'[i].home = invite[i].home
    PROVE  /\ person' \in [Persons -> PersonRow] /\ apartment' \in [Apartments -> ApartmentRow]
           /\ admin' \in [Admins -> AdminStep] /\ unseen' \in [Admins -> SUBSET Apartments]
           /\ OccupancyRight' /\ HomesStand' /\ ReadsFresh'
           /\ \A x \in Persons : person[x].user # "NONE" => person'[x].user # "NONE"
           /\ \A d \in Apartments : Stands(d) => Stands(d)'
           /\ person'[p].user # "NONE"
<1>. DEFINE n == [user |-> "CURRENT", home |-> a]
            e == [apartment[a] EXCEPT !.status = "OCCUPIED"]
<1>1. n \in PersonRow /\ n.user = "CURRENT" /\ n.home = a
  BY DEF PersonRow
<1>2. /\ e \in ApartmentRow /\ e.status = "OCCUPIED" /\ e.building = apartment[a].building
      /\ apartment' = [apartment EXCEPT ![a] = e]
  BY Rows DEF ApartmentRow
<1>. HIDE DEF n, e
<1>3. /\ person' \in [Persons -> PersonRow] /\ person'[p] = n
      /\ \A x \in Persons \ {p} : person'[x] = person[x]
  BY <1>1, Rows DEF n
<1>4. /\ apartment' \in [Apartments -> ApartmentRow] /\ apartment'[a] = e
      /\ \A d \in Apartments \ {a} : apartment'[d] = apartment[d]
  BY <1>2, Rows
<1>5. /\ \A x \in Persons, d \in Apartments \ {a} : Lives(x, d)' <=> Lives(x, d)
      /\ \A d \in Apartments \ {a} : Inhabited(d)' <=> Inhabited(d)
      /\ Inhabited(a)'
      /\ \A d \in Apartments : Stands(d)' <=> Stands(d)
  BY <1>1, <1>2, <1>3, <1>4 DEF Lives, Inhabited, Stands
<1>6. /\ ReadsFresh'
      /\ admin' \in [Admins -> AdminStep] /\ unseen' \in [Admins -> SUBSET Apartments]
  <2>1. /\ \A x \in Persons : (person'[x].user = "REMOVED" <=> person[x].user = "REMOVED")
                                 \/ Targets(x) \subseteq {a}
        /\ \A d \in Apartments \ {a} : apartment'[d].building \in {apartment[d].building, Nobody}
        /\ {a} \in SUBSET Apartments
    BY <1>1, <1>3, <1>4
  <2>. QED
    BY <1>5, <2>1, DoneFresh
<1>7. HomesStand'
  BY <1>1, <1>3, <1>5, Rows DEF HomesStand
<1>8. OccupancyRight'
  BY <1>2, <1>4, <1>5, Rows DEF OccupancyRight
<1>. QED
  BY <1>1, <1>3, <1>4, <1>5, <1>6, <1>7, <1>8

LEMMA CreateResidentStep ==
    ASSUME ResidencyInv, NEW r \in Admins, NEW p \in Persons, NEW a \in Apartments,
           CreateResident(r, p, a)
    PROVE  ResidencyInv'
<1>1. /\ UNCHANGED <<buildings, invite, expired, madeBy, reinstated>>
      /\ Stands(a) /\ person[p].user = "NONE" /\ Done(r, {a})
      /\ person' = [person EXCEPT ![p] = [user |-> "CURRENT", home |-> a]]
      /\ apartment' = [apartment EXCEPT ![a].status = "OCCUPIED"]
      /\ offBook' = offBook \ {a}
  BY DEF CreateResident
<1>2. /\ person' \in [Persons -> PersonRow] /\ apartment' \in [Apartments -> ApartmentRow]
      /\ admin' \in [Admins -> AdminStep] /\ unseen' \in [Admins -> SUBSET Apartments]
      /\ OccupancyRight' /\ HomesStand' /\ ReadsFresh'
      /\ \A x \in Persons : person[x].user # "NONE" => person'[x].user # "NONE"
      /\ \A d \in Apartments : Stands(d) => Stands(d)'
  <2>1. \A i \in Invites : invite[i].status # "NONE" =>
           invite'[i].status # "NONE" /\ invite'[i].home = invite[i].home
    BY <1>1
  <2>. QED
    BY <1>1, <2>1, MovesIn
<1>3. ResidencyTypeOK'
  BY <1>1, <1>2 DEF ResidencyInv, ResidencyTypeOK
<1>4. InvitesNamed' /\ InviteMakesOneAccount'
  BY <1>1, <1>2, Rows DEF InvitesNamed, InviteMakesOneAccount
<1>. QED
  BY <1>2, <1>3, <1>4 DEF ResidencyInv

\* The account an invite makes is its person's first.
LEMMA CompleteInviteStep ==
    ASSUME ResidencyInv, NEW r \in Admins, CompleteInvite(r)
    PROVE  ResidencyInv'
<1>. DEFINE i == admin[r].invite
            a == invite[i].home
            p == invite[i].person
<1>1. /\ UNCHANGED <<buildings, expired, reinstated>>
      /\ admin[r].step = "complete" /\ invite[i].status # "GONE"
      /\ person[p].user = "NONE" /\ Done(r, {a})
      /\ person' = [person EXCEPT ![p] = [user |-> "CURRENT", home |-> a]]
      /\ apartment' = [apartment EXCEPT ![a].status = "OCCUPIED"]
      /\ invite' = [invite EXCEPT ![i].status = "USED"]
      /\ madeBy' = [madeBy EXCEPT ![i] = @ + 1]
      /\ offBook' = offBook \ {a}
  BY DEF CompleteInvite
<1>2. i \in Invites /\ invite[i].status # "NONE"
  BY <1>1, StepFields, Rows DEF ReadsFresh, ReadFresh
<1>3. a \in Apartments /\ p \in Persons /\ Stands(a)
  BY <1>1, <1>2, Rows DEF InvitesNamed
<1>4. /\ invite' \in [Invites -> InviteRow]
      /\ invite'[i].status = "USED" /\ invite'[i].home = a /\ invite'[i].person = p
      /\ \A j \in Invites \ {i} : invite'[j] = invite[j]
  <2>1. invite' = [invite EXCEPT ![i] = Marked(invite[i], "USED")]
    BY <1>1, <1>2, Rows DEF Marked
  <2>2. LET w == Marked(invite[i], "USED")
        IN  w \in InviteRow /\ w.status = "USED" /\ w.home = a /\ w.person = p
    BY <1>2, Rows, InviteRows
  <2>. QED
    BY <1>2, <2>1, <2>2, Rows
<1>. HIDE DEF i, a, p
<1>5. /\ person' \in [Persons -> PersonRow] /\ apartment' \in [Apartments -> ApartmentRow]
      /\ admin' \in [Admins -> AdminStep] /\ unseen' \in [Admins -> SUBSET Apartments]
      /\ OccupancyRight' /\ HomesStand' /\ ReadsFresh'
      /\ \A x \in Persons : person[x].user # "NONE" => person'[x].user # "NONE"
      /\ \A d \in Apartments : Stands(d) => Stands(d)'
      /\ person'[p].user # "NONE"
  <2>1. \A j \in Invites : invite[j].status # "NONE" =>
           invite'[j].status # "NONE" /\ invite'[j].home = invite[j].home
    BY <1>2, <1>4 DEF a
  <2>. QED
    BY <1>1, <1>3, <2>1, MovesIn
<1>6. /\ madeBy \in [Invites -> Nat] /\ madeBy' \in [Invites -> Nat] /\ madeBy[i] = 0
      /\ madeBy'[i] = 1 /\ \A j \in Invites \ {i} : madeBy'[j] = madeBy[j]
  <2>1. madeBy \in [Invites -> Nat]
    BY DEF ResidencyInv, ResidencyTypeOK
  <2>2. madeBy[i] = 0
    BY <1>1, <1>2, <2>1, Rows DEF InvitesNamed, p
  <2>. QED
    BY <1>1, <1>2, <2>1, <2>2
<1>7. ResidencyTypeOK'
  BY <1>1, <1>4, <1>5, <1>6 DEF ResidencyInv, ResidencyTypeOK
<1>8. InvitesNamed' /\ InviteMakesOneAccount'
  BY <1>2, <1>3, <1>4, <1>5, <1>6, Rows DEF InvitesNamed, InviteMakesOneAccount
<1>. QED
  BY <1>5, <1>7, <1>8 DEF ResidencyInv

\* A step that leaves the apartments and the invites as they are, and puts those whose
\* residents change off the book.
LEMMA OffTheBook ==
    ASSUME ResidencyInv, NEW r \in Admins, NEW moved \in SUBSET Apartments,
           UNCHANGED <<apartment, invite, expired, madeBy>>, buildings' = buildings,
           reinstated' \in Nat, NEW changed \in SUBSET Apartments, moved \subseteq changed,
           offBook' = offBook \cup moved, Done(r, changed),
           person' \in [Persons -> PersonRow], HomesStand',
           \A x \in Persons : person[x].user # "NONE" => person'[x].user # "NONE",
           \A x \in Persons, a \in Apartments \ moved : Lives(x, a)' <=> Lives(x, a),
           \A x \in Persons : (person'[x].user = "REMOVED" <=> person[x].user = "REMOVED")
                                 \/ Targets(x) \subseteq changed
    PROVE  ResidencyInv'
<1>1. /\ ReadsFresh'
      /\ admin' \in [Admins -> AdminStep] /\ unseen' \in [Admins -> SUBSET Apartments]
  <2>1. /\ \A x \in Persons, a \in Apartments \ changed : Lives(x, a)' <=> Lives(x, a)
        /\ \A d \in Apartments \ changed : apartment'[d].building \in {apartment[d].building, Nobody}
        /\ \A i \in Invites : invite[i].status # "NONE" =>
              invite'[i].status # "NONE" /\ invite'[i].home = invite[i].home
    OBVIOUS
  <2>. QED
    BY <2>1, DoneFresh
<1>2. ResidencyTypeOK'
  BY <1>1 DEF ResidencyInv, ResidencyTypeOK
<1>3. InvitesNamed' /\ InviteMakesOneAccount'
  BY Rows DEF InvitesNamed, InviteMakesOneAccount, Stands
<1>4. OccupancyRight'
  <2>1. \A a \in Apartments \ moved : Inhabited(a)' <=> Inhabited(a)
    BY DEF Inhabited
  <2>. QED
    BY <2>1, Rows DEF OccupancyRight, Stands
<1>. QED
  BY <1>1, <1>2, <1>3, <1>4 DEF ResidencyInv

LEMMA RenameResidentStep ==
    ASSUME ResidencyInv, NEW r \in Admins, RenameResident(r)
    PROVE  ResidencyInv'
<1>. DEFINE p == admin[r].person
            to == admin[r].to
            home == person[p].home
            moved == IF home = to THEN {} ELSE {home, to}
<1>1. /\ UNCHANGED <<buildings, apartment, invite, expired, madeBy, reinstated>>
      /\ admin[r].step = "move" /\ home # Nobody /\ Stands(to)
      /\ person' = [person EXCEPT ![p].home = to]
      /\ offBook' = offBook \cup moved /\ Done(r, moved)
  BY DEF RenameResident
<1>2. p \in Persons /\ to \in Apartments
  BY <1>1, StepFields, Rows
<1>3. home \in Apartments /\ moved \in SUBSET Apartments
  BY <1>1, <1>2, Rows
<1>4. /\ person' \in [Persons -> PersonRow]
      /\ person'[p].user = person[p].user /\ person'[p].home = to
      /\ \A x \in Persons \ {p} : person'[x] = person[x]
  <2>. DEFINE n == [user |-> person[p].user, home |-> to]
  <2>1. n \in PersonRow /\ n = [person[p] EXCEPT !.home = to]
        /\ n.user = person[p].user /\ n.home = to
    BY <1>2, Rows DEF PersonRow
  <2>2. person' = [person EXCEPT ![p] = n]
    BY <1>1, <1>2, <2>1, Rows
  <2>. HIDE DEF n
  <2>. QED
    BY <1>2, <2>1, <2>2, Rows
<1>5. HomesStand'
  BY <1>1, <1>2, <1>4, Rows DEF HomesStand, Stands
<1>6. /\ \A x \in Persons : person[x].user # "NONE" => person'[x].user # "NONE"
      /\ \A x \in Persons, a \in Apartments \ moved : Lives(x, a)' <=> Lives(x, a)
      /\ \A x \in Persons : (person'[x].user = "REMOVED" <=> person[x].user = "REMOVED")
                                 \/ Targets(x) \subseteq moved
  BY <1>2, <1>4 DEF Lives
<1>7. reinstated' \in Nat
  BY <1>1 DEF ResidencyInv, ResidencyTypeOK
<1>. HIDE DEF moved
<1>. QED
  BY <1>1, <1>3, <1>4, <1>5, <1>6, <1>7, OffTheBook

LEMMA UpdateResidentStatusStep ==
    ASSUME ResidencyInv, NEW r \in Admins, NEW p \in Persons, UpdateResidentStatus(r, p)
    PROVE  ResidencyInv'
<1>. DEFINE home == person[p].home
            changed == {home} \cup Targets(p)
<1>1. /\ UNCHANGED <<buildings, apartment, invite, expired, madeBy>>
      /\ reinstated' = reinstated + 1
      /\ home # Nobody
      /\ person' = [person EXCEPT ![p].user = "CURRENT"]
      /\ offBook' = offBook \cup {home} /\ Done(r, changed)
  BY DEF UpdateResidentStatus
<1>2. home \in Apartments /\ {home} \in SUBSET Apartments /\ changed \in SUBSET Apartments
      /\ {home} \subseteq changed
  BY <1>1, Rows DEF Targets
<1>3. /\ person' \in [Persons -> PersonRow]
      /\ person'[p].user = "CURRENT" /\ person'[p].home = home
      /\ \A x \in Persons \ {p} : person'[x] = person[x]
  <2>. DEFINE n == [user |-> "CURRENT", home |-> home]
  <2>1. n \in PersonRow /\ n = [person[p] EXCEPT !.user = "CURRENT"]
        /\ n.user = "CURRENT" /\ n.home = home
    BY <1>2, Rows DEF PersonRow
  <2>2. person' = [person EXCEPT ![p] = n]
    BY <1>1, <2>1, Rows
  <2>. HIDE DEF n
  <2>. QED
    BY <2>1, <2>2, Rows
<1>4. HomesStand'
  BY <1>1, <1>3, Rows DEF HomesStand, Stands
<1>5. /\ \A x \in Persons : person[x].user # "NONE" => person'[x].user # "NONE"
      /\ \A x \in Persons, a \in Apartments \ {home} : Lives(x, a)' <=> Lives(x, a)
      /\ \A x \in Persons : (person'[x].user = "REMOVED" <=> person[x].user = "REMOVED")
                                 \/ Targets(x) \subseteq changed
  BY <1>3 DEF Lives
<1>6. reinstated' \in Nat
  BY <1>1 DEF ResidencyInv, ResidencyTypeOK
<1>. HIDE DEF changed
<1>. QED
  BY <1>1, <1>2, <1>3, <1>4, <1>5, <1>6, OffTheBook

Lettered(e, s) == [e EXCEPT !.status = s]

\* The transaction commits: what it counted is right where nothing has changed since, and
\* the rest goes off the book.
LEMMA CommitResidentStep ==
    ASSUME ResidencyInv, NEW r \in Admins, CommitResident(r)
    PROVE  ResidencyInv'
<1>0. admin[r].step = "commit" /\ CountFresh(r)
  BY Rows DEF CommitResident, ReadsFresh
<1>2. PICK p \in Persons, from \in Apartments, to \in Apartments \cup {Nobody},
           home \in Apartments \cup {Nobody}, left \in BOOLEAN, joined \in BOOLEAN :
        /\ p = admin[r].person /\ from = admin[r].from /\ to = admin[r].to
        /\ left = admin[r].left /\ joined = admin[r].joined
        /\ home = person[p].home
  BY <1>0, StepFields, Rows
<1>. DEFINE counted == {from, to} \ {Nobody}
            changed == counted \cup ({home} \ {Nobody}) \cup Targets(p)
            missed == (counted \cap unseen[r]) \cup ({home} \ (counted \cup {Nobody}))
<1>1. /\ UNCHANGED <<buildings, invite, expired, madeBy, reinstated>>
      /\ \A a \in counted : Stands(a)
      /\ apartment' = Recompute(r)
      /\ offBook' = (offBook \ counted) \cup missed
      /\ Done(r, changed)
      /\ IF to = Nobody THEN person' = [person EXCEPT ![p].user = "REMOVED"]
                        ELSE home # Nobody /\ person' = [person EXCEPT ![p].home = to]
  BY <1>2 DEF CommitResident, MissedBy
<1>3. counted \in SUBSET Apartments
      /\ changed \in SUBSET Apartments /\ missed \in SUBSET Apartments
  BY <1>2, Rows DEF Targets
<1>4. /\ person' \in [Persons -> PersonRow]
      /\ \A x \in Persons \ {p} : person'[x] = person[x]
      /\ IF to = Nobody THEN person'[p].user = "REMOVED" /\ person'[p].home = home
                        ELSE person'[p].user = person[p].user /\ person'[p].home = to
  <2>. DEFINE n == [user |-> IF to = Nobody THEN "REMOVED" ELSE person[p].user,
                    home |-> IF to = Nobody THEN home ELSE to]
  <2>1. /\ n \in PersonRow
        /\ n.user = IF to = Nobody THEN "REMOVED" ELSE person[p].user
        /\ n.home = IF to = Nobody THEN home ELSE to
    BY <1>2, <1>3, Rows DEF PersonRow
  <2>2. person' = [person EXCEPT ![p] = n]
    <3>1. CASE to = Nobody
      <4>1. n = [person[p] EXCEPT !.user = "REMOVED"]
        BY <1>2, <3>1, Rows DEF PersonRow
      <4>. QED
        BY <1>1, <1>2, <3>1, <4>1, Rows
    <3>2. CASE to # Nobody
      <4>1. n = [person[p] EXCEPT !.home = to]
        BY <1>2, <3>2, Rows DEF PersonRow
      <4>. QED
        BY <1>1, <1>2, <3>2, <4>1, Rows
    <3>. QED
      BY <3>1, <3>2
  <2>. HIDE DEF n
  <2>. QED
    BY <1>2, <2>1, <2>2, Rows
<1>5. /\ apartment' \in [Apartments -> ApartmentRow]
      /\ \A a \in Apartments : Stands(a)' <=> Stands(a)
      /\ \A a \in Apartments \ counted : apartment'[a] = apartment[a]
      /\ to # Nobody => apartment'[to].status = Status(joined)
      /\ from # to => apartment'[from].status = Status(left)
  <2>1. \A a \in Apartments, o \in {Status(left), Status(joined)} :
          LET e == Lettered(apartment[a], o)
          IN  e \in ApartmentRow /\ e.status = o /\ e.building = apartment[a].building
    BY Rows DEF ApartmentRow, Status, Lettered
  <2>2. \A a \in Apartments :
          apartment'[a] = IF a = to THEN Lettered(apartment[a], Status(joined))
                          ELSE IF a = from THEN Lettered(apartment[a], Status(left))
                          ELSE apartment[a]
    BY <1>1, <1>2 DEF Recompute, Lettered
  <2>3. \A a \in Apartments :
          /\ apartment'[a] \in ApartmentRow /\ apartment'[a].building = apartment[a].building
          /\ a = to => apartment'[a].status = Status(joined)
          /\ a = from /\ from # to => apartment'[a].status = Status(left)
          /\ a \notin counted => apartment'[a] = apartment[a]
    <3>. SUFFICES ASSUME NEW a \in Apartments
                  PROVE  /\ apartment'[a] \in ApartmentRow
                         /\ apartment'[a].building = apartment[a].building
                         /\ a = to => apartment'[a].status = Status(joined)
                         /\ a = from /\ from # to => apartment'[a].status = Status(left)
                         /\ a \notin counted => apartment'[a] = apartment[a]
      OBVIOUS
    <3>1. a \notin counted => a # to /\ a # from
      BY NobodyAssumption
    <3>2. apartment[a] \in ApartmentRow
      BY Rows
    <3>3. CASE a = to
      BY <2>1, <2>2, <3>1, <3>3
    <3>4. CASE a = from /\ a # to
      BY <2>1, <2>2, <3>1, <3>4
    <3>5. CASE a # from /\ a # to
      BY <2>2, <3>2, <3>5
    <3>. QED
      BY <3>3, <3>4, <3>5
  <2>4. apartment' \in [Apartments -> ApartmentRow]
    BY <1>1, <2>3 DEF Recompute
  <2>. QED
    BY <1>2, <2>3, <2>4 DEF Stands
<1>6. /\ \A a : OthersIn(p, a)' <=> OthersIn(p, a)
      /\ \A a \in Apartments : Inhabited(a)' <=> Lives(p, a)' \/ OthersIn(p, a)
      /\ \A a \in Apartments : Inhabited(a) <=> Lives(p, a) \/ OthersIn(p, a)
      /\ \A a \in Apartments \ (counted \cup {home}) : Lives(p, a)' <=> Lives(p, a)
  <2>1. \A a : OthersIn(p, a)' <=> OthersIn(p, a)
    BY <1>4 DEF OthersIn, Lives
  <2>2. \A a \in Apartments : Inhabited(a)' <=> Lives(p, a)' \/ OthersIn(p, a)'
    BY <1>2 DEF Inhabited, OthersIn
  <2>3. \A a \in Apartments : Inhabited(a) <=> Lives(p, a) \/ OthersIn(p, a)
    BY <1>2 DEF Inhabited, OthersIn
  <2>4. \A a \in Apartments \ (counted \cup {home}) : Lives(p, a)' <=> Lives(p, a)
    BY <1>2, <1>4 DEF Lives
  <2>. QED
    BY <2>1, <2>2, <2>3, <2>4
<1>8. /\ from \notin unseen[r] => (left <=> OthersIn(p, from))
      /\ to \notin unseen[r] \cup {Nobody} =>
           (joined <=> OthersIn(p, to) \/ person[p].user # "REMOVED")
  BY <1>0, <1>2 DEF CountFresh
<1>9. home # Nobody => person[p].user # "NONE"
  BY <1>2, Rows DEF HomesStand
<1>10. /\ \A x \in Persons, a \in Apartments \ changed : Lives(x, a)' <=> Lives(x, a)
       /\ \A x \in Persons : (person'[x].user = "REMOVED" <=> person[x].user = "REMOVED")
                                 \/ Targets(x) \subseteq changed
       /\ \A x \in Persons : person[x].user # "NONE" => person'[x].user # "NONE"
  <2>1. \A x \in Persons \ {p} : \A a \in Apartments : Lives(x, a)' <=> Lives(x, a)
    BY <1>4 DEF Lives
  <2>2. \A a \in Apartments \ changed : a \in Apartments \ (counted \cup {home})
    BY NobodyAssumption
  <2>3. Targets(p) \subseteq changed
    OBVIOUS
  <2>. QED
    BY <1>4, <1>6, <2>1, <2>2, <2>3
<1>11. OccupancyRight'
  <2>. SUFFICES ASSUME NEW a \in Apartments, a \notin offBook', Stands(a)
                PROVE  apartment'[a].status = "OCCUPIED" <=> Inhabited(a)'
    BY <1>5 DEF OccupancyRight
  <2>1. CASE a \notin counted
    <3>1. a \notin offBook /\ a # home
      BY <1>1, <2>1, NobodyAssumption
    <3>2. apartment'[a] = apartment[a] /\ (Inhabited(a)' <=> Inhabited(a))
      BY <1>5, <1>6, <2>1, <3>1
    <3>. QED
      BY <3>1, <3>2, Rows DEF OccupancyRight
  <2>2. CASE a \in counted /\ a = to
    <3>1. to # Nobody /\ home # Nobody /\ a \notin unseen[r]
      BY <1>1, <2>2
    <3>2. Lives(p, a)' <=> person[p].user # "REMOVED"
      BY <1>2, <1>4, <1>9, <2>2, <3>1, Rows DEF Lives
    <3>. QED
      BY <1>2, <1>5, <1>6, <1>8, <2>2, <3>1, <3>2 DEF Status
  <2>3. CASE a \in counted /\ a # to
    <3>1. a = from /\ from # to /\ a \notin unseen[r]
      BY <1>1, <2>3
    <3>2. ~Lives(p, a)'
      BY <1>4, <3>1 DEF Lives
    <3>. QED
      BY <1>2, <1>5, <1>6, <1>8, <3>1, <3>2 DEF Status
  <2>. QED
    BY <2>1, <2>2, <2>3
<1>12. HomesStand'
  <2>1. \A x \in Persons : person'[x].home # Nobody => Stands(person'[x].home)
    BY <1>1, <1>2, <1>4, Rows DEF HomesStand
  <2>2. \A x \in Persons : person'[x].home # Nobody => person'[x].user # "NONE"
    BY <1>1, <1>4, <1>9, Rows DEF HomesStand
  <2>3. \A x \in Persons : person'[x].home \in Apartments \cup {Nobody}
    BY <1>4 DEF PersonRow
  <2>. QED
    BY <1>5, <2>1, <2>2, <2>3 DEF HomesStand
<1>13. InvitesNamed' /\ InviteMakesOneAccount'
  BY <1>1, <1>5, <1>10, Rows DEF InvitesNamed, InviteMakesOneAccount
<1>14. /\ ReadsFresh'
       /\ admin' \in [Admins -> AdminStep] /\ unseen' \in [Admins -> SUBSET Apartments]
  <2>1. \A d \in Apartments \ changed : apartment'[d].building \in {apartment[d].building, Nobody}
    BY <1>5
  <2>2. \A i \in Invites : invite[i].status # "NONE" =>
           invite'[i].status # "NONE" /\ invite'[i].home = invite[i].home
    BY <1>1
  <2>. HIDE DEF changed
  <2>. QED
    BY <1>1, <1>3, <1>10, <2>1, <2>2, DoneFresh
<1>15. ResidencyTypeOK'
  <2>1. offBook' \subseteq Apartments
    BY <1>1, <1>3, Rows
  <2>. QED
    BY <1>1, <1>4, <1>5, <1>14, <2>1 DEF ResidencyInv, ResidencyTypeOK
<1>. QED
  BY <1>11, <1>12, <1>13, <1>14, <1>15 DEF ResidencyInv
-----------------------------------------------------------------------------
LEMMA ResidencyInitial == ResidencyInit => ResidencyInv
<1>. SUFFICES ASSUME ResidencyInit PROVE ResidencyInv
  OBVIOUS
<1>1. ResidencyTypeOK
  BY FreeStep DEF ResidencyInit, ResidencyTypeOK, ApartmentRow, PersonRow, InviteRow
<1>2. ReadsFresh
  BY IsFree DEF ResidencyInit, ReadsFresh
<1>3. OccupancyRight /\ InviteMakesOneAccount /\ HomesStand /\ InvitesNamed
  BY DEF ResidencyInit, OccupancyRight, InviteMakesOneAccount, HomesStand, InvitesNamed, Stands
<1>. QED
  BY <1>1, <1>2, <1>3 DEF ResidencyInv

LEMMA ResidencyStep ==
    ASSUME ResidencyInv, [ResidencyNext]_residencyVars
    PROVE  ResidencyInv'
<1>1. ASSUME NEW r \in Admins, NEW a \in Apartments, CreateApartment(r, a) \/ UpdateApartment(r, a)
      PROVE  ResidencyInv'
  BY <1>1, ApartmentSteps
<1>2. ASSUME NEW r \in Admins,
           \/ \E b \in Buildings : RemoveBuildingRead(r, b)
           \/ \E p \in Persons :
                \/ RemoveResidentRead(r, p)
                \/ \E a \in Apartments : UpdateResidentRead(r, p, a) \/ CreateInviteRead(r, p, a)
           \/ \E i \in Invites : ResendInviteRead(r, i) \/ CancelInviteRead(r, i)
      PROVE  ResidencyInv'
  BY <1>2, ReadSteps
<1>3. ASSUME NEW r \in Admins, RemoveBuilding(r)
      PROVE  ResidencyInv'
  BY <1>3, RemoveBuildingStep
<1>4. ASSUME NEW r \in Admins, NEW p \in Persons,
             UpdateResidentStatus(r, p) \/ \E a \in Apartments : CreateResident(r, p, a)
      PROVE  ResidencyInv'
  BY <1>4, UpdateResidentStatusStep, CreateResidentStep
<1>5. ASSUME NEW r \in Admins,
             RemoveResidentCount(r) \/ UpdateResidentCount(r) \/ RenameResident(r) \/ CommitResident(r)
      PROVE  ResidencyInv'
  BY <1>5, CountSteps, RenameResidentStep, CommitResidentStep
<1>6. ASSUME NEW r \in Admins,
             \/ CreateInviteSupersede(r) \/ ResendInvite(r) \/ CancelInvite(r)
             \/ \E i \in Invites : CreateInviteInsert(r, i)
      PROVE  ResidencyInv'
  BY <1>6, CreateInviteSupersedeStep, InviteWrites
<1>7. ASSUME NEW r \in Admins,
             \/ \E i \in Invites : CompleteInviteRead(r, i)
             \/ CompleteInvite(r) \/ AdminFails(r)
      PROVE  ResidencyInv'
  BY <1>7, CompleteInviteReadStep, CompleteInviteStep, AdminFailsStep
<1>8. ASSUME NEW i \in Invites, InviteExpires(i) PROVE ResidencyInv'
  BY <1>8, ResidencyStutter DEF InviteExpires, ResidencyInv, ResidencyTypeOK
<1>9. CASE UNCHANGED residencyVars
  BY <1>9, ResidencyStutter DEF residencyVars, homes, ResidencyInv, ResidencyTypeOK
<1>. QED
  BY <1>1, <1>2, <1>3, <1>4, <1>5, <1>6, <1>7, <1>8, <1>9 DEF ResidencyNext

(* Whatever the administrators, the invited and the removed do at once, what *)
(* a request has read or counted is still so where nothing has changed since *)
(* (administration.service.ts, resident-invites.service.ts).                 *)
THEOREM ResidencyInvariant == ResidencySpec => []ResidencyInv
<1>. QED
  BY ResidencyInitial, ResidencyStep, PTL DEF ResidencySpec

(* For every estate: an apartment is OCCUPIED just when somebody lives there, *)
(* but for those the three races of administration.service.ts have taken off  *)
(* the book.                                                                  *)
THEOREM OccupancyIsRight == ResidencySpec => []OccupancyRight
<1>1. ResidencyInv => OccupancyRight
  BY DEF ResidencyInv
<1>. QED
  BY <1>1, ResidencyInvariant, PTL

(* However often its link is used, resent or cancelled at once, an invite     *)
(* makes one account at most (resident-invites.service.ts, completeInvite).   *)
THEOREM OneAccountPerInvite == ResidencySpec => []InviteMakesOneAccount
<1>1. ResidencyInv => InviteMakesOneAccount
  BY DEF ResidencyInv
<1>. QED
  BY <1>1, ResidencyInvariant, PTL

(* For every estate: an invite puts a second household into an apartment only *)
(* if somebody moved in after completeInvite read the occupancy, or the       *)
(* status it read was off the book.                                           *)
THEOREM NoSecondHousehold == ResidencySpec => SecondHouseholdOnlyByRace
<1>1. ASSUME ResidencyInv, [ResidencyNext]_residencyVars
      PROVE  [\A r \in Admins :
               (admin[r].step = "complete" /\ madeBy' # madeBy /\ admin'[r] = Free)
                 => LET a == invite[admin[r].invite].home
                    IN  Inhabited(a) => a \in unseen[r]]_residencyVars
  <2>1. \A r \in Admins : ReadFresh(r)
    BY <1>1 DEF ResidencyInv, ReadsFresh
  <2>. QED
    BY <2>1 DEF ReadFresh
<1>. QED
  BY <1>1, ResidencyInvariant, PTL DEF ResidencySpec, SecondHouseholdOnlyByRace

\* Only the deletion of a building takes a profile away.
LEMMA OnlyDemolition ==
    ASSUME ResidencyInv, [ResidencyNext]_residencyVars, NEW p \in Persons,
           person[p].home # Nobody, person'[p].home = Nobody
    PROVE  \E r \in Admins : RemoveBuilding(r)
<1>1. \A a \in Apartments : \A u : [user |-> u, home |-> a].home # Nobody
  BY NobodyAssumption
<1>2. ASSUME NEW r \in Admins, NEW x \in Persons, NEW a \in Apartments, CreateResident(r, x, a)
      PROVE  FALSE
  BY <1>1, <1>2, Rows, NobodyAssumption DEF CreateResident
<1>3. ASSUME NEW r \in Admins, RenameResident(r)
      PROVE  FALSE
  <2>1. admin[r].to \in Apartments /\ admin[r].person \in Persons
    BY <1>3, StepFields, Rows DEF RenameResident
  <2>. QED
    BY <1>3, <2>1, Rows, NobodyAssumption DEF RenameResident, PersonRow
<1>4. ASSUME NEW r \in Admins, CommitResident(r)
      PROVE  FALSE
  BY <1>4, Rows DEF CommitResident, PersonRow
<1>5. ASSUME NEW r \in Admins, NEW x \in Persons, UpdateResidentStatus(r, x)
      PROVE  FALSE
  BY <1>5, Rows DEF UpdateResidentStatus, PersonRow
<1>6. ASSUME NEW r \in Admins, CompleteInvite(r)
      PROVE  FALSE
  <2>1. invite[admin[r].invite].home \in Apartments /\ invite[admin[r].invite].person \in Persons
    BY <1>6, StepFields, Rows DEF CompleteInvite, ReadsFresh, ReadFresh, InvitesNamed
  <2>. QED
    BY <1>1, <1>6, <2>1, Rows, NobodyAssumption DEF CompleteInvite
<1>7. \/ \E r \in Admins : \/ RemoveBuilding(r) \/ RenameResident(r) \/ CommitResident(r)
                           \/ CompleteInvite(r)
                           \/ \E x \in Persons : \/ UpdateResidentStatus(r, x)
                                                 \/ \E a \in Apartments : CreateResident(r, x, a)
      \/ person' = person
  <2>1. ASSUME NEW r \in Admins
        PROVE  /\ \A a \in Apartments : CreateApartment(r, a) \/ UpdateApartment(r, a) => person' = person
               /\ \A b \in Buildings : RemoveBuildingRead(r, b) => person' = person
               /\ \A x \in Persons : RemoveResidentRead(r, x) => person' = person
               /\ \A x \in Persons, a \in Apartments :
                     UpdateResidentRead(r, x, a) \/ CreateInviteRead(r, x, a) => person' = person
    BY DEF homes, CreateApartment, UpdateApartment, RemoveBuildingRead, RemoveResidentRead,
           UpdateResidentRead, CreateInviteRead
  <2>2. ASSUME NEW r \in Admins
        PROVE  /\ RemoveResidentCount(r) \/ UpdateResidentCount(r) => person' = person
               /\ CreateInviteSupersede(r) \/ ResendInvite(r) \/ CancelInvite(r) => person' = person
               /\ AdminFails(r) => person' = person
    BY DEF homes, RemoveResidentCount, UpdateResidentCount, CreateInviteSupersede, ResendInvite,
           CancelInvite, AdminFails
  <2>3. ASSUME NEW i \in Invites
        PROVE  /\ InviteExpires(i) => person' = person
               /\ \A r \in Admins :
                     /\ CreateInviteInsert(r, i) \/ ResendInviteRead(r, i) => person' = person
                     /\ CancelInviteRead(r, i) \/ CompleteInviteRead(r, i) => person' = person
    BY DEF homes, CreateInviteInsert, ResendInviteRead, CancelInviteRead, CompleteInviteRead,
           InviteExpires
  <2>. QED
    BY <2>1, <2>2, <2>3 DEF ResidencyNext, residencyVars, homes
<1>. QED
  BY <1>2, <1>3, <1>4, <1>5, <1>6, <1>7

(* For every estate: a resident's profile disappears only with an apartment   *)
(* that came into its building after removeBuilding had counted none.         *)
THEOREM ProfilesAreKept == ResidencySpec => HomesKept
<1>1. ASSUME ResidencyInv, [ResidencyNext]_residencyVars, NEW p \in Persons,
             person[p].home # Nobody, person'[p].home = Nobody
      PROVE  \E r \in Admins : /\ admin[r].step = "demolish" /\ admin'[r] = Free
                               /\ person[p].home \in unseen[r]
  <2>1. \E r \in Admins : RemoveBuilding(r)
    BY <1>1, OnlyDemolition
  <2>2. PICK r \in Admins : RemoveBuilding(r)
    BY <2>1
  <2>3. person[p].home \in Apartments /\ apartment[person[p].home].building = admin[r].building
    BY <1>1, <2>2, Rows DEF RemoveBuilding
  <2>4. admin[r].step = "demolish" /\ admin'[r] = Free
    BY <1>1, <2>2, Rows DEF RemoveBuilding, Done
  <2>. QED
    BY <1>1, <2>3, <2>4, Rows DEF ReadsFresh, ReadFresh
<1>2. ASSUME ResidencyInv, [ResidencyNext]_residencyVars
      PROVE  [\A p \in Persons :
               (person[p].home # Nobody /\ person'[p].home = Nobody)
                 => \E r \in Admins : /\ admin[r].step = "demolish" /\ admin'[r] = Free
                                      /\ person[p].home \in unseen[r]]_residencyVars
  BY <1>1, <1>2
<1>. QED
  BY <1>2, ResidencyInvariant, PTL DEF ResidencySpec, HomesKept
=============================================================================
