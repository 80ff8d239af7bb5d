----------------------------- MODULE InvitePanel -----------------------------
(***************************************************************************)
(* The panel under "Invite a resident" (PendingInvitesPanel.tsx, with the  *)
(* form above it, CreateResidentForm.tsx), where an invitation is sent     *)
(* again or cancelled.  Sending again makes a new link and kills the old   *)
(* one; when the e-mail does not go out the panel shows the link, so that  *)
(* the administrator can pass it on.  A link shown that is no longer the   *)
(* invitation's is handed to someone who cannot use it.                    *)
(***************************************************************************)
EXTENDS Naturals, FiniteSets

CONSTANTS
    Invites,        \* invitations of the estate
    Unnamed,        \* no invitation
    MaxLinks,       \* links made for one invitation
    MaxLoads        \* lists asked for at once

ASSUME UnnamedAssumption == Unnamed \notin Invites
ASSUME MaxAssumption == {MaxLinks, MaxLoads} \subseteq Nat \ {0}

VARIABLES
    invite,         \* each invitation's row: its status and its newest link
    invites,        \* the list on the screen
    awaited,        \* lists asked for that the server has not read yet
    answers,        \* lists read and not arrived yet
    fallbackLinks,  \* the link shown for an invitation, 0 if none
    resendingId,    \* the invitation whose button says "Sending"
    resends,        \* requests under way, with the link each has made
    cancelingId,    \* the invitation whose reason is asked for
    cancelling,     \* the cancellation under way
    remade          \* invitations whose link may have changed behind the panel

panelVars == <<invite, invites, awaited, answers, fallbackLinks, resendingId, resends, cancelingId,
               cancelling, remade>>

Sendable == {"PENDING", "EXPIRED", "REVOKED"}
LinkNumbers == 0..MaxLinks

PanelTypeOK ==
    /\ invite \in [Invites -> [status: Sendable \cup {"USED"}, link: LinkNumbers]]
    /\ invites \subseteq Invites
    /\ awaited \in 0..MaxLoads
    /\ answers \subseteq SUBSET Invites
    /\ fallbackLinks \in [Invites -> LinkNumbers]
    /\ resendingId \in Invites \cup {Unnamed}
    /\ resends \subseteq [invite: Invites, stage: {"sent", "made", "refused"}, link: LinkNumbers]
    /\ cancelingId \in Invites \cup {Unnamed}
    /\ cancelling \in Invites \cup {Unnamed}
    /\ remade \subseteq Invites

PanelInit ==
    /\ invite = [i \in Invites |-> [status |-> "PENDING", link |-> 1]]
    /\ invites = {}
    /\ awaited = 1
    /\ answers = {}
    /\ fallbackLinks = [i \in Invites |-> 0]
    /\ resendingId = Unnamed
    /\ resends = {}
    /\ cancelingId = Unnamed
    /\ cancelling = Unnamed
    /\ remade = {}

Listed == {i \in Invites : invite[i].status \in {"PENDING", "EXPIRED"}}
-----------------------------------------------------------------------------
\* load(): the list is asked for again.
LoadInvites ==
    /\ awaited < MaxLoads
    /\ awaited' = awaited + 1

\* The form above has sent an invitation: refreshKey changes.
Refresh ==
    /\ LoadInvites
    /\ UNCHANGED <<invite, invites, answers, fallbackLinks, resendingId, resends,
                   cancelingId, cancelling, remade>>

\* listInvites, or the request is lost.
ListInvites ==
    /\ awaited > 0
    /\ awaited' = awaited - 1
    /\ answers' \in {answers, answers \cup {Listed}}
    /\ UNCHANGED <<invite, invites, fallbackLinks, resendingId, resends, cancelingId,
                   cancelling, remade>>

\* The lists arrive in any order.
SetInvites(l) ==
    /\ l \in answers
    /\ invites' = l
    /\ answers' = answers \ {l}
    /\ UNCHANGED <<invite, awaited, fallbackLinks, resendingId, resends, cancelingId,
                   cancelling, remade>>

\* Mutant: the link that is about to die stays on the screen.
ResendKeepingLink(i) ==
    /\ i \in invites /\ resendingId # i
    /\ resendingId' = i
    /\ resends' = resends \cup {[invite |-> i, stage |-> "sent", link |-> 0]}
    /\ remade' = IF \E q \in resends : q.invite = i THEN remade \cup {i} ELSE remade
    /\ UNCHANGED <<invite, invites, awaited, answers, fallbackLinks, cancelingId, cancelling>>

\* resend: the button of this invitation is disabled, until another one's is pressed;
\* a second resend of one invitation under way at once may then answer in any order.
Resend(i) ==
    /\ i \in invites /\ resendingId # i
    /\ resendingId' = i
    /\ fallbackLinks' = [fallbackLinks EXCEPT ![i] = 0]
    /\ resends' = resends \cup {[invite |-> i, stage |-> "sent", link |-> 0]}
    /\ remade' = IF \E q \in resends : q.invite = i THEN remade \cup {i} ELSE remade \ {i}
    /\ UNCHANGED <<invite, invites, awaited, answers, cancelingId, cancelling>>

\* resendInvite: a new link and two more hours, unless the invitation was used.
ResendInvite(q) ==
    /\ q \in resends /\ q.stage = "sent"
    /\ IF invite[q.invite].status = "USED"
       THEN /\ resends' = (resends \ {q}) \cup {[q EXCEPT !.stage = "refused"]}
            /\ UNCHANGED invite
       ELSE /\ invite[q.invite].link < MaxLinks
            /\ invite' = [invite EXCEPT ![q.invite] = [status |-> "PENDING", link |-> @.link + 1]]
            /\ resends' = (resends \ {q})
                             \cup {[q EXCEPT !.stage = "made", !.link = invite[q.invite].link + 1]}
    /\ UNCHANGED <<invites, awaited, answers, fallbackLinks, resendingId, cancelingId, cancelling, remade>>

\* The e-mail went out, or the panel shows the link instead; load().
Resent(q) ==
    /\ q \in resends /\ q.stage = "made"
    /\ \/ UNCHANGED fallbackLinks
       \/ fallbackLinks' = [fallbackLinks EXCEPT ![q.invite] = q.link]
    /\ resends' = resends \ {q}
    /\ resendingId' = Unnamed
    /\ LoadInvites
    /\ UNCHANGED <<invite, invites, answers, cancelingId, cancelling, remade>>

\* Refused, or not answered: no link is shown.
ResendFailed(q) ==
    /\ q \in resends
    /\ resends' = resends \ {q}
    /\ resendingId' = Unnamed
    /\ UNCHANGED <<invite, invites, awaited, answers, fallbackLinks, cancelingId, cancelling, remade>>
-----------------------------------------------------------------------------
\* startCancel, and "Never mind".
StartCancel(i) ==
    /\ i \in invites
    /\ cancelingId' = IF cancelingId = i /\ cancelling = Unnamed THEN Unnamed ELSE i
    /\ UNCHANGED <<invite, invites, awaited, answers, fallbackLinks, resendingId, resends, cancelling, remade>>

ConfirmCancel ==
    /\ cancelingId # Unnamed /\ cancelling = Unnamed
    /\ cancelling' = cancelingId
    /\ UNCHANGED <<invite, invites, awaited, answers, fallbackLinks, resendingId, resends, cancelingId, remade>>

\* cancelInvite: refused for an invitation that was used or cancelled already; the answer
\* closes whichever reason is open by then, an error leaves it open.
Cancelled ==
    /\ cancelling # Unnamed
    /\ invite[cancelling].status \in {"PENDING", "EXPIRED"}
    /\ invite' = [invite EXCEPT ![cancelling].status = "REVOKED"]
    /\ \/ cancelingId' = Unnamed /\ LoadInvites
       \/ UNCHANGED <<cancelingId, awaited>>
    /\ cancelling' = Unnamed
    /\ UNCHANGED <<invites, answers, fallbackLinks, resendingId, resends, remade>>

CancelFails ==
    /\ cancelling # Unnamed
    /\ cancelling' = Unnamed
    /\ UNCHANGED <<invite, invites, awaited, answers, fallbackLinks, resendingId, resends,
                   cancelingId, remade>>

\* The invitation is used, or runs out.
Elapses(i) ==
    /\ invite[i].status = "PENDING"
    /\ \E s \in {"USED", "EXPIRED"} : invite' = [invite EXCEPT ![i].status = s]
    /\ UNCHANGED <<invites, awaited, answers, fallbackLinks, resendingId, resends, cancelingId,
                   cancelling, remade>>

\* Another administrator sends it again.
ResentElsewhere(i) ==
    /\ invite[i].status \in Sendable
    /\ invite[i].link < MaxLinks
    /\ invite' = [invite EXCEPT ![i] = [status |-> "PENDING", link |-> @.link + 1]]
    /\ remade' = remade \cup {i}
    /\ UNCHANGED <<invites, awaited, answers, fallbackLinks, resendingId, resends, cancelingId, cancelling>>

PanelNext ==
    \/ Refresh \/ ListInvites
    \/ \E l \in answers : SetInvites(l)
    \/ \E i \in Invites : Resend(i) \/ StartCancel(i) \/ Elapses(i) \/ ResentElsewhere(i)
    \/ \E q \in resends : ResendInvite(q) \/ Resent(q) \/ ResendFailed(q)
    \/ ConfirmCancel \/ Cancelled \/ CancelFails

PanelSpec == PanelInit /\ [][PanelNext]_panelVars
-----------------------------------------------------------------------------
(* "The fallback link has to be shown per-invite" (PendingInvitesPanel): a *)
(* link the panel shows is the invitation's newest, unless another         *)
(* administrator made a newer one or two resends of it crossed.            *)
LinkShownIsNewest ==
    \A i \in Invites :
        fallbackLinks[i] \in {0, invite[i].link} \/ i \in remade
=============================================================================
