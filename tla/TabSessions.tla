------------------------------ MODULE TabSessions ------------------------------
(***************************************************************************)
(* The saved sessions of the browser build: one per account in the         *)
(* localStorage all tabs share, a pointer to one of them in each tab's     *)
(* sessionStorage, and in the memory of each page the session it runs, the *)
(* resume that restores one and the completion of a sign-in that has come  *)
(* back from the authorization server.                                     *)
(*                                                                         *)
(* A sign-in makes a grant at the server, bound to the key it was made     *)
(* with; a refresh of its tokens presents the last refresh token, which    *)
(* that spends, under that key.  A credential is what the client keeps of  *)
(* it: whose, which key, which grant, and how often the tokens have been   *)
(* rotated.  The destination a saved session also holds is left out.       *)
(***************************************************************************)
EXTENDS Naturals, Sequences

CONSTANTS
    Tabs, Accounts, None,
    SignInOver,            \* whether a tab signs in while it has a saved session
    MaxGrants, MaxRotations   \* bounds

Grants == 1..MaxGrants

\* PersistedSession, or the session in memory: dpop_jwk is that of the grant
\* key, token_set the gen-th of the grant.
Credentials == [did : Accounts, key : Grants, grant : Grants, gen : 0..MaxRotations]

Resumes ==
    [cred : Credentials,
     stage : {"asked", "rotated", "refused", "failed", "joining", "done"}]
Completions ==
    [cred : Credentials, stage : {"exchanged", "joining", "done"}]

ASSUME TabSessionsAssumption ==
    /\ None \notin Accounts \cup Credentials \cup Resumes \cup Completions
    /\ SignInOver \in BOOLEAN
    /\ MaxGrants \in Nat /\ MaxRotations \in Nat

VARIABLES
    slot,       \* localStorage: the saved session of each account
    last,       \* LAST_SESSION_KEY
    pointer,    \* TAB_SESSION_KEY of each tab
    offer,      \* OfferedSession
    spent,      \* ResumeLatch
    resume,     \* ResumeAuthTask
    complete,   \* CompleteAuthTask
    session,    \* AtprotoSession, its state in game
    renewal,    \* a refresh of its tokens under way: what the server has said
    expired,    \* SessionExpired
    issued,     \* the account of each grant made, in order
    rotations,  \* how often the tokens of a grant have been rotated
    revoked,    \* grants given back
    strayed     \* history: grants whose last rotation no client received

storage == <<slot, last, pointer>>
tasks   == <<resume, complete>>
game    == <<session, renewal, expired>>
server  == <<issued, rotations, revoked>>
vars    == <<storage, offer, spent, tasks, game, server, strayed>>

-----------------------------------------------------------------------------
(* The store.                                                              *)

\* read_slot: the saved session of an account, if there is one.
Saved(a) == IF a = None THEN None ELSE slot[a]

\* claim.
Claim(t, a) ==
    /\ pointer' = [pointer EXCEPT ![t] = a]
    /\ last' = a

\* forget.
Forget(t, a) ==
    /\ slot' = [slot EXCEPT ![a] = None]
    /\ last' = IF last = a THEN None ELSE last
    /\ pointer' = IF pointer[t] = a THEN [pointer EXCEPT ![t] = None] ELSE pointer

\* Mutant: it is the browser's last account that is forgotten.
ForgetLast(t) ==
    IF last = None THEN UNCHANGED storage ELSE Forget(t, last)

\* forget_tab.
ForgetTab(t) ==
    IF pointer[t] = None THEN UNCHANGED storage ELSE Forget(t, pointer[t])

\* Mutant: the tokens are saved as they were before the refresh.
Unrotated(t, c) == UNCHANGED slot

\* Mutant: the session is saved for the browser, as it was before there was
\* a slot per account.
SaveForAll(t, c) ==
    IF last = None THEN UNCHANGED slot ELSE slot' = [slot EXCEPT ![last] = c]

Retokened(saved, c) == [saved EXCEPT !.grant = c.grant, !.gen = c.gen]

\* update_persisted_token_set: into the slot of the tab's account, if it has
\* one; the rest of what is saved there stays.
SaveTokens(t, c) ==
    IF Saved(pointer[t]) = None THEN UNCHANGED slot
    ELSE slot' = [slot EXCEPT ![pointer[t]] = Retokened(@, c)]

-----------------------------------------------------------------------------
(* The authorization server, external.                                     *)

Good(c) == c.key = c.grant /\ c.grant \notin revoked

\* The refresh token is the last one, presented under the key of its grant.
Refreshable(c) == Good(c) /\ c.gen = rotations[c.grant]

Rotated(c) == [c EXCEPT !.gen = @ + 1]

\* refresh_session up to the server's answer: a rotation, a refusal, or a
\* failure that may pass - of the network, or of the server.
Refreshes(c, said) ==
    \/ /\ said = "rotated" /\ Refreshable(c) /\ c.gen < MaxRotations
       /\ rotations' = [rotations EXCEPT ![c.grant] = @ + 1]
    \/ said = "refused" /\ ~Refreshable(c) /\ UNCHANGED rotations
    \/ said = "failed" /\ UNCHANGED rotations

\* A resume runs, and is at one of the stages.
AtStage(t, stages) == resume[t] # None /\ resume[t].stage \in stages

\* The grants of t whose rotation the page has not taken yet: those it loses
\* with the task that asked.
Untaken(t) ==
    (IF renewal[t] = "rotated" THEN {session[t].grant} ELSE {})
        \cup (IF AtStage(t, {"rotated"}) THEN {resume[t].cred.grant} ELSE {})

-----------------------------------------------------------------------------
(* A page.                                                                 *)

\* session_on_boot, as check_wasm_resume acts on it: the tab's own account
\* is resumed, the browser's last one offered.
Decide(t) ==
    /\ spent' = [spent EXCEPT ![t] = TRUE]
    /\ IF Saved(pointer[t]) # None
       THEN /\ resume' = [resume EXCEPT ![t] = [cred |-> slot[pointer[t]], stage |-> "asked"]]
            /\ offer' = [offer EXCEPT ![t] = None]
       ELSE /\ resume' = [resume EXCEPT ![t] = None]
            /\ offer' = [offer EXCEPT ![t] = IF Saved(last) = None THEN None ELSE last]

\* What is in memory goes with the page.
PageGone(t) ==
    /\ session' = [session EXCEPT ![t] = None]
    /\ renewal' = [renewal EXCEPT ![t] = "none"]
    /\ expired' = [expired EXCEPT ![t] = FALSE]
    /\ strayed' = strayed \cup Untaken(t)

\* A page load: a new tab, a reload, a tab restored.
Load(t) ==
    /\ PageGone(t)
    /\ spent' = [spent EXCEPT ![t] = FALSE]
    /\ offer' = [offer EXCEPT ![t] = None]
    /\ resume' = [resume EXCEPT ![t] = None]
    /\ complete' = [complete EXCEPT ![t] = None]
    /\ UNCHANGED <<storage, server>>

\* check_wasm_resume in a page without a sign-in under way.
CheckResume(t) ==
    /\ ~spent[t] /\ session[t] = None /\ resume[t] = None /\ complete[t] = None
    /\ Decide(t)
    /\ UNCHANGED <<storage, complete, game, server, strayed>>

Idle(t) == session[t] = None /\ resume[t] = None /\ complete[t] = None

\* "Continue as ...".
Continue(t) ==
    /\ Idle(t) /\ offer[t] # None
    /\ Claim(t, offer[t])
    /\ offer' = [offer EXCEPT ![t] = None]
    /\ spent' = [spent EXCEPT ![t] = FALSE]
    /\ UNCHANGED <<slot, tasks, game, server, strayed>>

\* "Not ...?" beside an offer.
ForgetOffer(t) ==
    /\ Idle(t) /\ offer[t] # None
    /\ Forget(t, offer[t])
    /\ offer' = [offer EXCEPT ![t] = None]
    /\ UNCHANGED <<spent, tasks, game, server, strayed>>

\* "Retry", after a resume that failed and kept what is saved.
Retry(t) ==
    /\ Idle(t) /\ spent[t] /\ Saved(pointer[t]) # None
    /\ spent' = [spent EXCEPT ![t] = FALSE]
    /\ UNCHANGED <<storage, offer, tasks, game, server, strayed>>

-----------------------------------------------------------------------------
(* The resume.                                                             *)

Moved(task, stage) == [task EXCEPT !.stage = stage]

\* spawn_resume_task: the access token may be good still, or have to be
\* refreshed first.
ResumeAsks(t) ==
    /\ AtStage(t, {"asked"})
    /\ \/ resume' = [resume EXCEPT ![t] = Moved(@, "joining")] /\ UNCHANGED rotations
       \/ \E said \in {"rotated", "refused", "failed"} :
             /\ Refreshes(resume[t].cred, said)
             /\ resume' = [resume EXCEPT ![t] = Moved(@, said)]
    /\ UNCHANGED <<storage, offer, spent, complete, game, issued, revoked, strayed>>

\* The refresh has been answered: any failure forgets the tab's account.
ResumeTakes(t) ==
    /\ \/ /\ AtStage(t, {"rotated"})
          /\ LET c == Rotated(resume[t].cred)
             IN /\ resume' = [resume EXCEPT ![t] = [cred |-> c, stage |-> "joining"]]
                /\ SaveTokens(t, c)
                /\ UNCHANGED <<last, pointer>>
       \/ /\ AtStage(t, {"refused", "failed"})
          /\ resume' = [resume EXCEPT ![t] = None]
          /\ ForgetTab(t)
    /\ UNCHANGED <<offer, spent, complete, game, server, strayed>>

\* The relay's token has been had: no server gives one for a credential that
\* is not good.
ResumeJoins(t) ==
    /\ AtStage(t, {"joining"}) /\ Good(resume[t].cred)
    /\ resume' = [resume EXCEPT ![t] = Moved(@, "done")]
    /\ UNCHANGED <<storage, offer, spent, complete, game, server, strayed>>

\* The timeout of a resume, or the failure of its last call: what is saved is
\* kept.
ResumeGivesUp(t) ==
    /\ AtStage(t, {"asked", "rotated", "joining"})
    /\ resume' = [resume EXCEPT ![t] = None]
    /\ strayed' = strayed \cup Untaken(t)
    /\ UNCHANGED <<storage, offer, spent, complete, game, server>>

\* "Not you?", while it runs.
NotYou(t) ==
    /\ resume[t] # None /\ session[t] = None
    /\ resume' = [resume EXCEPT ![t] = None]
    /\ ForgetTab(t)
    /\ strayed' = strayed \cup Untaken(t)
    /\ UNCHANGED <<offer, spent, complete, game, server>>

\* install_completed_session.
Install(t, c) ==
    /\ session' = [session EXCEPT ![t] = c]
    /\ offer' = [offer EXCEPT ![t] = None]

\* poll_resume_task: on the login screen.
PollResume(t) ==
    /\ session[t] = None /\ AtStage(t, {"done"})
    /\ Install(t, resume[t].cred)
    /\ resume' = [resume EXCEPT ![t] = None]
    /\ UNCHANGED <<storage, spent, complete, renewal, expired, server, strayed>>

-----------------------------------------------------------------------------
(* The sign-in.                                                            *)

\* From the form, or from the notice of an expired session, and back as a:
\* the page that returns runs check_wasm_callback and check_wasm_resume in
\* its first frame, in no order; the resume may not see the completion yet.
SignIn(t, a) ==
    /\ (Idle(t) /\ spent[t]) \/ expired[t]
    /\ SignInOver \/ Saved(pointer[t]) = None
    /\ Len(issued) < MaxGrants
    /\ issued' = Append(issued, a)
    /\ LET g == Len(issued')
       IN complete' = [complete EXCEPT ![t] =
            [cred |-> [did |-> a, key |-> g, grant |-> g, gen |-> 0],
             stage |-> "exchanged"]]
    /\ PageGone(t)
    /\ \/ Decide(t)
       \/ /\ spent' = [spent EXCEPT ![t] = FALSE]
          /\ offer' = [offer EXCEPT ![t] = None]
          /\ resume' = [resume EXCEPT ![t] = None]
    /\ UNCHANGED <<storage, rotations, revoked>>

CompletionAt(t, stage) == complete[t] # None /\ complete[t].stage = stage

\* save_persisted, before the relay is asked.
CompleteSaves(t) ==
    /\ CompletionAt(t, "exchanged")
    /\ LET c == complete[t].cred
       IN slot' = [slot EXCEPT ![c.did] = c] /\ Claim(t, c.did)
    /\ complete' = [complete EXCEPT ![t] = Moved(@, "joining")]
    /\ UNCHANGED <<offer, spent, resume, game, server, strayed>>

CompleteJoins(t) ==
    /\ CompletionAt(t, "joining") /\ Good(complete[t].cred)
    /\ complete' = [complete EXCEPT ![t] = Moved(@, "done")]
    /\ UNCHANGED <<storage, offer, spent, resume, game, server, strayed>>

\* A failure on the way, or the timeout.
CompleteFails(t) ==
    /\ CompletionAt(t, "exchanged") \/ CompletionAt(t, "joining")
    /\ complete' = [complete EXCEPT ![t] = None]
    /\ UNCHANGED <<storage, offer, spent, resume, game, server, strayed>>

\* poll_complete_auth_task: on the login screen.
PollComplete(t) ==
    /\ session[t] = None /\ CompletionAt(t, "done")
    /\ Install(t, complete[t].cred)
    /\ complete' = [complete EXCEPT ![t] = None]
    /\ UNCHANGED <<storage, spent, resume, renewal, expired, server, strayed>>

-----------------------------------------------------------------------------
(* The session.                                                            *)

\* A write or the relay's token wants a refresh: one at a time.
AskRefresh(t) ==
    /\ session[t] # None /\ renewal[t] = "none" /\ ~expired[t]
    /\ \E said \in {"rotated", "refused", "failed"} :
         Refreshes(session[t], said) /\ renewal' = [renewal EXCEPT ![t] = said]
    /\ UNCHANGED <<storage, offer, spent, tasks, session, expired, issued, revoked, strayed>>

\* refresh_session from the answer on; a refusal expires the session, any
\* other failure is tried again.
Refreshed(t) ==
    /\ renewal[t] # "none"
    /\ renewal' = [renewal EXCEPT ![t] = "none"]
    /\ expired' = [expired EXCEPT ![t] = renewal[t] = "refused"]
    /\ IF renewal[t] = "rotated"
       THEN /\ session' = [session EXCEPT ![t] = Rotated(@)]
            /\ SaveTokens(t, Rotated(session[t]))
       ELSE UNCHANGED <<session, slot>>
    /\ UNCHANGED <<last, pointer, offer, spent, tasks, server, strayed>>

\* The timeout of the task that refreshes drops the answer with it.
RefreshDropped(t) ==
    /\ renewal[t] = "rotated"
    /\ renewal' = [renewal EXCEPT ![t] = "none"]
    /\ strayed' = strayed \cup Untaken(t)
    /\ UNCHANGED <<storage, offer, spent, tasks, session, expired, server>>

\* cleanup_on_logout, also by an aborted load: the grant is revoked, if that
\* reaches the server.
Logout(t) ==
    /\ session[t] # None
    /\ revoked' \in {revoked, revoked \cup {session[t].grant}}
    /\ ForgetTab(t)
    /\ PageGone(t)
    /\ UNCHANGED <<offer, spent, tasks, issued, rotations>>

-----------------------------------------------------------------------------

\* A browser nobody has used.
Init ==
    /\ slot = [a \in Accounts |-> None] /\ last = None
    /\ pointer = [t \in Tabs |-> None]
    /\ offer = [t \in Tabs |-> None] /\ spent = [t \in Tabs |-> FALSE]
    /\ resume = [t \in Tabs |-> None] /\ complete = [t \in Tabs |-> None]
    /\ session = [t \in Tabs |-> None]
    /\ renewal = [t \in Tabs |-> "none"] /\ expired = [t \in Tabs |-> FALSE]
    /\ issued = <<>>
    /\ rotations = [g \in Grants |-> 0]
    /\ revoked = {} /\ strayed = {}

Next == \E t \in Tabs :
    \/ Load(t) \/ CheckResume(t) \/ Continue(t) \/ ForgetOffer(t) \/ Retry(t)
    \/ ResumeAsks(t) \/ ResumeTakes(t) \/ ResumeJoins(t) \/ ResumeGivesUp(t)
    \/ NotYou(t) \/ PollResume(t)
    \/ \E a \in Accounts : SignIn(t, a)
    \/ CompleteSaves(t) \/ CompleteJoins(t) \/ CompleteFails(t) \/ PollComplete(t)
    \/ AskRefresh(t) \/ Refreshed(t) \/ RefreshDropped(t) \/ Logout(t)

Spec == Init /\ [][Next]_vars

-----------------------------------------------------------------------------
(* Properties.                                                             *)

TypeOK ==
    /\ slot \in [Accounts -> Credentials \cup {None}]
    /\ \A a \in Accounts : slot[a] # None => slot[a].did = a
    /\ last \in Accounts \cup {None}
    /\ pointer \in [Tabs -> Accounts \cup {None}]
    /\ offer \in [Tabs -> Accounts \cup {None}]
    /\ spent \in [Tabs -> BOOLEAN]
    /\ resume \in [Tabs -> Resumes \cup {None}]
    /\ complete \in [Tabs -> Completions \cup {None}]
    /\ session \in [Tabs -> Credentials \cup {None}]
    /\ renewal \in [Tabs -> {"none", "rotated", "refused", "failed"}]
    /\ expired \in [Tabs -> BOOLEAN]
    /\ issued \in Seq(Accounts) /\ Len(issued) <= MaxGrants
    /\ rotations \in [Grants -> 0..MaxRotations]
    /\ revoked \subseteq Grants /\ strayed \subseteq Grants

\* What is saved can be resumed: the tokens of every saved session are the
\* last the server has given for their grant, through reloads at any moment,
\* several tabs on one account and tasks given up - unless the rotation is
\* on its way to a page, or was lost on it.
SavedIsLive ==
    \A a \in Accounts : slot[a] # None =>
        \/ slot[a].gen = rotations[slot[a].grant]
        \/ slot[a].grant \in strayed
        \/ \E t \in Tabs : slot[a].grant \in Untaken(t)

\* No other tab has to do with the account of t.
Alone(t) ==
    \A u \in Tabs \ {t} :
        /\ session[t].did \notin {pointer[u], offer[u]}
        /\ complete[u] = None \/ complete[u].cred.did # session[t].did

\* The header of session_store.rs: while a tab plays as its account, what
\* other tabs do with other accounts - sign in, reload, refresh, sign out,
\* forget - leaves its saved session and its pointer to it alone.
AloneKeepsSaved ==
    [][\A t \in Tabs :
         session[t] # None /\ session'[t] = session[t] /\ Alone(t) =>
             /\ slot'[session[t].did] = slot[session[t].did]
             /\ pointer'[t] = pointer[t]]_vars

\* claim_session: every later write of a tab lands in its account's slot and
\* in no other's.
OwnSlots ==
    \A a \in Accounts : slot[a] # None =>
        issued[slot[a].grant] = a
=============================================================================
