-------------------------- MODULE TabSessions_proofs --------------------------
(***************************************************************************)
(* Proofs about TabSessions.                                               *)
(***************************************************************************)
EXTENDS TabSessions, TLAPS

-----------------------------------------------------------------------------
(* The data.                                                               *)

\* No credential and no task is None.
LEMMA NoneFacts ==
    /\ None \notin Accounts
    /\ \A c \in Credentials : c # None
    /\ \A x \in Resumes \cup Completions : x # None /\ x.cred \in Credentials
BY TabSessionsAssumption DEF Resumes, Completions

\* A rotation within the bound.
LEMMA RotatedType ==
    ASSUME NEW c \in Credentials, c.gen < MaxRotations
    PROVE  /\ Rotated(c) \in Credentials
           /\ Rotated(c).did = c.did /\ Rotated(c).key = c.key
           /\ Rotated(c).grant = c.grant /\ Rotated(c).gen = c.gen + 1
BY TabSessionsAssumption DEF Rotated, Credentials

\* The tokens of one credential saved into another.
LEMMA RetokenedType ==
    ASSUME NEW x \in Credentials, NEW c \in Credentials
    PROVE  /\ Retokened(x, c) \in Credentials
           /\ Retokened(x, c).did = x.did
           /\ Retokened(x, c).grant = c.grant /\ Retokened(x, c).gen = c.gen
BY DEF Retokened, Credentials

\* A task at another stage.
LEMMA MovedType ==
    /\ \A x \in Resumes : \A stage \in {"rotated", "refused", "failed", "joining", "done"} :
         /\ Moved(x, stage) \in Resumes
         /\ Moved(x, stage).cred = x.cred /\ Moved(x, stage).stage = stage
    /\ \A x \in Completions : \A stage \in {"joining", "done"} :
         /\ Moved(x, stage) \in Completions
         /\ Moved(x, stage).cred = x.cred /\ Moved(x, stage).stage = stage
BY DEF Moved, Resumes, Completions

-----------------------------------------------------------------------------
(* Types.                                                                  *)

\* What a sign-in leaves a page, or a page load.
LEMMA DecideTypes ==
    ASSUME TypeOK, NEW t \in Tabs, Decide(t)
    PROVE  /\ spent' \in [Tabs -> BOOLEAN]
           /\ resume' \in [Tabs -> Resumes \cup {None}]
           /\ offer' \in [Tabs -> Accounts \cup {None}]
<1>1. /\ slot \in [Accounts -> Credentials \cup {None}]
      /\ pointer \in [Tabs -> Accounts \cup {None}] /\ last \in Accounts \cup {None}
      /\ spent \in [Tabs -> BOOLEAN] /\ offer \in [Tabs -> Accounts \cup {None}]
      /\ resume \in [Tabs -> Resumes \cup {None}]
  BY DEF TypeOK
<1>2. Saved(pointer[t]) # None => Saved(pointer[t]) = slot[pointer[t]]
                                  /\ slot[pointer[t]] \in Credentials
  BY <1>1 DEF Saved
<1>3. Saved(pointer[t]) # None => [cred |-> slot[pointer[t]], stage |-> "asked"] \in Resumes
  BY <1>2 DEF Resumes
<1> QED
  BY <1>1, <1>3 DEF Decide

LEMMA StoreTypes ==
    ASSUME TypeOK, NEW t \in Tabs, NEW a \in Accounts, Forget(t, a)
    PROVE  /\ slot' \in [Accounts -> Credentials \cup {None}]
           /\ \A b \in Accounts : slot'[b] # None => slot'[b].did = b
           /\ last' \in Accounts \cup {None}
           /\ pointer' \in [Tabs -> Accounts \cup {None}]
BY DEF TypeOK, Forget

LEMMA ForgetTabTypes ==
    ASSUME TypeOK, NEW t \in Tabs, ForgetTab(t)
    PROVE  /\ slot' \in [Accounts -> Credentials \cup {None}]
           /\ \A b \in Accounts : slot'[b] # None => slot'[b].did = b
           /\ last' \in Accounts \cup {None}
           /\ pointer' \in [Tabs -> Accounts \cup {None}]
<1>1. CASE pointer[t] = None
  BY <1>1 DEF ForgetTab, TypeOK, storage
<1>2. CASE pointer[t] # None
  <2>1. pointer[t] \in Accounts /\ Forget(t, pointer[t])
    BY <1>2 DEF ForgetTab, TypeOK
  <2> QED
    BY <2>1, StoreTypes
<1> QED
  BY <1>1, <1>2

LEMMA SaveTokensTypes ==
    ASSUME TypeOK, NEW t \in Tabs, NEW c \in Credentials, SaveTokens(t, c)
    PROVE  /\ slot' \in [Accounts -> Credentials \cup {None}]
           /\ \A b \in Accounts : slot'[b] # None => slot'[b].did = b
<1>0. /\ slot \in [Accounts -> Credentials \cup {None}]
      /\ \A b \in Accounts : slot[b] # None => slot[b].did = b
      /\ pointer[t] \in Accounts \cup {None}
  BY DEF TypeOK
<1>1. CASE Saved(pointer[t]) = None
  BY <1>0, <1>1 DEF SaveTokens
<1>2. CASE Saved(pointer[t]) # None
  <2>1. /\ pointer[t] \in Accounts /\ slot[pointer[t]] \in Credentials
        /\ slot[pointer[t]] # None
        /\ slot' = [slot EXCEPT ![pointer[t]] = Retokened(@, c)]
    BY <1>0, <1>2 DEF Saved, SaveTokens
  <2> QED
    BY <1>0, <2>1, RetokenedType
<1> QED
  BY <1>1, <1>2

LEMMA RefreshesTypes ==
    ASSUME TypeOK, NEW c \in Credentials, NEW said, Refreshes(c, said)
    PROVE  rotations' \in [Grants -> 0..MaxRotations]
<1>1. /\ rotations \in [Grants -> 0..MaxRotations] /\ c.grant \in Grants
      /\ c.gen \in 0..MaxRotations /\ MaxRotations \in Nat
  BY TabSessionsAssumption DEF TypeOK, Credentials
<1> QED
  BY <1>1 DEF Refreshes, Refreshable

LEMMA UntakenTypes ==
    ASSUME TypeOK, NEW t \in Tabs,
           renewal[t] = "rotated" => session[t] # None
    PROVE  Untaken(t) \subseteq Grants
<1>1. /\ session[t] # None => session[t].grant \in Grants
      /\ resume[t] # None => resume[t].cred.grant \in Grants
  BY DEF TypeOK, Resumes, Credentials
<1> QED
  BY <1>1 DEF Untaken, AtStage

LEMMA PageGoneTypes ==
    ASSUME TypeOK, NEW t \in Tabs, PageGone(t), Untaken(t) \subseteq Grants
    PROVE  /\ session' \in [Tabs -> Credentials \cup {None}]
           /\ renewal' \in [Tabs -> {"none", "rotated", "refused", "failed"}]
           /\ expired' \in [Tabs -> BOOLEAN]
           /\ strayed' \subseteq Grants
BY DEF TypeOK, PageGone

\* A refresh is under way in a session only, and a rotation that is on its way
\* is within the bound.
Pending == \A t \in Tabs :
    /\ renewal[t] # "none" => session[t] # None
    /\ renewal[t] = "rotated" => session[t].gen < MaxRotations
    /\ AtStage(t, {"rotated"}) => resume[t].cred.gen < MaxRotations

LEMMA TypeInit ==
    ASSUME Init PROVE TypeOK /\ Pending
<1>1. /\ slot \in [Accounts -> Credentials \cup {None}]
      /\ \A a \in Accounts : slot[a] = None
      /\ last \in Accounts \cup {None}
      /\ pointer \in [Tabs -> Accounts \cup {None}]
      /\ offer \in [Tabs -> Accounts \cup {None}]
      /\ resume \in [Tabs -> Resumes \cup {None}]
      /\ complete \in [Tabs -> Completions \cup {None}]
      /\ session \in [Tabs -> Credentials \cup {None}]
  BY DEF Init
<1>2. /\ spent \in [Tabs -> BOOLEAN] /\ expired \in [Tabs -> BOOLEAN]
      /\ renewal \in [Tabs -> {"none", "rotated", "refused", "failed"}]
      /\ \A t \in Tabs : renewal[t] = "none" /\ resume[t] = None
  BY DEF Init
<1>3. /\ issued \in Seq(Accounts) /\ Len(issued) <= MaxGrants
      /\ rotations \in [Grants -> 0..MaxRotations]
      /\ revoked \subseteq Grants /\ strayed \subseteq Grants
  BY TabSessionsAssumption DEF Init
<1> QED
  BY <1>1, <1>2, <1>3 DEF TypeOK, Pending, AtStage

\* A refresh that the server grants is within the bound.
LEMMA RefreshesPending ==
    ASSUME TypeOK, NEW c \in Credentials, Refreshes(c, "rotated")
    PROVE  c.gen < MaxRotations
BY DEF Refreshes

\* The steps of a page's first frames and of the person before it.
LEMMA TypePage ==
    ASSUME TypeOK, Pending, NEW t \in Tabs,
           Load(t) \/ CheckResume(t) \/ Continue(t) \/ ForgetOffer(t) \/ Retry(t)
    PROVE  TypeOK' /\ Pending'
<1>0. Untaken(t) \subseteq Grants
  BY UntakenTypes DEF Pending
<1>1. CASE Load(t)
  <2>1. PageGone(t)
    BY <1>1 DEF Load
  <2>2. /\ spent' \in [Tabs -> BOOLEAN] /\ offer' \in [Tabs -> Accounts \cup {None}]
        /\ resume' \in [Tabs -> Resumes \cup {None}]
        /\ complete' \in [Tabs -> Completions \cup {None}]
    BY <1>1 DEF Load, TypeOK
  <2>3. Pending'
    BY <1>1, <2>1 DEF Load, PageGone, Pending, TypeOK, AtStage
  <2> QED
    BY <1>0, <1>1, <2>1, <2>2, <2>3, PageGoneTypes DEF Load, TypeOK, storage, server
<1>2. CASE CheckResume(t)
  <2>1. Decide(t) /\ UNCHANGED <<storage, complete, game, server, strayed>>
    BY <1>2 DEF CheckResume
  <2>2. Pending'
    <3>1. \A u \in Tabs : AtStage(u, {"rotated"})' =>
             AtStage(u, {"rotated"}) /\ resume'[u] = resume[u]
      BY <2>1 DEF Decide, TypeOK, AtStage
    <3> QED
      BY <2>1, <3>1 DEF Pending, game
  <2> QED
    BY <2>1, <2>2, DecideTypes DEF TypeOK, storage, game, server
<1>3. CASE Continue(t)
  <2>1. offer[t] \in Accounts
    BY <1>3 DEF Continue, TypeOK
  <2> QED
    BY <1>3, <2>1 DEF Continue, Claim, TypeOK, Pending, AtStage, tasks, game, server
<1>4. CASE ForgetOffer(t)
  <2>1. offer[t] \in Accounts
    BY <1>4 DEF ForgetOffer, TypeOK
  <2> QED
    BY <1>4, <2>1, StoreTypes DEF ForgetOffer, TypeOK, Pending, AtStage, tasks, game, server
<1>5. CASE Retry(t)
  BY <1>5 DEF Retry, TypeOK, Pending, AtStage, storage, tasks, game, server
<1> QED
  BY <1>1, <1>2, <1>3, <1>4, <1>5

\* The steps of a resume.
LEMMA TypeResume ==
    ASSUME TypeOK, Pending, NEW t \in Tabs,
           \/ ResumeAsks(t) \/ ResumeTakes(t) \/ ResumeJoins(t) \/ ResumeGivesUp(t)
           \/ NotYou(t) \/ PollResume(t)
    PROVE  TypeOK' /\ Pending'
<1>0. Untaken(t) \subseteq Grants
  BY UntakenTypes DEF Pending
<1>a. resume \in [Tabs -> Resumes \cup {None}]
  BY DEF TypeOK
<1>b. resume[t] # None => resume[t] \in Resumes /\ resume[t].cred \in Credentials
  BY <1>a, NoneFacts
<1>1. CASE ResumeAsks(t)
  <2>1. resume[t] \in Resumes /\ resume[t].cred \in Credentials
    BY <1>1, <1>b DEF ResumeAsks, AtStage
  <2>2. PICK stage \in {"rotated", "refused", "failed", "joining"} :
          /\ resume' = [resume EXCEPT ![t] = Moved(@, stage)]
          /\ stage = "joining" => UNCHANGED rotations
          /\ stage # "joining" => Refreshes(resume[t].cred, stage)
    BY <1>1 DEF ResumeAsks
  <2>3. resume' \in [Tabs -> Resumes \cup {None}]
    BY <1>a, <2>1, <2>2, MovedType
  <2>4. rotations' \in [Grants -> 0..MaxRotations]
    BY <2>1, <2>2, RefreshesTypes DEF TypeOK
  <2>5. Pending'
    <3>1. AtStage(t, {"rotated"})' => resume'[t].cred.gen < MaxRotations
      BY <1>a, <2>1, <2>2, MovedType, RefreshesPending DEF AtStage
    <3> QED
      BY <1>1, <1>a, <2>2, <3>1 DEF ResumeAsks, Pending, AtStage, game
  <2> QED
    BY <1>1, <2>3, <2>4, <2>5 DEF ResumeAsks, TypeOK, storage, game
<1>2. CASE ResumeTakes(t)
  <2>1. resume[t] \in Resumes /\ resume[t].cred \in Credentials
    BY <1>2, <1>b DEF ResumeTakes, AtStage
  <2>2. CASE resume[t].stage = "rotated"
    <3> DEFINE c == Rotated(resume[t].cred)
    <3>1. /\ resume' = [resume EXCEPT ![t] = [cred |-> c, stage |-> "joining"]]
          /\ SaveTokens(t, c) /\ UNCHANGED <<last, pointer>>
      BY <1>2, <2>2 DEF ResumeTakes, AtStage
    <3>2. c \in Credentials
      BY <1>2, <2>1, <2>2, RotatedType DEF ResumeTakes, Pending, AtStage
    <3> HIDE DEF c
    <3>3. [cred |-> c, stage |-> "joining"] \in Resumes
      BY <3>2 DEF Resumes
    <3>4. resume' \in [Tabs -> Resumes \cup {None}]
      BY <1>a, <3>1, <3>3
    <3>5. Pending'
      BY <1>2, <1>a, <3>1 DEF ResumeTakes, Pending, AtStage, game
    <3> QED
      BY <1>2, <3>1, <3>2, <3>4, <3>5, SaveTokensTypes DEF ResumeTakes, TypeOK, game, server
  <2>3. CASE resume[t].stage # "rotated"
    <3>1. resume' = [resume EXCEPT ![t] = None] /\ ForgetTab(t)
      BY <1>2, <2>3 DEF ResumeTakes, AtStage
    <3>2. Pending'
      BY <1>2, <1>a, <3>1 DEF ResumeTakes, Pending, AtStage, game
    <3> QED
      BY <1>2, <1>a, <3>1, <3>2, ForgetTabTypes DEF ResumeTakes, TypeOK, game, server
  <2> QED
    BY <2>2, <2>3
<1>3. CASE ResumeJoins(t)
  <2>1. resume[t] \in Resumes /\ resume' = [resume EXCEPT ![t] = Moved(@, "done")]
    BY <1>3, <1>b DEF ResumeJoins, AtStage
  <2>2. resume' \in [Tabs -> Resumes \cup {None}]
    BY <1>a, <2>1, MovedType
  <2>3. Pending'
    BY <1>3, <1>a, <2>1, MovedType DEF ResumeJoins, Pending, AtStage, game
  <2> QED
    BY <1>3, <2>2, <2>3 DEF ResumeJoins, TypeOK, storage, game, server
<1>4. CASE ResumeGivesUp(t)
  BY <1>0, <1>4 DEF ResumeGivesUp, TypeOK, Pending, AtStage, storage, game, server
<1>5. CASE NotYou(t)
  <2>1. Pending'
    BY <1>5 DEF NotYou, Pending, TypeOK, AtStage, game
  <2> QED
    BY <1>0, <1>5, <2>1, ForgetTabTypes DEF NotYou, TypeOK, game, server
<1>6. CASE PollResume(t)
  <2>1. resume[t].cred \in Credentials /\ resume[t] \in Resumes
    BY <1>6, <1>b DEF PollResume, AtStage
  <2>2. Pending'
    BY <1>6 DEF PollResume, Install, Pending, TypeOK, AtStage
  <2> QED
    BY <1>6, <2>1, <2>2 DEF PollResume, Install, TypeOK, storage, server
<1> QED
  BY <1>1, <1>2, <1>3, <1>4, <1>5, <1>6

\* The steps of a sign-in.
LEMMA TypeSignIn ==
    ASSUME TypeOK, Pending, NEW t \in Tabs,
           \/ \E a \in Accounts : SignIn(t, a)
           \/ CompleteSaves(t) \/ CompleteJoins(t) \/ CompleteFails(t) \/ PollComplete(t)
    PROVE  TypeOK' /\ Pending'
<1>0. Untaken(t) \subseteq Grants
  BY UntakenTypes DEF Pending
<1>a. complete \in [Tabs -> Completions \cup {None}]
  BY DEF TypeOK
<1>b. complete[t] # None =>
        complete[t] \in Completions /\ complete[t].cred \in Credentials
              /\ complete[t].cred.did \in Accounts
  BY <1>a, NoneFacts DEF Credentials
<1>1. ASSUME NEW a \in Accounts, SignIn(t, a) PROVE TypeOK' /\ Pending'
  <2> DEFINE g == Len(issued')
             c == [did |-> a, key |-> g, grant |-> g, gen |-> 0]
  <2>1. issued' \in Seq(Accounts) /\ Len(issued') <= MaxGrants /\ Len(issued') \in Grants
    BY <1>1, TabSessionsAssumption DEF SignIn, TypeOK, Grants
  <2>2. [cred |-> c, stage |-> "exchanged"] \in Completions
    BY <2>1, TabSessionsAssumption DEF Completions, Credentials
  <2>3. complete' \in [Tabs -> Completions \cup {None}]
    BY <1>1, <1>a, <2>2 DEF SignIn
  <2>4. /\ spent' \in [Tabs -> BOOLEAN] /\ offer' \in [Tabs -> Accounts \cup {None}]
        /\ resume' \in [Tabs -> Resumes \cup {None}]
    <3>1. CASE Decide(t)
      BY <3>1, DecideTypes
    <3>2. CASE ~Decide(t)
      <4>1. /\ spent' = [spent EXCEPT ![t] = FALSE]
            /\ offer' = [offer EXCEPT ![t] = None]
            /\ resume' = [resume EXCEPT ![t] = None]
        BY <1>1, <3>2 DEF SignIn
      <4> QED
        BY <4>1 DEF TypeOK
    <3> QED
      BY <3>1, <3>2
  <2>5. PageGone(t) /\ UNCHANGED <<storage, rotations, revoked>>
    BY <1>1 DEF SignIn
  <2>6. Pending'
    <3>1. \A u \in Tabs : AtStage(u, {"rotated"})' =>
             AtStage(u, {"rotated"}) /\ resume'[u] = resume[u]
      BY <1>1 DEF SignIn, Decide, TypeOK, AtStage
    <3> QED
      BY <2>5, <3>1 DEF Pending, PageGone, TypeOK
  <2> QED
    BY <1>0, <2>1, <2>3, <2>4, <2>5, <2>6, PageGoneTypes DEF TypeOK, storage
<1>2. CASE CompleteSaves(t)
  <2> DEFINE c == complete[t].cred
  <2>1. c \in Credentials /\ c.did \in Accounts /\ complete[t] \in Completions
    BY <1>2, <1>b DEF CompleteSaves, CompletionAt
  <2>2. /\ slot' = [slot EXCEPT ![c.did] = c] /\ Claim(t, c.did)
        /\ complete' = [complete EXCEPT ![t] = Moved(@, "joining")]
    BY <1>2 DEF CompleteSaves
  <2> HIDE DEF c
  <2>3. complete' \in [Tabs -> Completions \cup {None}]
    BY <1>a, <2>1, <2>2, MovedType
  <2>4. /\ slot' \in [Accounts -> Credentials \cup {None}]
        /\ \A b \in Accounts : slot'[b] # None => slot'[b].did = b
        /\ last' \in Accounts \cup {None} /\ pointer' \in [Tabs -> Accounts \cup {None}]
    BY <2>1, <2>2 DEF TypeOK, Claim
  <2> QED
    BY <1>2, <2>3, <2>4 DEF CompleteSaves, TypeOK, Pending, AtStage, game, server
<1>3. CASE CompleteJoins(t)
  <2>1. complete[t] \in Completions /\ complete' = [complete EXCEPT ![t] = Moved(@, "done")]
    BY <1>3, <1>b DEF CompleteJoins, CompletionAt
  <2>2. complete' \in [Tabs -> Completions \cup {None}]
    BY <1>a, <2>1, MovedType
  <2> QED
    BY <1>3, <2>2 DEF CompleteJoins, TypeOK, Pending, AtStage, storage, game, server
<1>4. CASE CompleteFails(t)
  BY <1>4 DEF CompleteFails, TypeOK, Pending, AtStage, storage, game, server
<1>5. CASE PollComplete(t)
  <2>1. complete[t].cred \in Credentials
    BY <1>5, <1>b DEF PollComplete, CompletionAt
  <2>2. Pending'
    BY <1>5 DEF PollComplete, Install, Pending, TypeOK, AtStage
  <2> QED
    BY <1>5, <2>1, <2>2 DEF PollComplete, Install, TypeOK, storage, server
<1> QED
  BY <1>1, <1>2, <1>3, <1>4, <1>5

\* The steps of a session.
LEMMA TypeSession ==
    ASSUME TypeOK, Pending, NEW t \in Tabs,
           AskRefresh(t) \/ Refreshed(t) \/ RefreshDropped(t) \/ Logout(t)
    PROVE  TypeOK' /\ Pending'
<1>0. Untaken(t) \subseteq Grants
  BY UntakenTypes DEF Pending
<1>a. session \in [Tabs -> Credentials \cup {None}] /\ expired \in [Tabs -> BOOLEAN]
      /\ renewal \in [Tabs -> {"none", "rotated", "refused", "failed"}]
  BY DEF TypeOK
<1>1. CASE AskRefresh(t)
  <2>1. session[t] \in Credentials
    BY <1>1, <1>a DEF AskRefresh
  <2>2. PICK said \in {"rotated", "refused", "failed"} :
          Refreshes(session[t], said) /\ renewal' = [renewal EXCEPT ![t] = said]
    BY <1>1 DEF AskRefresh
  <2>3. rotations' \in [Grants -> 0..MaxRotations]
    BY <2>1, <2>2, RefreshesTypes
  <2>4. said = "rotated" => session[t].gen < MaxRotations
    BY <2>1, <2>2, RefreshesPending
  <2>5. Pending'
    BY <1>1, <1>a, <2>2, <2>4 DEF AskRefresh, Pending, AtStage, tasks
  <2> QED
    BY <1>1, <2>2, <2>3, <2>5 DEF AskRefresh, TypeOK, storage, tasks
<1>2. CASE Refreshed(t)
  <2>0. session[t] \in Credentials
    BY <1>2, <1>a DEF Refreshed, Pending
  <2>1. CASE renewal[t] = "rotated"
    <3> DEFINE c == Rotated(session[t])
    <3>1. c \in Credentials
      BY <2>0, <2>1, RotatedType DEF Pending
    <3>2. session' = [session EXCEPT ![t] = c] /\ SaveTokens(t, c)
      BY <1>2, <2>1 DEF Refreshed
    <3> HIDE DEF c
    <3>3. Pending'
      BY <1>2, <1>a, <3>1, <3>2, NoneFacts DEF Refreshed, Pending, AtStage, tasks
    <3> QED
      BY <1>2, <1>a, <3>1, <3>2, <3>3, SaveTokensTypes DEF Refreshed, TypeOK, tasks, server
  <2>2. CASE renewal[t] # "rotated"
    BY <1>2, <2>2 DEF Refreshed, TypeOK, Pending, AtStage, tasks, server
  <2> QED
    BY <2>1, <2>2
<1>3. CASE RefreshDropped(t)
  BY <1>0, <1>3 DEF RefreshDropped, TypeOK, Pending, AtStage, storage, tasks, server
<1>4. CASE Logout(t)
  <2>1. session[t].grant \in Grants
    BY <1>4, <1>a DEF Logout, Credentials
  <2>2. Pending'
    BY <1>4, <1>a DEF Logout, PageGone, Pending, AtStage, tasks
  <2> QED
    BY <1>0, <1>4, <2>1, <2>2, ForgetTabTypes, PageGoneTypes DEF Logout, TypeOK, tasks
<1> QED
  BY <1>1, <1>2, <1>3, <1>4

LEMMA TypeStep ==
    ASSUME TypeOK, Pending, [Next]_vars PROVE TypeOK' /\ Pending'
<1>1. CASE UNCHANGED vars
  BY <1>1 DEF vars, storage, tasks, game, server, TypeOK, Pending, AtStage
<1>2. CASE Next
  BY <1>2, TypePage, TypeResume, TypeSignIn, TypeSession DEF Next
<1> QED
  BY <1>1, <1>2

\* Every state of the browser, the pages and the server is of its type:
\* claim, forget, the resume and the sign-in only ever store what they read.
THEOREM TypeCorrect == Spec => []TypeOK
<1>1. Spec => [](TypeOK /\ Pending)
  BY TypeInit, TypeStep, PTL DEF Spec
<1> QED
  BY <1>1, PTL

-----------------------------------------------------------------------------
(* What is saved stays live, where nobody signs in over a saved session.   *)
(* A grant's last tokens are held in many places at once: the slot, and    *)
(* the pages that read it.  The invariant speaks of all of them.           *)

\* The credentials in use: saved, of a session, of a resume.
InUse ==
    (({slot[a] : a \in Accounts} \cup {session[t] : t \in Tabs}) \ {None})
        \cup {resume[t].cred : t \in {u \in Tabs : resume[u] # None}}

\* Those and the ones a sign-in has brought.
Held == InUse \cup {complete[t].cred : t \in {u \in Tabs : complete[u] # None}}

\* A page does one thing at a time, and its tab's pointer is to the account it
\* does it for.
PageAt(t) ==
    /\ complete[t] # None =>
          /\ resume[t] = None /\ session[t] = None
          /\ complete[t].stage = "exchanged" \/ pointer[t] = complete[t].cred.did
    /\ session[t] # None => resume[t] = None /\ pointer[t] = session[t].did
    /\ resume[t] # None => pointer[t] = resume[t].cred.did

PageInv == \A t \in Tabs : PageAt(t)

\* A credential is of the account its grant was made for, and no newer than
\* the server's last.
HeldInv == \A c \in Held :
    /\ c.grant \in 1..Len(issued) /\ issued[c.grant] = c.did
    /\ c.gen <= rotations[c.grant]

UnmadeInv == \A g \in Grants : g > Len(issued) => rotations[g] = 0

\* The credential of t whose rotation it has not taken yet.
Rotating(t) == IF renewal[t] = "rotated" THEN session[t] ELSE resume[t].cred

\* A rotation under way is the last of its grant, nobody holds its tokens yet,
\* and there is one of a grant.
UntakenInv == \A t \in Tabs : \A g \in Untaken(t) :
    /\ Rotating(t).grant = g /\ Rotating(t).gen + 1 = rotations[g]
    /\ \A c \in Held : c.grant = g => c.gen < rotations[g]
    /\ \A u \in Tabs : g \in Untaken(u) => u = t

\* A grant whose credential has not been saved is nowhere else.
ExchangedInv == \A t \in Tabs : CompletionAt(t, "exchanged") =>
    LET g == complete[t].cred.grant IN
    /\ complete[t].cred.gen = 0 /\ rotations[g] = 0
    /\ \A c \in InUse : c.grant # g
    /\ \A u \in Tabs : complete[u] # None /\ complete[u].cred.grant = g => u = t

GrantInv == HeldInv /\ UnmadeInv /\ UntakenInv /\ ExchangedInv
LiveInv == TypeOK /\ Pending /\ PageInv /\ GrantInv /\ SavedIsLive

-----------------------------------------------------------------------------
(* Three ways a step treats the grants: no tokens change, the server       *)
(* rotates those of one, a page takes what was rotated.  A sign-in, which  *)
(* makes one, is the fourth.                                               *)

\* A credential a sign-in has brought that is being saved or installed.
Brought(c) == \E u \in Tabs :
    complete[u] # None /\ complete[u].cred = c /\ ~CompletionAt(u, "exchanged")'

CompleteKept == \A u \in Tabs :
    /\ complete'[u] # None => complete[u] # None /\ complete'[u].cred = complete[u].cred
    /\ CompletionAt(u, "exchanged")' => complete'[u] = complete[u]

\* No tokens change, and a rotation that is dropped has strayed.
Keeps ==
    /\ UNCHANGED <<issued, rotations>>
    /\ \A c \in InUse' : c \in InUse \/ Brought(c)
    /\ CompleteKept
    /\ \A u \in Tabs : \A g \in Untaken(u)' : g \in Untaken(u) /\ Rotating(u)' = Rotating(u)
    /\ \A u \in Tabs : Untaken(u) \subseteq Untaken(u)' \cup strayed'
    /\ strayed \subseteq strayed'

\* Tab t has the tokens of credential c rotated.
Rotates(t, c) ==
    /\ c \in InUse /\ c.gen = rotations[c.grant]
    /\ rotations' = [rotations EXCEPT ![c.grant] = @ + 1]
    /\ InUse' \subseteq InUse
    /\ UNCHANGED <<issued, slot, complete, strayed>>
    /\ Untaken(t)' = {c.grant} /\ Rotating(t)' = c /\ Untaken(t) = {}
    /\ \A u \in Tabs \ {t} : Untaken(u)' = Untaken(u) /\ Rotating(u)' = Rotating(u)

\* Tab t takes the rotated tokens, into its slot if there is one.
Takes(t) ==
    LET c == Rotating(t) IN
    /\ UNCHANGED <<issued, rotations, complete, strayed>>
    /\ Untaken(t) = {c.grant} /\ Untaken(t)' = {}
    /\ \A x \in InUse' :
         x \in InUse \/ (x.grant = c.grant /\ x.gen = c.gen + 1 /\ x.did = c.did)
    /\ \A a \in Accounts :
         \/ slot'[a] = slot[a] /\ (slot[a] = None \/ a # c.did)
         \/ slot'[a].grant = c.grant /\ slot'[a].gen = c.gen + 1
    /\ \A u \in Tabs \ {t} : Untaken(u)' = Untaken(u) /\ Rotating(u)' = Rotating(u)

\* What the types say of a credential and of the tasks.
LEMMA CredentialFacts ==
    \A c \in Credentials :
        /\ c.did \in Accounts /\ c.grant \in Grants /\ c.key \in Grants
        /\ c.gen \in Nat /\ c # None
BY NoneFacts, TabSessionsAssumption DEF Credentials

LEMMA HeldTypes ==
    ASSUME TypeOK
    PROVE  /\ Held \subseteq Credentials /\ InUse \subseteq Held
           /\ \A a \in Accounts : slot[a] # None => slot[a] \in InUse
           /\ \A t \in Tabs : session[t] # None => session[t] \in InUse
           /\ \A t \in Tabs : resume[t] # None => resume[t].cred \in InUse
           /\ \A t \in Tabs : complete[t] # None => complete[t].cred \in Held
<1>1. /\ slot \in [Accounts -> Credentials \cup {None}]
      /\ session \in [Tabs -> Credentials \cup {None}]
      /\ resume \in [Tabs -> Resumes \cup {None}]
      /\ complete \in [Tabs -> Completions \cup {None}]
  BY DEF TypeOK
<1>2. InUse \subseteq Credentials
  BY <1>1, NoneFacts DEF InUse
<1>3. Held \subseteq Credentials
  BY <1>1, <1>2, NoneFacts DEF Held
<1>4. QED  BY <1>1, <1>3 DEF InUse, Held

LEMMA KeepsGrant ==
    ASSUME LiveInv, Keeps
    PROVE  GrantInv'
<1>1. Held' \subseteq Held
  <2>1. \A c \in InUse' : c \in Held
    BY DEF Keeps, Brought, Held
  <2>2. QED  BY <2>1 DEF Keeps, CompleteKept, Held
<1>2. HeldInv'
  BY <1>1 DEF LiveInv, GrantInv, HeldInv, Keeps
<1>3. UnmadeInv'
  BY DEF LiveInv, GrantInv, UnmadeInv, Keeps
<1>4. UntakenInv'
  BY <1>1 DEF LiveInv, GrantInv, UntakenInv, Keeps
<1>5. ExchangedInv'
  <2>1. SUFFICES ASSUME NEW t \in Tabs, CompletionAt(t, "exchanged")'
                 PROVE  /\ complete'[t].cred.gen = 0 /\ rotations[complete'[t].cred.grant] = 0
                        /\ \A c \in InUse' : c.grant # complete'[t].cred.grant
                        /\ \A u \in Tabs :
                             complete'[u] # None
                               /\ complete'[u].cred.grant = complete'[t].cred.grant => u = t
    BY DEF ExchangedInv, Keeps
  <2>2. complete'[t] = complete[t] /\ CompletionAt(t, "exchanged")
    BY <2>1 DEF Keeps, CompleteKept, CompletionAt
  <2> DEFINE g == complete[t].cred.grant
  <2>3. /\ complete[t].cred.gen = 0 /\ rotations[g] = 0
        /\ \A c \in InUse : c.grant # g
        /\ \A u \in Tabs : complete[u] # None /\ complete[u].cred.grant = g => u = t
    BY <2>2 DEF LiveInv, GrantInv, ExchangedInv
  <2>4. ASSUME NEW c \in InUse' PROVE c.grant # g
    <3>1. CASE c \in InUse
      BY <2>3, <3>1
    <3>2. CASE Brought(c)
      BY <2>1, <2>3, <3>2 DEF Brought
    <3>3. QED  BY <2>4, <3>1, <3>2 DEF Keeps
  <2>5. \A u \in Tabs : complete'[u] # None /\ complete'[u].cred.grant = g => u = t
    BY <2>3 DEF Keeps, CompleteKept
  <2>6. QED  BY <2>2, <2>3, <2>4, <2>5
<1>6. QED  BY <1>2, <1>3, <1>4, <1>5 DEF GrantInv

\* Nothing is saved that was not, or not live.
LEMMA KeepsSaved ==
    ASSUME LiveInv, Keeps,
           \A a \in Accounts : slot'[a] # None =>
              slot'[a] = slot[a] \/ slot'[a].gen = rotations[slot'[a].grant]
    PROVE  SavedIsLive'
<1>1. SUFFICES ASSUME NEW a \in Accounts, slot'[a] # None,
                      slot'[a].gen # rotations'[slot'[a].grant],
                      slot'[a].grant \notin strayed'
               PROVE  \E t \in Tabs : slot'[a].grant \in Untaken(t)'
  BY DEF SavedIsLive
<1>2. slot'[a] = slot[a] /\ slot[a].gen # rotations[slot[a].grant]
      /\ slot[a].grant \notin strayed
  BY <1>1 DEF Keeps
<1>3. PICK t \in Tabs : slot[a].grant \in Untaken(t)
  BY <1>1, <1>2 DEF LiveInv, SavedIsLive
<1>4. slot[a].grant \in Untaken(t)'
  BY <1>1, <1>2, <1>3 DEF Keeps
<1>5. QED  BY <1>2, <1>4

LEMMA RotatesGrant ==
    ASSUME LiveInv, NEW t \in Tabs, NEW c, Rotates(t, c)
    PROVE  GrantInv' /\ SavedIsLive'
<1> DEFINE g == c.grant
<1>1. /\ c \in InUse /\ c.gen = rotations[g] /\ InUse' \subseteq InUse
      /\ rotations' = [rotations EXCEPT ![g] = @ + 1]
      /\ UNCHANGED <<issued, slot, complete, strayed>>
      /\ Untaken(t)' = {g} /\ Rotating(t)' = c
      /\ \A u \in Tabs \ {t} : Untaken(u)' = Untaken(u) /\ Rotating(u)' = Rotating(u)
  BY DEF Rotates
<1>2. /\ rotations \in [Grants -> 0..MaxRotations] /\ MaxRotations \in Nat
      /\ g \in Grants /\ c \in Held /\ Held \subseteq Credentials /\ c.gen \in Nat
      /\ g <= Len(issued)
  BY <1>1, HeldTypes, CredentialFacts, TabSessionsAssumption
     DEF LiveInv, TypeOK, GrantInv, HeldInv
<1>3. /\ rotations'[g] = rotations[g] + 1 /\ rotations[g] \in Nat
      /\ \A h \in Grants \ {g} : rotations'[h] = rotations[h]
  BY <1>1, <1>2
<1>4. Held' \subseteq Held
  BY <1>1 DEF Held
<1>5. \A u \in Tabs : g \notin Untaken(u)
  BY <1>1, <1>2, <1>3 DEF LiveInv, GrantInv, UntakenInv
<1>6. HeldInv'
  <2>1. SUFFICES ASSUME NEW x \in Held
                 PROVE  /\ x.grant \in 1..Len(issued) /\ issued[x.grant] = x.did
                        /\ x.gen <= rotations'[x.grant]
    BY <1>1, <1>4 DEF HeldInv
  <2>2. /\ x.grant \in 1..Len(issued) /\ issued[x.grant] = x.did
        /\ x.gen <= rotations[x.grant]
    BY DEF LiveInv, GrantInv, HeldInv
  <2>3. x.gen \in Nat /\ x.grant \in Grants
    BY <1>2, CredentialFacts
  <2>4. QED  BY <1>2, <1>3, <2>2, <2>3
<1>7. UnmadeInv'
  <2>1. Len(issued) \in Nat /\ g \in Nat
    BY <1>2 DEF LiveInv, TypeOK, Grants
  <2>2. QED  BY <1>1, <1>2, <1>3, <2>1 DEF LiveInv, GrantInv, UnmadeInv
<1>8. UntakenInv'
  <2>1. SUFFICES ASSUME NEW u \in Tabs, NEW h \in Untaken(u)'
                 PROVE  /\ Rotating(u)'.grant = h /\ Rotating(u)'.gen + 1 = rotations'[h]
                        /\ \A x \in Held' : x.grant = h => x.gen < rotations'[h]
                        /\ \A w \in Tabs : h \in Untaken(w)' => w = u
    BY DEF UntakenInv
  <2>2. CASE u = t
    <3>1. h = g /\ Rotating(u)' = c
      BY <1>1, <2>1, <2>2
    <3>2. \A x \in Held : x.grant = g => x.gen < rotations'[g]
      <4>1. \A x \in Held : x.grant = g => x.gen <= rotations[g] /\ x.gen \in Nat
        BY <1>2, CredentialFacts DEF LiveInv, GrantInv, HeldInv
      <4>2. QED  BY <1>3, <4>1
    <3>3. \A w \in Tabs : g \in Untaken(w)' => w = t
      BY <1>1, <1>5
    <3>4. QED  BY <1>1, <1>3, <1>4, <2>2, <3>1, <3>2, <3>3
  <2>3. CASE u # t
    <3>1. h \in Untaken(u) /\ h # g /\ Rotating(u)' = Rotating(u)
      BY <1>1, <1>5, <2>1, <2>3
    <3>2. /\ Rotating(u).grant = h /\ Rotating(u).gen + 1 = rotations[h]
          /\ \A x \in Held : x.grant = h => x.gen < rotations[h]
          /\ \A w \in Tabs : h \in Untaken(w) => w = u
      BY <3>1 DEF LiveInv, GrantInv, UntakenInv
    <3>3. rotations'[h] = rotations[h]
      BY <1>1, <3>1
    <3>4. \A w \in Tabs : h \in Untaken(w)' => w = u
      BY <1>1, <3>1, <3>2
    <3>5. QED  BY <1>4, <3>1, <3>2, <3>3, <3>4
  <2>4. QED  BY <2>2, <2>3
<1>9. ExchangedInv'
  <2>1. ASSUME NEW u \in Tabs, CompletionAt(u, "exchanged")
        PROVE  rotations'[complete[u].cred.grant] = rotations[complete[u].cred.grant]
    <3>1. complete[u].cred.grant # g
      BY <1>1, <2>1 DEF LiveInv, GrantInv, ExchangedInv
    <3>2. QED  BY <1>1, <3>1
  <2>2. QED  BY <1>1, <2>1 DEF LiveInv, GrantInv, ExchangedInv, CompletionAt
<1>10. SavedIsLive'
  <2>1. SUFFICES ASSUME NEW a \in Accounts, slot[a] # None, slot[a].grant # g
                 PROVE  \/ slot[a].gen = rotations'[slot[a].grant]
                        \/ slot[a].grant \in strayed
                        \/ \E u \in Tabs : slot[a].grant \in Untaken(u)'
    BY <1>1 DEF SavedIsLive
  <2>2. rotations'[slot[a].grant] = rotations[slot[a].grant]
    BY <1>1, <2>1
  <2>3. \A u \in Tabs : Untaken(u) \subseteq Untaken(u)'
    BY <1>1 DEF Rotates
  <2>4. QED  BY <2>1, <2>2, <2>3 DEF LiveInv, SavedIsLive
<1>11. QED  BY <1>6, <1>7, <1>8, <1>9, <1>10 DEF GrantInv

LEMMA TakesGrant ==
    ASSUME LiveInv, NEW t \in Tabs, Takes(t)
    PROVE  GrantInv' /\ SavedIsLive'
<1> DEFINE c == Rotating(t)
           g == c.grant
<1>1. /\ UNCHANGED <<issued, rotations, complete, strayed>>
      /\ Untaken(t) = {g} /\ Untaken(t)' = {}
      /\ \A x \in InUse' : x \in InUse \/ (x.grant = g /\ x.gen = c.gen + 1 /\ x.did = c.did)
      /\ \A a \in Accounts :
           \/ slot'[a] = slot[a] /\ (slot[a] = None \/ a # c.did)
           \/ slot'[a].grant = g /\ slot'[a].gen = c.gen + 1
      /\ \A u \in Tabs \ {t} : Untaken(u)' = Untaken(u) /\ Rotating(u)' = Rotating(u)
  BY DEF Takes
<1>2. /\ c.gen + 1 = rotations[g]
      /\ \A u \in Tabs : g \in Untaken(u) => u = t
      /\ g \in 1..Len(issued) /\ issued[g] = c.did /\ rotations[g] \in Nat
      /\ c \in InUse
  <2>1. /\ c.gen + 1 = rotations[g] /\ \A u \in Tabs : g \in Untaken(u) => u = t
    BY <1>1 DEF LiveInv, GrantInv, UntakenInv
  <2>2. c \in InUse
    <3>1. CASE renewal[t] = "rotated"
      BY <3>1, HeldTypes DEF LiveInv, Pending, Rotating
    <3>2. CASE renewal[t] # "rotated"
      <4>1. resume[t] # None
        BY <1>1, <3>2 DEF Untaken, AtStage
      <4>2. QED  BY <3>2, <4>1, HeldTypes DEF LiveInv, Rotating
    <3>3. QED  BY <3>1, <3>2
  <2>3. c \in Held /\ c \in Credentials
    BY <2>2, HeldTypes DEF LiveInv
  <2>4. g \in 1..Len(issued) /\ issued[g] = c.did
    BY <2>3 DEF LiveInv, GrantInv, HeldInv
  <2>5. rotations[g] \in Nat
    BY <2>3, CredentialFacts, TabSessionsAssumption DEF LiveInv, TypeOK
  <2>6. QED  BY <2>1, <2>2, <2>4, <2>5
<1>3. \A x \in Held' : x \in Held \/ (x.grant = g /\ x.gen = rotations[g] /\ x.did = issued[g])
  BY <1>1, <1>2 DEF Held
<1> HIDE DEF c
<1>4. HeldInv'
  BY <1>1, <1>2, <1>3 DEF LiveInv, GrantInv, HeldInv
<1>5. UnmadeInv'
  BY <1>1 DEF LiveInv, GrantInv, UnmadeInv
<1>6. UntakenInv'
  <2>1. SUFFICES ASSUME NEW u \in Tabs, NEW h \in Untaken(u)'
                 PROVE  /\ Rotating(u)'.grant = h /\ Rotating(u)'.gen + 1 = rotations[h]
                        /\ \A x \in Held' : x.grant = h => x.gen < rotations[h]
                        /\ \A w \in Tabs : h \in Untaken(w)' => w = u
    BY <1>1 DEF UntakenInv
  <2>2. u # t
    BY <1>1, <2>1
  <2>3. h \in Untaken(u) /\ h # g /\ Rotating(u)' = Rotating(u)
    BY <1>1, <1>2, <2>1, <2>2
  <2>4. /\ Rotating(u).grant = h /\ Rotating(u).gen + 1 = rotations[h]
        /\ \A x \in Held : x.grant = h => x.gen < rotations[h]
        /\ \A w \in Tabs : h \in Untaken(w) => w = u
    BY <2>3 DEF LiveInv, GrantInv, UntakenInv
  <2>5. \A w \in Tabs : h \in Untaken(w)' => w = u
    BY <1>1, <2>4
  <2>6. QED  BY <1>3, <2>3, <2>4, <2>5
<1>7. ExchangedInv'
  <2>1. ASSUME NEW u \in Tabs, CompletionAt(u, "exchanged")
        PROVE  /\ complete[u].cred.gen = 0 /\ rotations[complete[u].cred.grant] = 0
               /\ \A x \in InUse' : x.grant # complete[u].cred.grant
               /\ \A w \in Tabs :
                    complete[w] # None
                      /\ complete[w].cred.grant = complete[u].cred.grant => w = u
    <3>1. complete[u].cred.grant # g
      BY <1>2, <2>1 DEF LiveInv, GrantInv, ExchangedInv
    <3>2. QED  BY <1>1, <2>1, <3>1 DEF LiveInv, GrantInv, ExchangedInv
  <2>2. QED  BY <1>1, <2>1 DEF ExchangedInv, CompletionAt
<1>8. SavedIsLive'
  <2>1. SUFFICES ASSUME NEW a \in Accounts, slot'[a] # None,
                        slot'[a] = slot[a], a # c.did
                 PROVE  \/ slot[a].gen = rotations[slot[a].grant]
                        \/ slot[a].grant \in strayed
                        \/ \E u \in Tabs : slot[a].grant \in Untaken(u)'
    BY <1>1, <1>2 DEF SavedIsLive
  <2>2. issued[slot[a].grant] = a
    BY <2>1, HeldTypes DEF LiveInv, TypeOK, GrantInv, HeldInv
  <2>3. slot[a].grant # g
    BY <1>2, <2>1, <2>2
  <2>4. \A u \in Tabs : slot[a].grant \in Untaken(u) => slot[a].grant \in Untaken(u)'
    BY <1>1, <2>3
  <2>5. QED  BY <2>1, <2>4 DEF LiveInv, SavedIsLive
<1>9. QED  BY <1>4, <1>5, <1>6, <1>7, <1>8 DEF GrantInv

-----------------------------------------------------------------------------
(* The steps, each of one tab.                                             *)

\* Nothing of another tab changes.
Elsewhere(t) == \A u \in Tabs \ {t} :
    /\ session'[u] = session[u] /\ renewal'[u] = renewal[u] /\ resume'[u] = resume[u]
    /\ complete'[u] = complete[u] /\ pointer'[u] = pointer[u]

\* Keeps, as far as it is about tab t and the slots.
KeepsAt(t) ==
    /\ UNCHANGED <<issued, rotations>> /\ strayed \subseteq strayed'
    /\ \A a \in Accounts : slot'[a] # None => slot'[a] = slot[a] \/ Brought(slot'[a])
    /\ session'[t] # None => session'[t] \in InUse \/ Brought(session'[t])
    /\ resume'[t] # None => resume'[t].cred \in InUse
    /\ complete'[t] # None => complete[t] # None /\ complete'[t].cred = complete[t].cred
    /\ CompletionAt(t, "exchanged")' => complete'[t] = complete[t]
    /\ \A g \in Untaken(t)' : g \in Untaken(t) /\ Rotating(t)' = Rotating(t)
    /\ Untaken(t) \subseteq Untaken(t)' \cup strayed'

LEMMA UntakenElsewhere ==
    ASSUME NEW t \in Tabs, Elsewhere(t), NEW u \in Tabs \ {t}
    PROVE  Untaken(u)' = Untaken(u) /\ Rotating(u)' = Rotating(u)
BY DEF Elsewhere, Untaken, Rotating, AtStage

LEMMA PageBy ==
    ASSUME PageInv, NEW t \in Tabs, Elsewhere(t), PageAt(t)'
    PROVE  PageInv'
BY DEF PageInv, PageAt, Elsewhere

LEMMA KeepsBy ==
    ASSUME TypeOK, NEW t \in Tabs, Elsewhere(t), KeepsAt(t)
    PROVE  Keeps
<1>1. \A c \in InUse' : c \in InUse \/ Brought(c)
  <2>1. SUFFICES ASSUME NEW c \in InUse' PROVE c \in InUse \/ Brought(c)
    OBVIOUS
  <2>2. CASE \E a \in Accounts : slot'[a] = c /\ c # None
    BY <2>2, HeldTypes DEF KeepsAt
  <2>3. CASE \E u \in Tabs : session'[u] = c /\ c # None
    BY <2>3, HeldTypes DEF KeepsAt, Elsewhere
  <2>4. CASE \E u \in Tabs : resume'[u] # None /\ resume'[u].cred = c
    BY <2>4, HeldTypes DEF KeepsAt, Elsewhere
  <2>5. QED  BY <2>2, <2>3, <2>4 DEF InUse
<1>2. CompleteKept
  <2>1. \A u \in Tabs \ {t} : complete'[u] = complete[u]
    BY DEF Elsewhere
  <2>2. QED  BY <2>1 DEF KeepsAt, CompleteKept, CompletionAt
<1>3. \A u \in Tabs : \A g \in Untaken(u)' : g \in Untaken(u) /\ Rotating(u)' = Rotating(u)
  BY UntakenElsewhere DEF KeepsAt
<1>4. \A u \in Tabs : Untaken(u) \subseteq Untaken(u)' \cup strayed'
  BY UntakenElsewhere DEF KeepsAt
<1>5. QED  BY <1>1, <1>2, <1>3, <1>4 DEF Keeps, KeepsAt

\* A step that keeps all tokens and saves none.
LEMMA StepBy ==
    ASSUME LiveInv, NEW t \in Tabs, Elsewhere(t), KeepsAt(t), PageAt(t)',
           \A a \in Accounts : slot'[a] # None => slot'[a] = slot[a]
    PROVE  PageInv' /\ GrantInv' /\ SavedIsLive'
<1>1. Keeps
  BY KeepsBy DEF LiveInv
<1>2. QED  BY <1>1, PageBy, KeepsGrant, KeepsSaved DEF LiveInv

\* The stored functions, where a step looks at one of their values.
Functions == /\ slot \in [Accounts -> Credentials \cup {None}]
             /\ pointer \in [Tabs -> Accounts \cup {None}]
             /\ session \in [Tabs -> Credentials \cup {None}]
             /\ resume \in [Tabs -> Resumes \cup {None}]
             /\ complete \in [Tabs -> Completions \cup {None}]
             /\ renewal \in [Tabs -> {"none", "rotated", "refused", "failed"}]

LEMMA ForgetTabFacts ==
    ASSUME TypeOK, NEW t \in Tabs, ForgetTab(t)
    PROVE  /\ \A a \in Accounts : slot'[a] # None => slot'[a] = slot[a]
           /\ \A u \in Tabs \ {t} : pointer'[u] = pointer[u]
BY DEF ForgetTab, Forget, TypeOK, storage

\* The tokens of c saved by t, whose account is that of c.
LEMMA SavesTokens ==
    ASSUME TypeOK, NEW t \in Tabs, NEW c \in Credentials, SaveTokens(t, c),
           pointer[t] = c.did
    PROVE  /\ \A a \in Accounts :
                \/ slot'[a] = slot[a] /\ (slot[a] = None \/ a # c.did)
                \/ slot'[a].grant = c.grant /\ slot'[a].gen = c.gen
           /\ \A a \in Accounts : slot'[a] # None =>
                \/ slot'[a] = slot[a]
                \/ /\ slot'[a].grant = c.grant /\ slot'[a].gen = c.gen
                   /\ slot'[a].did = c.did
<1>1. /\ slot \in [Accounts -> Credentials \cup {None}] /\ c.did \in Accounts
      /\ \A a \in Accounts : slot[a] # None => slot[a].did = a
  BY CredentialFacts DEF TypeOK
<1>2. CASE slot[c.did] = None
  <2>1. slot' = slot
    BY <1>1, <1>2, NoneFacts DEF SaveTokens, Saved
  <2>2. QED  BY <1>2, <2>1
<1>3. CASE slot[c.did] # None
  <2>1. slot' = [slot EXCEPT ![c.did] = Retokened(@, c)]
    BY <1>1, <1>3, NoneFacts DEF SaveTokens, Saved
  <2>2. /\ slot'[c.did] = Retokened(slot[c.did], c)
        /\ \A a \in Accounts \ {c.did} : slot'[a] = slot[a]
    BY <1>1, <2>1
  <2>3. QED  BY <1>1, <1>3, <2>2, RetokenedType
<1>4. QED  BY <1>2, <1>3

LEMMA LivePage ==
    ASSUME LiveInv, NEW t \in Tabs,
           Load(t) \/ CheckResume(t) \/ Continue(t) \/ ForgetOffer(t) \/ Retry(t)
    PROVE  PageInv' /\ GrantInv' /\ SavedIsLive'
<1>1. Functions /\ TypeOK /\ Pending /\ PageAt(t)
  BY DEF Functions, LiveInv, TypeOK, PageInv
<1>2. CASE Load(t)
  <2>1. Elsewhere(t) /\ PageAt(t)'
    BY <1>1, <1>2 DEF Load, PageGone, Elsewhere, PageAt, Functions, storage
  <2>2. Untaken(t)' = {} /\ Untaken(t) \subseteq strayed' /\ strayed \subseteq strayed'
    BY <1>1, <1>2 DEF Load, PageGone, Untaken, AtStage, Functions
  <2>3. KeepsAt(t) /\ slot' = slot
    BY <1>1, <1>2, <2>2 DEF Load, PageGone, KeepsAt, CompletionAt, Functions, storage, server
  <2>4. QED  BY <2>1, <2>3, StepBy
<1>3. CASE CheckResume(t)
  <2>1. /\ resume[t] = None /\ session[t] = None /\ complete[t] = None /\ renewal[t] = "none"
        /\ Decide(t) /\ UNCHANGED <<storage, complete, game, server, strayed>>
    BY <1>1, <1>3 DEF CheckResume, Pending, Functions
  <2>2. /\ \A u \in Tabs \ {t} : resume'[u] = resume[u]
        /\ \/ resume'[t] = None
           \/ /\ pointer[t] \in Accounts /\ slot[pointer[t]] # None
              /\ resume'[t] = [cred |-> slot[pointer[t]], stage |-> "asked"]
    BY <1>1, <2>1 DEF Decide, Saved, Functions
  <2>3. resume'[t] # None => resume'[t].cred \in InUse /\ resume'[t].cred.did = pointer[t]
                             /\ resume'[t].stage = "asked"
    BY <1>1, <2>2, HeldTypes DEF TypeOK
  <2>4. Elsewhere(t) /\ PageAt(t)'
    BY <2>1, <2>2, <2>3 DEF Elsewhere, PageAt, storage, game
  <2>5. Untaken(t) = {} /\ Untaken(t)' = {}
    BY <2>1, <2>3 DEF Untaken, AtStage, game
  <2>6. KeepsAt(t) /\ slot' = slot
    BY <2>1, <2>3, <2>5 DEF KeepsAt, CompletionAt, storage, game, server
  <2>7. QED  BY <2>4, <2>6, StepBy
<1>4. CASE Continue(t) \/ ForgetOffer(t) \/ Retry(t)
  <2>1. /\ Idle(t) \/ UNCHANGED pointer
        /\ UNCHANGED <<tasks, game, server, strayed>>
        /\ \A u \in Tabs \ {t} : pointer'[u] = pointer[u]
        /\ \A a \in Accounts : slot'[a] # None => slot'[a] = slot[a]
    BY <1>1, <1>4 DEF Continue, ForgetOffer, Retry, Claim, Forget, Functions, storage, tasks, game
  <2>2. Elsewhere(t) /\ PageAt(t)'
    BY <1>1, <2>1 DEF Elsewhere, PageAt, Idle, tasks, game
  <2>3. Untaken(t)' = Untaken(t) /\ Rotating(t)' = Rotating(t)
    BY <2>1 DEF Untaken, Rotating, AtStage, tasks, game
  <2>4. KeepsAt(t)
    BY <1>1, <2>1, <2>3, HeldTypes DEF KeepsAt, CompletionAt, tasks, game, server
  <2>5. QED  BY <2>1, <2>2, <2>4, StepBy
<1>5. QED  BY <1>2, <1>3, <1>4

LEMMA LiveResume ==
    ASSUME LiveInv, NEW t \in Tabs,
           \/ ResumeAsks(t) \/ ResumeTakes(t) \/ ResumeJoins(t) \/ ResumeGivesUp(t)
           \/ NotYou(t) \/ PollResume(t)
    PROVE  PageInv' /\ GrantInv' /\ SavedIsLive'
<1>1. Functions /\ TypeOK /\ Pending /\ PageAt(t)
  BY DEF Functions, LiveInv, TypeOK, PageInv
<1> DEFINE c == resume[t].cred
<1>2. /\ resume[t] \in Resumes /\ c \in Credentials /\ c \in InUse
      /\ resume[t] # None /\ session[t] = None /\ complete[t] = None /\ renewal[t] = "none"
      /\ pointer[t] = c.did
  <2>1. resume[t] # None
    BY DEF ResumeAsks, ResumeTakes, ResumeJoins, ResumeGivesUp, NotYou, PollResume, AtStage
  <2>2. QED  BY <1>1, <2>1, NoneFacts, HeldTypes DEF Functions, PageAt, Pending
<1> HIDE DEF c
<1>3. /\ Untaken(t) = IF resume[t].stage = "rotated" THEN {c.grant} ELSE {}
      /\ Rotating(t) = c
  BY <1>2 DEF Untaken, Rotating, AtStage, c
<1>4. ASSUME NEW stage \in {"refused", "failed", "joining", "done"},
             resume[t].stage # "rotated",
             resume' = [resume EXCEPT ![t] = Moved(@, stage)],
             UNCHANGED <<storage, complete, game, server, strayed>>
      PROVE  PageInv' /\ GrantInv' /\ SavedIsLive'
  <2>1. /\ \A u \in Tabs \ {t} : resume'[u] = resume[u]
        /\ resume'[t] # None /\ resume'[t].cred = c /\ resume'[t].stage = stage
    BY <1>1, <1>2, <1>4, MovedType, NoneFacts DEF Functions, c
  <2>2. Elsewhere(t) /\ PageAt(t)'
    BY <1>2, <1>4, <2>1 DEF Elsewhere, PageAt, storage, game
  <2>3. Untaken(t) = {} /\ Untaken(t)' = {}
    BY <1>2, <1>3, <1>4, <2>1 DEF Untaken, AtStage, game
  <2>4. KeepsAt(t) /\ slot' = slot
    BY <1>2, <1>4, <2>1, <2>3 DEF KeepsAt, CompletionAt, storage, game, server
  <2>5. QED  BY <2>2, <2>4, StepBy
<1>5. CASE ResumeAsks(t)
  <2>1. resume[t].stage = "asked" /\ UNCHANGED <<storage, complete, game, issued, revoked, strayed>>
    BY <1>5 DEF ResumeAsks, AtStage
  <2>2. CASE resume' = [resume EXCEPT ![t] = Moved(@, "joining")] /\ UNCHANGED rotations
    BY <1>4, <2>1, <2>2 DEF server
  <2>3. CASE \E said \in {"refused", "failed"} :
               Refreshes(c, said) /\ resume' = [resume EXCEPT ![t] = Moved(@, said)]
    <3>1. PICK said \in {"refused", "failed"} :
            Refreshes(c, said) /\ resume' = [resume EXCEPT ![t] = Moved(@, said)]
      BY <2>3
    <3>2. UNCHANGED rotations
      BY <3>1 DEF Refreshes
    <3>3. QED  BY <1>4, <2>1, <3>1, <3>2 DEF server
  <2>4. CASE Refreshes(c, "rotated") /\ resume' = [resume EXCEPT ![t] = Moved(@, "rotated")]
    <3>1. /\ \A u \in Tabs \ {t} : resume'[u] = resume[u]
          /\ resume'[t] # None /\ resume'[t].cred = c /\ resume'[t].stage = "rotated"
      BY <1>1, <1>2, <2>4, MovedType, NoneFacts DEF Functions, c
    <3>2. Elsewhere(t) /\ PageAt(t)'
      BY <1>2, <2>1, <3>1 DEF Elsewhere, PageAt, storage, game
    <3>3. Untaken(t) = {} /\ Untaken(t)' = {c.grant} /\ Rotating(t)' = c
      BY <1>2, <1>3, <2>1, <3>1 DEF Untaken, Rotating, AtStage, game
    <3>4. InUse' \subseteq InUse
      <4>1. \A u \in Tabs : resume'[u] # None => resume'[u].cred \in InUse
        BY <1>1, <1>2, <3>1, HeldTypes
      <4>2. QED  BY <2>1, <4>1 DEF InUse, storage, game
    <3>5. c.gen = rotations[c.grant] /\ rotations' = [rotations EXCEPT ![c.grant] = @ + 1]
      BY <2>4 DEF Refreshes, Refreshable
    <3>6. Rotates(t, c)
      BY <1>2, <2>1, <3>2, <3>3, <3>4, <3>5, UntakenElsewhere DEF Rotates, storage
    <3>7. QED  BY <3>2, <3>6, PageBy, RotatesGrant DEF LiveInv
  <2>5. QED  BY <1>5, <2>2, <2>3, <2>4 DEF ResumeAsks, c
<1>6. CASE ResumeTakes(t)
  <2>1. UNCHANGED <<complete, game, server, strayed>>
    BY <1>6 DEF ResumeTakes
  <2>2. CASE resume[t].stage = "rotated"
    <3> DEFINE new == Rotated(c)
    <3>1. /\ resume' = [resume EXCEPT ![t] = [cred |-> new, stage |-> "joining"]]
          /\ SaveTokens(t, new) /\ UNCHANGED <<last, pointer>>
      BY <1>6, <2>2 DEF ResumeTakes, AtStage, c
    <3>2. /\ new \in Credentials /\ new.grant = c.grant /\ new.did = c.did
          /\ new.gen = c.gen + 1 /\ new # None
      BY <1>1, <1>2, <2>2, RotatedType, NoneFacts DEF Pending, AtStage, c
    <3> HIDE DEF new
    <3>3. /\ \A u \in Tabs \ {t} : resume'[u] = resume[u]
          /\ resume'[t] # None /\ resume'[t].cred = new /\ resume'[t].stage = "joining"
      <4>1. resume'[t] = [cred |-> new, stage |-> "joining"]
        BY <1>1, <3>1 DEF Functions
      <4>2. [cred |-> new, stage |-> "joining"] \in Resumes
        BY <3>2 DEF Resumes
      <4>3. QED  BY <1>1, <3>1, <4>1, <4>2, NoneFacts DEF Functions
    <3>4. Elsewhere(t) /\ PageAt(t)'
      BY <1>2, <2>1, <3>1, <3>2, <3>3 DEF Elsewhere, PageAt, game
    <3>5. Untaken(t) = {c.grant} /\ Untaken(t)' = {} /\ Rotating(t) = c
      BY <1>2, <1>3, <2>1, <2>2, <3>3 DEF Untaken, AtStage, game
    <3>6. /\ \A a \in Accounts :
               \/ slot'[a] = slot[a] /\ (slot[a] = None \/ a # c.did)
               \/ slot'[a].grant = c.grant /\ slot'[a].gen = c.gen + 1
          /\ \A a \in Accounts : slot'[a] # None =>
               \/ slot'[a] = slot[a]
               \/ /\ slot'[a].grant = c.grant /\ slot'[a].gen = c.gen + 1
                  /\ slot'[a].did = c.did
      <4>1. pointer[t] = new.did
        BY <1>2, <3>2
      <4>2. QED  BY <1>1, <3>1, <3>2, <4>1, SavesTokens
    <3>7. \A x \in InUse' :
            x \in InUse \/ (x.grant = c.grant /\ x.gen = c.gen + 1 /\ x.did = c.did)
      BY <1>1, <2>1, <3>2, <3>3, <3>6, HeldTypes DEF InUse, game
    <3>8. Takes(t)
      BY <2>1, <3>4, <3>5, <3>6, <3>7, UntakenElsewhere DEF Takes, server
    <3>9. QED  BY <3>4, <3>8, PageBy, TakesGrant DEF LiveInv
  <2>3. CASE resume[t].stage # "rotated"
    <3>1. resume' = [resume EXCEPT ![t] = None] /\ ForgetTab(t)
      BY <1>6, <2>3 DEF ResumeTakes, AtStage
    <3>2. Elsewhere(t) /\ PageAt(t)' /\ resume'[t] = None
      BY <1>1, <1>2, <2>1, <3>1, ForgetTabFacts DEF Elsewhere, PageAt, Functions, game
    <3>3. Untaken(t) = {} /\ Untaken(t)' = {}
      BY <1>2, <1>3, <2>1, <2>3, <3>2 DEF Untaken, AtStage, game
    <3>4. KeepsAt(t)
      BY <1>1, <1>2, <2>1, <3>1, <3>2, <3>3, ForgetTabFacts
         DEF KeepsAt, CompletionAt, game, server
    <3>5. QED  BY <1>1, <3>1, <3>2, <3>4, StepBy, ForgetTabFacts
  <2>4. QED  BY <2>2, <2>3
<1>7. CASE ResumeJoins(t)
  BY <1>4, <1>7 DEF ResumeJoins, AtStage
<1>8. CASE ResumeGivesUp(t) \/ NotYou(t)
  <2>1. /\ resume' = [resume EXCEPT ![t] = None]
        /\ strayed' = strayed \cup Untaken(t)
        /\ UNCHANGED <<complete, game, server>>
        /\ \A a \in Accounts : slot'[a] # None => slot'[a] = slot[a]
        /\ \A u \in Tabs \ {t} : pointer'[u] = pointer[u]
    BY <1>1, <1>8, ForgetTabFacts DEF ResumeGivesUp, NotYou, storage
  <2>2. Elsewhere(t) /\ PageAt(t)' /\ resume'[t] = None
    BY <1>1, <1>2, <2>1 DEF Elsewhere, PageAt, Functions, game
  <2>3. Untaken(t)' = {}
    BY <1>2, <2>1, <2>2 DEF Untaken, AtStage, game
  <2>4. KeepsAt(t)
    BY <1>2, <2>1, <2>2, <2>3 DEF KeepsAt, CompletionAt, game, server
  <2>5. QED  BY <2>1, <2>2, <2>4, StepBy
<1>9. CASE PollResume(t)
  <2>1. /\ resume[t].stage = "done" /\ resume' = [resume EXCEPT ![t] = None]
        /\ session' = [session EXCEPT ![t] = c]
        /\ UNCHANGED <<storage, complete, renewal, server, strayed>>
    BY <1>9 DEF PollResume, Install, AtStage, c
  <2>2. Elsewhere(t) /\ PageAt(t)' /\ resume'[t] = None /\ session'[t] = c
    BY <1>1, <1>2, <2>1 DEF Elsewhere, PageAt, Functions, storage
  <2>3. Untaken(t) = {} /\ Untaken(t)' = {}
    BY <1>2, <1>3, <2>1, <2>2 DEF Untaken, AtStage
  <2>4. KeepsAt(t) /\ slot' = slot
    BY <1>2, <2>1, <2>2, <2>3 DEF KeepsAt, CompletionAt, storage, server
  <2>5. QED  BY <2>2, <2>4, StepBy
<1>10. QED  BY <1>5, <1>6, <1>7, <1>8, <1>9

\* A sign-in makes a grant that nobody holds yet.
LEMMA SignInGrants ==
    ASSUME LiveInv, ~SignInOver, NEW t \in Tabs, NEW a \in Accounts, SignIn(t, a)
    PROVE  PageInv' /\ GrantInv' /\ SavedIsLive'
<1> DEFINE g == Len(issued) + 1
           c == [did |-> a, key |-> g, grant |-> g, gen |-> 0]
           new == [cred |-> c, stage |-> "exchanged"]
<1>1. Functions /\ TypeOK /\ issued \in Seq(Accounts) /\ Len(issued) < MaxGrants
  BY DEF Functions, LiveInv, TypeOK, SignIn
<1>2. /\ issued' = Append(issued, a) /\ Len(issued') = g
      /\ complete' = [complete EXCEPT ![t] = new]
      /\ UNCHANGED <<slot, last, pointer, rotations>>
      /\ PageGone(t)
  BY <1>1 DEF SignIn, storage
<1>3. resume' = [resume EXCEPT ![t] = None]
  BY DEF SignIn, Decide
<1>4. /\ Len(issued) \in Nat /\ g \in Grants /\ issued'[g] = a
      /\ \A h \in 1..Len(issued) : issued'[h] = issued[h]
  BY <1>1, <1>2, TabSessionsAssumption DEF Grants
<1>5. new \in Completions /\ new # None /\ new.cred = c /\ new.stage = "exchanged"
  <2>1. new \in Completions
    BY <1>4, TabSessionsAssumption DEF Completions, Credentials
  <2>2. QED  BY <2>1, NoneFacts
<1>6. c.did = a /\ c.grant = g /\ c.gen = 0
  OBVIOUS
<1> HIDE DEF c, new
<1>7. /\ complete'[t] = new /\ session'[t] = None /\ resume'[t] = None
      /\ renewal'[t] = "none" /\ strayed' = strayed \cup Untaken(t)
  BY <1>1, <1>2, <1>3 DEF PageGone, Functions
<1>9. Elsewhere(t)
  BY <1>1, <1>2, <1>3 DEF PageGone, Functions, Elsewhere
<1>10. PageInv'
  <2>1. PageAt(t)'
    BY <1>5, <1>7 DEF PageAt
  <2>2. QED  BY <1>9, <2>1, PageBy DEF LiveInv
<1>11. InUse' \subseteq InUse /\ Held' \subseteq Held \cup {c}
  <2>1. InUse' \subseteq InUse
    BY <1>2, <1>7, <1>9 DEF InUse, Elsewhere
  <2>2. QED  BY <1>5, <1>7, <1>9, <2>1 DEF Held, Elsewhere
<1>12. \A x \in Held : /\ x.grant \in 1..Len(issued) /\ issued[x.grant] = x.did
                       /\ x.gen <= rotations[x.grant] /\ x.grant # g
  BY <1>4 DEF LiveInv, GrantInv, HeldInv
<1>13. rotations[g] = 0
  BY <1>4 DEF LiveInv, GrantInv, UnmadeInv
<1>14. HeldInv'
  BY <1>2, <1>4, <1>6, <1>11, <1>12, <1>13 DEF HeldInv
<1>15. UnmadeInv'
  BY <1>2, <1>4 DEF LiveInv, GrantInv, UnmadeInv, Grants
<1>16. /\ Untaken(t)' = {}
       /\ \A u \in Tabs \ {t} : Untaken(u)' = Untaken(u) /\ Rotating(u)' = Rotating(u)
  BY <1>7, <1>9, UntakenElsewhere DEF Untaken, AtStage
<1>17. UntakenInv'
  <2>1. SUFFICES ASSUME NEW u \in Tabs, NEW h \in Untaken(u)'
                 PROVE  /\ Rotating(u)'.grant = h /\ Rotating(u)'.gen + 1 = rotations[h]
                        /\ \A x \in Held' : x.grant = h => x.gen < rotations[h]
                        /\ \A w \in Tabs : h \in Untaken(w)' => w = u
    BY <1>2 DEF UntakenInv
  <2>2. h \in Untaken(u) /\ Rotating(u)' = Rotating(u)
    BY <1>16, <2>1
  <2>3. /\ Rotating(u).grant = h /\ Rotating(u).gen + 1 = rotations[h]
        /\ \A x \in Held : x.grant = h => x.gen < rotations[h]
        /\ \A w \in Tabs : h \in Untaken(w) => w = u
    BY <2>2 DEF LiveInv, GrantInv, UntakenInv
  <2>4. h # g
    <3>1. PICK x \in InUse : x = Rotating(u)
      <4>1. CASE renewal[u] = "rotated"
        BY <4>1, HeldTypes DEF LiveInv, Pending, Rotating
      <4>2. CASE renewal[u] # "rotated"
        <5>1. resume[u] # None
          BY <2>2, <4>2 DEF Untaken, AtStage
        <5>2. QED  BY <4>2, <5>1, HeldTypes DEF LiveInv, Rotating
      <4>3. QED  BY <4>1, <4>2
    <3>2. QED  BY <1>1, <1>12, <2>3, <3>1, HeldTypes
  <2>5. \A w \in Tabs : h \in Untaken(w)' => w = u
    BY <1>16, <2>3
  <2>6. QED  BY <1>6, <1>11, <2>2, <2>3, <2>4, <2>5
<1>18. ExchangedInv'
  <2>1. SUFFICES ASSUME NEW u \in Tabs, CompletionAt(u, "exchanged")'
                 PROVE  /\ complete'[u].cred.gen = 0 /\ rotations[complete'[u].cred.grant] = 0
                        /\ \A x \in InUse' : x.grant # complete'[u].cred.grant
                        /\ \A w \in Tabs :
                             complete'[w] # None
                               /\ complete'[w].cred.grant = complete'[u].cred.grant => w = u
    BY <1>2 DEF ExchangedInv
  <2>2. \A w \in Tabs \ {t} : complete'[w] # None => complete'[w].cred.grant # g
    BY <1>1, <1>9, <1>12, HeldTypes DEF Elsewhere
  <2>3. CASE u = t
    BY <1>1, <1>5, <1>6, <1>7, <1>11, <1>12, <1>13, <2>2, <2>3, HeldTypes
  <2>4. CASE u # t
    <3>1. complete'[u] = complete[u] /\ CompletionAt(u, "exchanged")
      BY <1>9, <2>1, <2>4 DEF Elsewhere, CompletionAt
    <3>2. /\ complete[u].cred.gen = 0 /\ rotations[complete[u].cred.grant] = 0
          /\ \A x \in InUse : x.grant # complete[u].cred.grant
          /\ \A w \in Tabs :
               complete[w] # None /\ complete[w].cred.grant = complete[u].cred.grant => w = u
      BY <3>1 DEF LiveInv, GrantInv, ExchangedInv
    <3>3. complete'[u] # None
      BY <2>1 DEF CompletionAt
    <3>4. \A w \in Tabs :
            complete'[w] # None /\ complete'[w].cred.grant = complete[u].cred.grant => w = u
      BY <1>5, <1>6, <1>7, <1>9, <2>2, <2>4, <3>1, <3>2, <3>3 DEF Elsewhere
    <3>5. QED  BY <1>11, <3>1, <3>2, <3>4
  <2>5. QED  BY <2>3, <2>4
<1>19. SavedIsLive'
  <2>1. \A u \in Tabs : Untaken(u) \subseteq Untaken(u)' \cup strayed'
    BY <1>7, <1>16
  <2>2. QED  BY <1>2, <1>7, <2>1 DEF LiveInv, SavedIsLive
<1>20. QED  BY <1>10, <1>14, <1>15, <1>17, <1>18, <1>19 DEF GrantInv

LEMMA LiveSignIn ==
    ASSUME LiveInv, ~SignInOver, NEW t \in Tabs,
           \/ \E a \in Accounts : SignIn(t, a)
           \/ CompleteSaves(t) \/ CompleteJoins(t) \/ CompleteFails(t) \/ PollComplete(t)
    PROVE  PageInv' /\ GrantInv' /\ SavedIsLive'
<1>1. Functions /\ TypeOK /\ Pending /\ PageAt(t)
  BY DEF Functions, LiveInv, TypeOK, PageInv
<1>2. CASE \E a \in Accounts : SignIn(t, a)
  BY <1>2, SignInGrants
<1>3. SUFFICES ASSUME CompleteSaves(t) \/ CompleteJoins(t) \/ CompleteFails(t) \/ PollComplete(t)
               PROVE  PageInv' /\ GrantInv' /\ SavedIsLive'
  BY <1>2
<1> DEFINE c == complete[t].cred
<1>4. /\ complete[t] \in Completions /\ c \in Credentials /\ c # None
      /\ complete[t] # None /\ session[t] = None /\ resume[t] = None /\ renewal[t] = "none"
      /\ c.did \in Accounts
  <2>1. complete[t] # None
    BY <1>3 DEF CompleteSaves, CompleteJoins, CompleteFails, PollComplete, CompletionAt
  <2>2. QED  BY <1>1, <2>1, NoneFacts, CredentialFacts DEF Functions, PageAt, Pending
<1> HIDE DEF c
<1>5. CASE CompleteSaves(t)
  <2>1. /\ complete[t].stage = "exchanged"
        /\ slot' = [slot EXCEPT ![c.did] = c] /\ pointer' = [pointer EXCEPT ![t] = c.did]
        /\ complete' = [complete EXCEPT ![t] = Moved(@, "joining")]
        /\ UNCHANGED <<resume, game, server, strayed>>
    BY <1>5 DEF CompleteSaves, CompletionAt, Claim, c
  <2>2. /\ complete'[t] # None /\ complete'[t].cred = c /\ complete'[t].stage = "joining"
        /\ \A u \in Tabs \ {t} : complete'[u] = complete[u]
    BY <1>1, <1>4, <2>1, MovedType, NoneFacts DEF Functions, c
  <2>3. Elsewhere(t) /\ PageAt(t)'
    BY <1>1, <1>4, <2>1, <2>2 DEF Elsewhere, PageAt, Functions, game
  <2>4. Brought(c)
    BY <1>4, <2>2 DEF Brought, CompletionAt, c
  <2>5. slot'[c.did] = c /\ \A a \in Accounts \ {c.did} : slot'[a] = slot[a]
    BY <1>1, <1>4, <2>1 DEF Functions
  <2>6. Untaken(t) = {} /\ Untaken(t)' = {}
    BY <1>4, <2>1 DEF Untaken, AtStage, game
  <2>7. KeepsAt(t)
    <3>1. \A a \in Accounts : slot'[a] # None => slot'[a] = slot[a] \/ Brought(slot'[a])
      BY <2>4, <2>5
    <3>2. QED  BY <1>4, <2>1, <2>2, <2>6, <3>1 DEF KeepsAt, CompletionAt, game, server, c
  <2>8. c.gen = rotations[c.grant]
    BY <1>4, <2>1 DEF LiveInv, GrantInv, ExchangedInv, CompletionAt, c
  <2>9. Keeps
    BY <1>1, <2>3, <2>7, KeepsBy
  <2>10. \A a \in Accounts : slot'[a] # None =>
            slot'[a] = slot[a] \/ slot'[a].gen = rotations[slot'[a].grant]
    BY <2>5, <2>8
  <2>11. QED  BY <2>3, <2>9, <2>10, PageBy, KeepsGrant, KeepsSaved DEF LiveInv
<1>6. ASSUME NEW new, UNCHANGED <<storage, resume, renewal, server, strayed>>,
             complete' = [complete EXCEPT ![t] = new],
             complete[t].stage # "exchanged" \/ new = None,
             new = None \/ (new.cred = c /\ new.stage = "done"),
             \/ session' = session
             \/ session' = [session EXCEPT ![t] = c] /\ new = None /\ pointer[t] = c.did
      PROVE  PageInv' /\ GrantInv' /\ SavedIsLive'
  <2>1. /\ complete'[t] = new /\ \A u \in Tabs \ {t} : complete'[u] = complete[u]
        /\ \A u \in Tabs \ {t} : session'[u] = session[u]
        /\ session'[t] = None \/ (session'[t] = c /\ new = None /\ pointer[t] = c.did)
    BY <1>1, <1>4, <1>6 DEF Functions
  <2>2. Elsewhere(t) /\ PageAt(t)'
    BY <1>1, <1>4, <1>6, <2>1 DEF Elsewhere, PageAt, storage, c
  <2>3. ~CompletionAt(t, "exchanged")'
    BY <1>6, <2>1 DEF CompletionAt
  <2>4. Brought(c)
    BY <1>4, <2>3 DEF Brought, c
  <2>5. Untaken(t) = {} /\ Untaken(t)' = {}
    BY <1>4, <1>6 DEF Untaken, AtStage
  <2>6. KeepsAt(t) /\ slot' = slot
    BY <1>4, <1>6, <2>1, <2>3, <2>4, <2>5 DEF KeepsAt, storage, server, c
  <2>7. QED  BY <2>2, <2>6, StepBy
<1>7. CASE CompleteJoins(t)
  <2>1. Moved(complete[t], "done").cred = c /\ Moved(complete[t], "done").stage = "done"
    BY <1>4, MovedType DEF c
  <2>2. /\ complete' = [complete EXCEPT ![t] = Moved(complete[t], "done")]
        /\ complete[t].stage # "exchanged"
        /\ UNCHANGED <<storage, resume, renewal, session, server, strayed>>
    BY <1>7 DEF CompleteJoins, CompletionAt, game
  <2>3. QED  BY <1>6, <2>1, <2>2
<1>8. CASE CompleteFails(t)
  <2>1. /\ complete' = [complete EXCEPT ![t] = None]
        /\ UNCHANGED <<storage, resume, renewal, session, server, strayed>>
    BY <1>8 DEF CompleteFails, game
  <2>2. QED  BY <1>6, <2>1
<1>9. CASE PollComplete(t)
  <2>1. /\ complete' = [complete EXCEPT ![t] = None]
        /\ session' = [session EXCEPT ![t] = c]
        /\ UNCHANGED <<storage, resume, renewal, server, strayed>>
        /\ complete[t].stage = "done"
    BY <1>9 DEF PollComplete, Install, CompletionAt, c
  <2>2. pointer[t] = c.did
    BY <1>1, <1>4, <2>1 DEF PageAt, c
  <2>3. QED  BY <1>6, <2>1, <2>2
<1>10. QED  BY <1>3, <1>5, <1>7, <1>8, <1>9

LEMMA LiveSession ==
    ASSUME LiveInv, NEW t \in Tabs,
           AskRefresh(t) \/ Refreshed(t) \/ RefreshDropped(t) \/ Logout(t)
    PROVE  PageInv' /\ GrantInv' /\ SavedIsLive'
<1>1. Functions /\ TypeOK /\ Pending /\ PageAt(t)
  BY DEF Functions, LiveInv, TypeOK, PageInv
<1> DEFINE c == session[t]
<1>2. /\ c \in Credentials /\ c \in InUse /\ c # None
      /\ resume[t] = None /\ complete[t] = None /\ pointer[t] = c.did
  <2>1. session[t] # None
    BY <1>1 DEF AskRefresh, Refreshed, RefreshDropped, Logout, Pending
  <2>2. QED  BY <1>1, <2>1, HeldTypes DEF Functions, PageAt
<1> HIDE DEF c
<1>3. /\ Untaken(t) = IF renewal[t] = "rotated" THEN {c.grant} ELSE {}
      /\ renewal[t] = "rotated" => Rotating(t) = c
  BY <1>2 DEF Untaken, Rotating, AtStage, c
<1>4. ASSUME UNCHANGED <<resume, complete, issued, rotations>>,
             \A u \in Tabs \ {t} : session'[u] = session[u] /\ renewal'[u] = renewal[u]
                                       /\ pointer'[u] = pointer[u],
             session'[t] = None \/ (session'[t] = c /\ pointer' = pointer),
             renewal'[t] # "rotated",
             strayed \subseteq strayed', Untaken(t) \subseteq strayed',
             \A a \in Accounts : slot'[a] # None => slot'[a] = slot[a]
      PROVE  PageInv' /\ GrantInv' /\ SavedIsLive'
  <2>1. Elsewhere(t) /\ PageAt(t)'
    BY <1>2, <1>4 DEF Elsewhere, PageAt
  <2>2. Untaken(t)' = {}
    BY <1>2, <1>4 DEF Untaken, AtStage
  <2>3. KeepsAt(t)
    BY <1>2, <1>4, <2>2 DEF KeepsAt, CompletionAt
  <2>4. QED  BY <1>4, <2>1, <2>3, StepBy
<1>5. CASE AskRefresh(t)
  <2>1. /\ renewal[t] = "none"
        /\ UNCHANGED <<storage, tasks, session, issued, revoked, strayed>>
    BY <1>5 DEF AskRefresh
  <2>2. PICK said \in {"rotated", "refused", "failed"} :
          Refreshes(c, said) /\ renewal' = [renewal EXCEPT ![t] = said]
    BY <1>5 DEF AskRefresh, c
  <2>3. renewal'[t] = said /\ \A u \in Tabs \ {t} : renewal'[u] = renewal[u]
    BY <1>1, <2>2 DEF Functions
  <2>4. CASE said # "rotated"
    <3>1. UNCHANGED rotations
      BY <2>2, <2>4 DEF Refreshes
    <3>2. Untaken(t) = {}
      BY <1>3, <2>1
    <3>3. QED  BY <1>4, <2>1, <2>3, <2>4, <3>1, <3>2 DEF storage, tasks, c
  <2>5. CASE said = "rotated"
    <3>1. Elsewhere(t) /\ PageAt(t)'
      BY <1>1, <1>2, <2>1, <2>3 DEF Elsewhere, PageAt, storage, tasks
    <3>2. Untaken(t) = {} /\ Untaken(t)' = {c.grant} /\ Rotating(t)' = c
      BY <1>2, <1>3, <2>1, <2>3, <2>5 DEF Untaken, Rotating, AtStage, tasks, c
    <3>3. InUse' \subseteq InUse
      BY <2>1 DEF InUse, storage, tasks
    <3>4. c.gen = rotations[c.grant] /\ rotations' = [rotations EXCEPT ![c.grant] = @ + 1]
      BY <2>2, <2>5 DEF Refreshes, Refreshable
    <3>5. Rotates(t, c)
      BY <1>2, <2>1, <3>1, <3>2, <3>3, <3>4, UntakenElsewhere DEF Rotates, storage, tasks
    <3>6. QED  BY <3>1, <3>5, PageBy, RotatesGrant DEF LiveInv
  <2>6. QED  BY <2>4, <2>5
<1>6. CASE Refreshed(t)
  <2>1. /\ renewal' = [renewal EXCEPT ![t] = "none"]
        /\ UNCHANGED <<last, pointer, tasks, server, strayed>>
    BY <1>6 DEF Refreshed
  <2>2. renewal'[t] = "none" /\ \A u \in Tabs \ {t} : renewal'[u] = renewal[u]
    BY <1>1, <2>1 DEF Functions
  <2>3. CASE renewal[t] # "rotated"
    <3>1. UNCHANGED <<session, slot>>
      BY <1>6, <2>3 DEF Refreshed
    <3>2. QED  BY <1>3, <1>4, <2>1, <2>2, <2>3, <3>1 DEF tasks, server, c
  <2>4. CASE renewal[t] = "rotated"
    <3> DEFINE new == Rotated(c)
    <3>1. session' = [session EXCEPT ![t] = new] /\ SaveTokens(t, new)
      BY <1>6, <2>4 DEF Refreshed, c
    <3>2. /\ new \in Credentials /\ new.grant = c.grant /\ new.did = c.did
          /\ new.gen = c.gen + 1 /\ new # None
      BY <1>1, <1>2, <2>4, RotatedType, NoneFacts DEF Pending, c
    <3> HIDE DEF new
    <3>3. session'[t] = new /\ \A u \in Tabs \ {t} : session'[u] = session[u]
      BY <1>1, <3>1 DEF Functions
    <3>4. Elsewhere(t) /\ PageAt(t)'
      BY <1>2, <2>1, <2>2, <3>2, <3>3 DEF Elsewhere, PageAt, tasks
    <3>5. Untaken(t) = {c.grant} /\ Untaken(t)' = {} /\ Rotating(t) = c
      BY <1>2, <1>3, <2>1, <2>2, <2>4 DEF Untaken, AtStage, tasks
    <3>6. /\ \A a \in Accounts :
               \/ slot'[a] = slot[a] /\ (slot[a] = None \/ a # c.did)
               \/ slot'[a].grant = c.grant /\ slot'[a].gen = c.gen + 1
          /\ \A a \in Accounts : slot'[a] # None =>
               \/ slot'[a] = slot[a]
               \/ /\ slot'[a].grant = c.grant /\ slot'[a].gen = c.gen + 1
                  /\ slot'[a].did = c.did
      <4>1. pointer[t] = new.did
        BY <1>2, <3>2
      <4>2. QED  BY <1>1, <3>1, <3>2, <4>1, SavesTokens
    <3>7. \A x \in InUse' :
            x \in InUse \/ (x.grant = c.grant /\ x.gen = c.gen + 1 /\ x.did = c.did)
      BY <1>1, <2>1, <3>2, <3>3, <3>6, HeldTypes DEF InUse, tasks
    <3>8. Takes(t)
      BY <2>1, <3>4, <3>5, <3>6, <3>7, UntakenElsewhere DEF Takes, server, tasks
    <3>9. QED  BY <3>4, <3>8, PageBy, TakesGrant DEF LiveInv
  <2>5. QED  BY <2>3, <2>4
<1>7. CASE RefreshDropped(t)
  <2>1. /\ renewal' = [renewal EXCEPT ![t] = "none"]
        /\ strayed' = strayed \cup Untaken(t)
        /\ UNCHANGED <<storage, tasks, session, server>>
    BY <1>7 DEF RefreshDropped
  <2>2. renewal'[t] = "none" /\ \A u \in Tabs \ {t} : renewal'[u] = renewal[u]
    BY <1>1, <2>1 DEF Functions
  <2>3. QED  BY <1>4, <2>1, <2>2 DEF storage, tasks, server, c
<1>8. CASE Logout(t)
  <2>1. /\ ForgetTab(t) /\ strayed' = strayed \cup Untaken(t)
        /\ session' = [session EXCEPT ![t] = None]
        /\ renewal' = [renewal EXCEPT ![t] = "none"]
        /\ UNCHANGED <<tasks, issued, rotations>>
    BY <1>8 DEF Logout, PageGone
  <2>2. /\ renewal'[t] = "none" /\ session'[t] = None
        /\ \A u \in Tabs \ {t} : session'[u] = session[u] /\ renewal'[u] = renewal[u]
    BY <1>1, <2>1 DEF Functions
  <2>3. /\ \A a \in Accounts : slot'[a] # None => slot'[a] = slot[a]
        /\ \A u \in Tabs \ {t} : pointer'[u] = pointer[u]
    BY <1>1, <2>1, ForgetTabFacts
  <2>4. QED  BY <1>4, <2>1, <2>2, <2>3 DEF tasks
<1>9. QED  BY <1>5, <1>6, <1>7, <1>8

LEMMA LiveInit ==
    ASSUME Init PROVE LiveInv
<1>1. TypeOK /\ Pending
  BY TypeInit
<1>2. /\ \A a \in Accounts : slot[a] = None
      /\ \A t \in Tabs : /\ session[t] = None /\ resume[t] = None /\ complete[t] = None
                         /\ renewal[t] = "none"
      /\ issued = <<>> /\ \A g \in Grants : rotations[g] = 0
  BY DEF Init
<1>3. PageInv
  BY <1>2 DEF PageInv, PageAt
<1>4. Held = {}
  BY <1>2 DEF Held, InUse
<1>5. GrantInv
  BY <1>2, <1>4 DEF GrantInv, HeldInv, UnmadeInv, UntakenInv, ExchangedInv,
     Untaken, AtStage, CompletionAt
<1>6. SavedIsLive
  BY <1>2 DEF SavedIsLive
<1>7. QED  BY <1>1, <1>3, <1>5, <1>6 DEF LiveInv

LEMMA LiveStep ==
    ASSUME LiveInv, ~SignInOver, [Next]_vars
    PROVE  LiveInv'
<1>1. TypeOK' /\ Pending'
  BY TypeStep DEF LiveInv
<1>2. CASE UNCHANGED vars
  BY <1>1, <1>2 DEF vars, storage, tasks, game, server, LiveInv, PageInv, PageAt, GrantInv,
     HeldInv, UnmadeInv, UntakenInv, ExchangedInv, SavedIsLive, Held, InUse, Rotating,
     Untaken, AtStage, CompletionAt
<1>3. CASE Next
  <2>1. PICK t \in Tabs :
          \/ Load(t) \/ CheckResume(t) \/ Continue(t) \/ ForgetOffer(t) \/ Retry(t)
          \/ ResumeAsks(t) \/ ResumeTakes(t) \/ ResumeJoins(t) \/ ResumeGivesUp(t)
          \/ NotYou(t) \/ PollResume(t)
          \/ \E a \in Accounts : SignIn(t, a)
          \/ CompleteSaves(t) \/ CompleteJoins(t) \/ CompleteFails(t) \/ PollComplete(t)
          \/ AskRefresh(t) \/ Refreshed(t) \/ RefreshDropped(t) \/ Logout(t)
    BY <1>3 DEF Next
  <2>2. PageInv' /\ GrantInv' /\ SavedIsLive'
    BY <2>1, LivePage, LiveResume, LiveSignIn, LiveSession
  <2>3. QED  BY <1>1, <2>2 DEF LiveInv
<1>4. QED  BY <1>2, <1>3

\* update_persisted_token_set and save_persisted, with every tab on the one
\* localStorage: what is saved can be resumed, as the server sees it, however
\* many tabs read, refresh and write it, unless the page a rotation was on its
\* way to is gone.  A sign-in over a saved session is excluded: there a resume
\* and the sign-in's completion run in one page and share its slot.
THEOREM SavedIsLiveCorrect ==
    ASSUME ~SignInOver PROVE Spec => []SavedIsLive
<1>1. Init => LiveInv
  BY LiveInit
<1>2. LiveInv /\ [Next]_vars => LiveInv'
  BY LiveStep
<1>3. LiveInv => SavedIsLive
  BY DEF LiveInv
<1>4. QED  BY <1>1, <1>2, <1>3, PTL DEF Spec

\* claim_session, where nobody signs in over a saved session: every saved
\* session is in the slot of the account its grant was made for.
THEOREM OwnSlotsWithoutSignInOver ==
    ASSUME ~SignInOver PROVE Spec => []OwnSlots
<1>1. LiveInv => OwnSlots
  <2>1. SUFFICES ASSUME LiveInv, NEW a \in Accounts, slot[a] # None
                 PROVE  issued[slot[a].grant] = a
    BY DEF OwnSlots
  <2>2. slot[a] \in Held /\ slot[a].did = a
    BY <2>1, HeldTypes DEF LiveInv, TypeOK
  <2>3. QED  BY <2>1, <2>2 DEF LiveInv, GrantInv, HeldInv
<1>2. LiveInv /\ [Next]_vars => LiveInv'
  BY LiveStep
<1>3. QED  BY <1>1, <1>2, LiveInit, PTL DEF Spec

-----------------------------------------------------------------------------
(* What one tab does to the store.                                         *)

\* The slots a tab writes are those of its pointer, of the offer it shows and
\* of the sign-in that has come back to it; it moves no other tab's pointer.
LEMMA StepWrites ==
    ASSUME TypeOK, NEW u \in Tabs,
           \/ Load(u) \/ CheckResume(u) \/ Continue(u) \/ ForgetOffer(u) \/ Retry(u)
           \/ ResumeAsks(u) \/ ResumeTakes(u) \/ ResumeJoins(u) \/ ResumeGivesUp(u)
           \/ NotYou(u) \/ PollResume(u)
           \/ \E a \in Accounts : SignIn(u, a)
           \/ CompleteSaves(u) \/ CompleteJoins(u) \/ CompleteFails(u) \/ PollComplete(u)
           \/ AskRefresh(u) \/ Refreshed(u) \/ RefreshDropped(u) \/ Logout(u)
    PROVE  /\ \A t \in Tabs \ {u} : pointer'[t] = pointer[t]
           /\ \A a \in Accounts :
                \/ slot'[a] = slot[a]
                \/ a \in {pointer[u], offer[u]}
                \/ complete[u] # None /\ a = complete[u].cred.did
<1>1. Functions
  BY DEF Functions, TypeOK
<1>2. CASE UNCHANGED <<slot, pointer>>
  BY <1>2
<1>3. CASE Continue(u)
  BY <1>1, <1>3 DEF Continue, Claim, Functions
<1>4. CASE ForgetOffer(u)
  BY <1>1, <1>4 DEF ForgetOffer, Forget, Functions
<1>5. ASSUME ForgetTab(u)
      PROVE  /\ \A t \in Tabs \ {u} : pointer'[t] = pointer[t]
             /\ \A a \in Accounts : slot'[a] = slot[a] \/ a = pointer[u]
  BY <1>1, <1>5 DEF ForgetTab, Forget, Functions, storage
<1>6. ASSUME NEW c, SaveTokens(u, c)
      PROVE  \A a \in Accounts : slot'[a] = slot[a] \/ a = pointer[u]
  BY <1>1, <1>6 DEF SaveTokens, Saved, Functions
<1>7. CASE ResumeTakes(u)
  BY <1>5, <1>6, <1>7 DEF ResumeTakes
<1>8. CASE NotYou(u) \/ Logout(u)
  BY <1>5, <1>8 DEF NotYou, Logout
<1>9. CASE CompleteSaves(u)
  BY <1>1, <1>9 DEF CompleteSaves, CompletionAt, Claim, Functions
<1>10. CASE Refreshed(u)
  BY <1>6, <1>10 DEF Refreshed
<1>11. CASE \/ Load(u) \/ CheckResume(u) \/ Retry(u) \/ ResumeAsks(u) \/ ResumeJoins(u)
            \/ ResumeGivesUp(u) \/ PollResume(u) \/ \E a \in Accounts : SignIn(u, a)
            \/ CompleteJoins(u) \/ CompleteFails(u) \/ PollComplete(u) \/ AskRefresh(u)
            \/ RefreshDropped(u)
  BY <1>2, <1>11 DEF Load, CheckResume, Retry, ResumeAsks, ResumeJoins, ResumeGivesUp,
     PollResume, SignIn, CompleteJoins, CompleteFails, PollComplete, AskRefresh,
     RefreshDropped, storage
<1>12. QED  BY <1>3, <1>4, <1>7, <1>8, <1>9, <1>10, <1>11

\* A tab that goes on playing the same session writes nothing.
LEMMA PlayingWrites ==
    ASSUME LiveInv, NEW t \in Tabs, session[t] # None, session'[t] = session[t],
           \/ Load(t) \/ CheckResume(t) \/ Continue(t) \/ ForgetOffer(t) \/ Retry(t)
           \/ ResumeAsks(t) \/ ResumeTakes(t) \/ ResumeJoins(t) \/ ResumeGivesUp(t)
           \/ NotYou(t) \/ PollResume(t)
           \/ \E a \in Accounts : SignIn(t, a)
           \/ CompleteSaves(t) \/ CompleteJoins(t) \/ CompleteFails(t) \/ PollComplete(t)
           \/ AskRefresh(t) \/ Refreshed(t) \/ RefreshDropped(t) \/ Logout(t)
    PROVE  UNCHANGED <<slot, pointer>>
<1>1. Functions /\ Pending /\ resume[t] = None /\ complete[t] = None
  BY DEF Functions, LiveInv, TypeOK, PageInv, PageAt
<1>2. ~PageGone(t)
  BY <1>1 DEF PageGone, Functions
<1>3. CASE AskRefresh(t) \/ RefreshDropped(t)
  BY <1>3 DEF AskRefresh, RefreshDropped, storage
<1>4. CASE Refreshed(t)
  <2>1. renewal[t] # "rotated"
    <3>1. SUFFICES ASSUME renewal[t] = "rotated" PROVE FALSE
      OBVIOUS
    <3>2. session[t] \in Credentials /\ session[t].gen < MaxRotations
      BY <1>1, <3>1 DEF Functions, Pending
    <3>3. Rotated(session[t]).gen = session[t].gen + 1 /\ session[t].gen \in Nat
      BY <3>2, RotatedType, CredentialFacts
    <3>4. session'[t] = Rotated(session[t])
      BY <1>1, <1>4, <3>1 DEF Refreshed, Functions
    <3>5. QED  BY <3>3, <3>4
  <2>2. QED  BY <1>4, <2>1 DEF Refreshed
<1>5. ~(Load(t) \/ CheckResume(t) \/ Continue(t) \/ ForgetOffer(t) \/ Retry(t))
  BY <1>2 DEF Load, CheckResume, Continue, ForgetOffer, Retry, Idle
<1>6. ~(\/ ResumeAsks(t) \/ ResumeTakes(t) \/ ResumeJoins(t) \/ ResumeGivesUp(t)
        \/ NotYou(t) \/ PollResume(t))
  BY <1>1 DEF ResumeAsks, ResumeTakes, ResumeJoins, ResumeGivesUp, NotYou, PollResume, AtStage
<1>7. ~(\/ \E a \in Accounts : SignIn(t, a)
        \/ CompleteSaves(t) \/ CompleteJoins(t) \/ CompleteFails(t) \/ PollComplete(t)
        \/ Logout(t))
  BY <1>1, <1>2 DEF SignIn, CompleteSaves, CompleteJoins, CompleteFails, PollComplete,
     CompletionAt, Logout
<1>8. QED  BY <1>3, <1>4, <1>5, <1>6, <1>7

\* The header of session_store.rs: what other tabs do with other accounts
\* leaves the saved session of a tab that plays, and its pointer to it, alone.
THEOREM AloneKeepsSavedCorrect ==
    ASSUME ~SignInOver PROVE Spec => AloneKeepsSaved
<1> DEFINE Left(t) ==
      session[t] # None /\ session'[t] = session[t] /\ Alone(t) =>
          /\ slot'[session[t].did] = slot[session[t].did]
          /\ pointer'[t] = pointer[t]
<1>1. ASSUME LiveInv, Next, NEW t \in Tabs PROVE Left(t)
  <2>1. SUFFICES ASSUME session[t] # None, session'[t] = session[t], Alone(t)
                 PROVE  slot'[session[t].did] = slot[session[t].did] /\ pointer'[t] = pointer[t]
    OBVIOUS
  <2>2. PICK u \in Tabs :
          \/ Load(u) \/ CheckResume(u) \/ Continue(u) \/ ForgetOffer(u) \/ Retry(u)
          \/ ResumeAsks(u) \/ ResumeTakes(u) \/ ResumeJoins(u) \/ ResumeGivesUp(u)
          \/ NotYou(u) \/ PollResume(u)
          \/ \E a \in Accounts : SignIn(u, a)
          \/ CompleteSaves(u) \/ CompleteJoins(u) \/ CompleteFails(u) \/ PollComplete(u)
          \/ AskRefresh(u) \/ Refreshed(u) \/ RefreshDropped(u) \/ Logout(u)
    BY <1>1 DEF Next
  <2>3. CASE u = t
    BY <1>1, <2>1, <2>2, <2>3, PlayingWrites
  <2>4. CASE u # t
    <3>1. session[t].did \in Accounts
      BY <1>1, <2>1, CredentialFacts DEF LiveInv, TypeOK
    <3>2. /\ session[t].did \notin {pointer[u], offer[u]}
          /\ complete[u] = None \/ complete[u].cred.did # session[t].did
      BY <2>1, <2>4 DEF Alone
    <3>3. /\ \A w \in Tabs \ {u} : pointer'[w] = pointer[w]
          /\ \A a \in Accounts :
               \/ slot'[a] = slot[a]
               \/ a \in {pointer[u], offer[u]}
               \/ complete[u] # None /\ a = complete[u].cred.did
      BY <1>1, <2>2, StepWrites DEF LiveInv
    <3>4. QED  BY <2>4, <3>1, <3>2, <3>3
  <2>5. QED  BY <2>3, <2>4
<1>2. LiveInv /\ [Next]_vars => [\A t \in Tabs : Left(t)]_vars
  BY <1>1
<1>3. LiveInv /\ [Next]_vars => LiveInv'
  BY LiveStep
<1>4. Spec => [][\A t \in Tabs : Left(t)]_vars
  BY <1>2, <1>3, LiveInit, PTL DEF Spec
<1>5. QED  BY <1>4 DEF AloneKeepsSaved
=============================================================================
