--------------------------- MODULE ServicesProofs ---------------------------
(***************************************************************************)
(* Theorems about the components that MCServices runs beside the relay:    *)
(* SchwabLogin, for any number of logins, deployments and restarts and any *)
(* time to live, and IngestDisclosures, for any number of jobs, filings,   *)
(* backfills and failures.                                                 *)
(***************************************************************************)
EXTENDS OutboxProofs, MCServices, WellFoundedInduction

USE LoginAssumption

\* A state whose exchange was started is a login's and is not pending any more.
UsedUp == accepted \subseteq DOMAIN begun /\ accepted \cap pending = {}

\* A callback holds a token that Schwab has granted.
TokensGranted == \A x \in inflight : x.token <= granted

\* Sign-ins that do not cross follow one another: what is on its way is newer
\* than the Secret, and the Secret has what was shown and what pods were made
\* with.
InOrder ==
    /\ \A x, y \in inflight : x = y
    /\ \A x \in inflight : x.token = 0 \/ x.token > secret
    /\ shown <= secret
    /\ \A d \in Deployments :
        /\ rolled[d] <= secret /\ rolled[d] <= mounted[d]
        /\ client[d] # 0 => client[d] >= rolled[d]

\* The inductive invariant.
LoginIInv == LoginTypeOK /\ UsedUp /\ TokensGranted /\ (~overtaken => InOrder)

-----------------------------------------------------------------------------

LEMMA LoginInitIInv == LoginInit => LoginIInv
<1> SUFFICES ASSUME LoginInit PROVE LoginIInv
  OBVIOUS
<1> USE DEF LoginInit
<1>1. begun \in Seq(0 .. LastTick) /\ Len(begun) <= MaxLogins
  OBVIOUS
<1>2. overtaken \in BOOLEAN
  OBVIOUS
<1>3. inflight \subseteq [state : DOMAIN begun, token : Token] /\ pending \subseteq DOMAIN begun
  OBVIOUS
<1>4. LoginTypeOK
  BY <1>1, <1>2, <1>3 DEF LoginTypeOK, State, Token
<1>5. UsedUp /\ TokensGranted
  BY DEF UsedUp, TokensGranted
<1>6. InOrder
  BY DEF InOrder
<1>7. QED
  BY <1>4, <1>5, <1>6 DEF LoginIInv

\* A login's state is new.
LEMMA LoginStep == LoginIInv /\ Login => LoginIInv'
<1> SUFFICES ASSUME LoginIInv, Login PROVE LoginIInv'
  OBVIOUS
<1> USE DEF LoginIInv, LoginTypeOK, State, Token
<1>1. begun' \in Seq(0 .. LastTick) /\ Len(begun') = Len(begun) + 1
  BY DEF Login
<1>2. DOMAIN begun = 1 .. Len(begun) /\ DOMAIN begun' = 1 .. Len(begun) + 1
  BY <1>1
<1>3. Len(begun') <= MaxLogins
  BY <1>1 DEF Login
<1>4. pending' \subseteq DOMAIN begun'
  BY <1>1, <1>2 DEF Login, Pruned
<1>5. inflight' \subseteq [state : DOMAIN begun', token : 0 .. MaxLogins]
  BY <1>2 DEF Login
<1>6. LoginTypeOK'
  BY <1>1, <1>3, <1>4, <1>5 DEF Login, podVars
<1>7. UsedUp'
  BY <1>2 DEF Login, UsedUp, Pruned
<1>8. TokensGranted' /\ (~overtaken' => InOrder')
  BY DEF Login, TokensGranted, InOrder, podVars
<1>9. QED
  BY <1>6, <1>7, <1>8

\* A callback takes its state with it.
LEMMA CallbackStep ==
    ASSUME LoginIInv, NEW l \in DOMAIN begun, Callback(l) PROVE LoginIInv'
<1> USE DEF LoginIInv, LoginTypeOK, State, Token
<1>1. Pruned \subseteq pending
  BY DEF Pruned
<1>2. DOMAIN begun = 1 .. Len(begun)
  OBVIOUS
<1>3. CASE l \in Pruned
  <2> DEFINE x == [state |-> l, token |-> 0]
  <2>1. inflight' = inflight \cup {x} /\ accepted' = accepted \cup {l}
        /\ overtaken' = (overtaken \/ inflight # {})
    BY <1>3 DEF Callback
  <2>2. UNCHANGED <<tick, begun, granted, secret, shown, podVars, restarts>>
    BY DEF Callback
  <2>3. x \in [state : DOMAIN begun, token : 0 .. MaxLogins]
    OBVIOUS
  <2>4. LoginTypeOK'
    <3>1. pending' \subseteq DOMAIN begun
      BY <1>1 DEF Callback
    <3>2. accepted' \subseteq 1 .. MaxLogins
      <4>1. Len(begun) \in Nat /\ Len(begun) <= MaxLogins
        OBVIOUS
      <4>2. l \in 1 .. MaxLogins
        BY <1>2, <4>1
      <4>3. QED
        BY <2>1, <4>2
    <3>3. overtaken' \in BOOLEAN
      BY <2>1
    <3>4. QED
      BY <2>1, <2>2, <2>3, <3>1, <3>2, <3>3 DEF podVars
  <2>5. UsedUp'
    BY <1>1, <2>1, <2>2 DEF Callback, UsedUp
  <2>6. TokensGranted'
    BY <2>1, <2>2 DEF TokensGranted
  <2>7. ~overtaken' => InOrder'
    <3> SUFFICES ASSUME ~overtaken' PROVE InOrder'
      OBVIOUS
    <3>1. ~overtaken /\ inflight = {}
      BY <2>1, Zenon
    <3>2. inflight' = {x}
      BY <2>1, <3>1
    <3>3. UNCHANGED <<secret, shown, podVars>>
      BY <2>2
    <3>4. QED
      BY <3>1, <3>2, <3>3 DEF InOrder, podVars
  <2>8. QED
    BY <2>4, <2>5, <2>6, <2>7
<1>4. CASE l \notin Pruned
  <2>1. UNCHANGED <<tick, begun, granted, secret, shown, podVars, restarts,
                    inflight, accepted, overtaken>>
    BY <1>4 DEF Callback
  <2>2. pending' \subseteq pending
    BY <1>1 DEF Callback
  <2>3. QED
    BY <2>1, <2>2 DEF podVars, UsedUp, TokensGranted, InOrder
<1>5. QED
  BY <1>3, <1>4

\* Schwab's answer is newer than anything stored.
LEMMA ExchangeStep ==
    ASSUME LoginIInv, NEW x \in inflight, Exchange(x) PROVE LoginIInv'
<1> USE DEF LoginIInv, LoginTypeOK, State, Token
<1> DEFINE y == [x EXCEPT !.token = granted + 1]
<1>1. x \in [state : DOMAIN begun, token : 0 .. MaxLogins]
  OBVIOUS
<1>2. y \in [state : DOMAIN begun, token : 0 .. MaxLogins] /\ y.token = granted + 1
  BY <1>1 DEF Exchange
<1>3. granted' = granted + 1 /\ inflight' = (inflight \ {x}) \cup {y}
      /\ UNCHANGED <<tick, begun, pending, secret, accepted, shown, overtaken, podVars, restarts>>
  BY DEF Exchange
<1>4. \A d \in Deployments : mounted[d] \in 0 .. granted' /\ client[d] \in 0 .. granted'
  BY <1>3
<1>5. LoginTypeOK'
  BY <1>2, <1>3, <1>4 DEF podVars, Exchange
<1>6. UsedUp' /\ TokensGranted'
  BY <1>1, <1>2, <1>3 DEF UsedUp, TokensGranted
<1>7. ~overtaken' => InOrder'
  <2> SUFFICES ASSUME ~overtaken' PROVE InOrder'
    OBVIOUS
  <2>1. InOrder /\ UNCHANGED <<secret, shown, podVars>>
    BY <1>3
  <2>2. inflight = {x}
    BY <2>1 DEF InOrder
  <2>3. inflight' = {y}
    BY <1>3, <2>2
  <2>4. y.token > secret
    BY <1>2
  <2>5. QED
    BY <2>1, <2>3, <2>4 DEF InOrder, podVars
<1>8. QED
  BY <1>5, <1>6, <1>7

\* The Secret moves on to a newer token.
LEMMA PatchStep ==
    ASSUME LoginIInv, NEW x \in inflight, Patch(x) PROVE LoginIInv'
<1> USE DEF LoginIInv, LoginTypeOK, State, Token
<1>1. x.token \in 0 .. MaxLogins /\ x.token <= granted
  BY DEF TokensGranted
<1>2. LoginTypeOK'
  BY <1>1 DEF Patch, podVars
<1>3. UsedUp' /\ TokensGranted'
  BY DEF Patch, UsedUp, TokensGranted
<1>4. ~overtaken' => InOrder'
  <2> SUFFICES ASSUME ~overtaken' PROVE InOrder'
    OBVIOUS
  <2>1. InOrder /\ secret' = x.token /\ shown' = x.token /\ inflight' = inflight \ {x}
        /\ x.token > secret /\ UNCHANGED podVars
    BY DEF Patch, InOrder
  <2>2. \A d \in Deployments : rolled[d] <= secret'
    BY <1>1, <2>1 DEF InOrder
  <2>3. QED
    BY <1>1, <2>1, <2>2 DEF InOrder, podVars
<1>5. QED
  BY <1>2, <1>3, <1>4

LEMMA WebhookRestartsStep == LoginIInv /\ WebhookRestarts => LoginIInv'
<1> SUFFICES ASSUME LoginIInv, WebhookRestarts PROVE LoginIInv'
  OBVIOUS
<1> USE DEF LoginIInv, LoginTypeOK, State, Token
<1>1. secret' = secret \/ \E x \in inflight : x.token # 0 /\ secret' = x.token
  BY DEF WebhookRestarts
<1>2. secret' \in 0 .. granted
  BY <1>1 DEF TokensGranted
<1>3. LoginTypeOK'
  BY <1>2 DEF WebhookRestarts, podVars
<1>4. UsedUp' /\ TokensGranted'
  BY DEF WebhookRestarts, UsedUp, TokensGranted
<1>5. ~overtaken' => InOrder'
  <2> SUFFICES ASSUME ~overtaken' PROVE InOrder'
    OBVIOUS
  <2>1. InOrder /\ inflight' = {} /\ UNCHANGED <<shown, podVars>>
    BY DEF WebhookRestarts
  <2>2. secret' >= secret
    BY <1>1, <2>1 DEF InOrder
  <2>3. QED
    BY <1>2, <2>1, <2>2 DEF InOrder, podVars
<1>6. QED
  BY <1>3, <1>4, <1>5

\* What happens to one pod.
LEMMA PodStep ==
    ASSUME LoginIInv, NEW d \in Deployments,
           KubeletSync(d) \/ BrokerCall(d) \/ Rollout(d) \/ ContainerRestarts(d)
    PROVE  LoginIInv'
<1> USE DEF LoginIInv, LoginTypeOK, State, Token
<1>1. UNCHANGED <<tick, webhookVars>>
  BY DEF KubeletSync, BrokerCall, Rollout, ContainerRestarts
<1>2. UsedUp' /\ TokensGranted'
  BY <1>1 DEF webhookVars, UsedUp, TokensGranted
<1>3. LoginTypeOK'
  <2> DEFINE InTypes ==
        /\ mounted' \in [Deployments -> 0 .. granted] /\ client' \in [Deployments -> 0 .. granted]
        /\ rolled' \in [Deployments -> 0 .. MaxLogins] /\ restarts' \in 0 .. MaxRestarts
  <2>1. InTypes
    <3>1. CASE KubeletSync(d)
      BY <3>1 DEF KubeletSync
    <3>2. CASE BrokerCall(d)
      <4>1. mounted[d] \in 0 .. granted
        OBVIOUS
      <4>2. QED
        BY <3>2, <4>1 DEF BrokerCall
    <3>3. CASE Rollout(d)
      <4>1. 0 \in 0 .. granted /\ restarts + 1 \in 0 .. MaxRestarts
        BY <3>3 DEF Rollout
      <4>2. QED
        BY <3>3, <4>1 DEF Rollout
    <3>4. CASE ContainerRestarts(d)
      <4>1. 0 \in 0 .. granted /\ restarts + 1 \in 0 .. MaxRestarts
        BY <3>4 DEF ContainerRestarts
      <4>2. QED
        BY <3>4, <4>1 DEF ContainerRestarts
    <3>5. QED
      BY <3>1, <3>2, <3>3, <3>4
  <2>3. UNCHANGED <<tick, begun, pending, inflight, granted, secret, accepted, shown, overtaken>>
    BY <1>1 DEF webhookVars
  <2>4. QED
    BY <2>1, <2>3
<1>4. ~overtaken' => InOrder'
  BY <1>1 DEF webhookVars, InOrder, KubeletSync, BrokerCall, Rollout, ContainerRestarts
<1>5. QED
  BY <1>2, <1>3, <1>4

LEMMA LoginNextIInv == LoginIInv /\ [LoginNext]_loginVars => LoginIInv'
<1> SUFFICES ASSUME LoginIInv, [LoginNext]_loginVars PROVE LoginIInv'
  OBVIOUS
<1>1. CASE TimePasses
  BY <1>1 DEF LoginIInv, LoginTypeOK, State, Token, TimePasses, webhookVars, podVars, UsedUp,
              TokensGranted, InOrder
<1>2. CASE Login
  BY <1>2, LoginStep
<1>3. CASE \E l \in DOMAIN begun : Callback(l)
  BY <1>3, CallbackStep
<1>4. ASSUME NEW x \in inflight, Exchange(x) PROVE LoginIInv'
  BY <1>4, ExchangeStep
<1>5. ASSUME NEW x \in inflight, Patch(x) PROVE LoginIInv'
  BY <1>5, PatchStep
<1>6. ASSUME NEW x \in inflight, AnswerBadGateway(x) PROVE LoginIInv'
  BY <1>6 DEF LoginIInv, LoginTypeOK, State, Token, AnswerBadGateway, podVars, UsedUp,
              TokensGranted, InOrder
<1>7. CASE WebhookRestarts
  BY <1>7, WebhookRestartsStep
<1>8. CASE \E d \in Deployments :
              KubeletSync(d) \/ BrokerCall(d) \/ Rollout(d) \/ ContainerRestarts(d)
  BY <1>8, PodStep
<1>9. CASE UNCHANGED loginVars
  BY <1>9 DEF LoginIInv, LoginTypeOK, State, Token, loginVars, webhookVars, podVars, UsedUp,
              TokensGranted, InOrder
<1>10. QED
  BY <1>1, <1>2, <1>3, <1>4, <1>5, <1>6, <1>7, <1>8, <1>9 DEF LoginNext

-----------------------------------------------------------------------------

\* The webhook's and the pods' variables stay in their types.
THEOREM LoginTypeCorrect == LoginSpec => []LoginTypeOK
<1>1. LoginIInv => LoginTypeOK
  BY DEF LoginIInv
<1>2. QED
  BY <1>1, LoginInitIInv, LoginNextIInv, PTL DEF LoginSpec

\* Unless two sign-ins crossed, a pod rolled after the page said so calls with
\* that token or a later one, whatever restarts.
THEOREM RolledPodsAreSignedIn == LoginSpec => []RolledPodHasToken
<1>1. LoginIInv => RolledPodHasToken
  BY DEF LoginIInv, InOrder, RolledPodHasToken
<1>2. QED
  BY <1>1, LoginInitIInv, LoginNextIInv, PTL DEF LoginSpec

\* Every state is good for one exchange, within its time to live.
THEOREM StatesAreSingleUse == LoginSpec => AcceptedOnceInTime
<1> DEFINE Single == \A l \in State :
                (\E x \in inflight' : x.state = l /\ x.token = 0 /\ x \notin inflight) =>
                    l \notin accepted /\ tick - begun[l] <= StateTTL
<1>1. LoginIInv /\ [LoginNext]_loginVars => [Single]_loginVars
  <2> SUFFICES ASSUME LoginIInv, LoginNext, NEW l \in State,
                      NEW x \in inflight', x.state = l, x.token = 0, x \notin inflight
               PROVE  l \notin accepted /\ tick - begun[l] <= StateTTL
    BY DEF loginVars
  <2>1. \E k \in DOMAIN begun : Callback(k) /\ k \in Pruned /\ x = [state |-> k, token |-> 0]
    <3>1. ASSUME NEW y \in inflight, Exchange(y) PROVE FALSE
      <4>1. y \in [state : DOMAIN begun, token : Token]
        BY DEF LoginIInv, LoginTypeOK
      <4>2. x = [y EXCEPT !.token = granted + 1] /\ granted \in Nat
        BY <3>1 DEF Exchange, LoginIInv, LoginTypeOK, Token
      <4>3. QED
        BY <4>1, <4>2
    <3>2. QED
      BY <3>1 DEF LoginNext, TimePasses, Login, Callback, Patch, AnswerBadGateway, WebhookRestarts,
             KubeletSync, BrokerCall, Rollout, ContainerRestarts, webhookVars
  <2>2. l \in Pruned
    BY <2>1
  <2>3. QED
    BY <2>2 DEF Pruned, LoginIInv, UsedUp
<1>2. QED
  BY <1>1, LoginInitIInv, LoginNextIInv, PTL DEF LoginSpec, AcceptedOnceInTime

-----------------------------------------------------------------------------
(***************************************************************************)
(* The congressional polls.                                                *)
(***************************************************************************)

USE IngestAssumption

\* What the argument needs of the types; how a page is listed plays no part in it.
Counts ==
    /\ events \in [Filing -> 0 .. 2]
    /\ inserted = [j \in Jobs |-> inserted[j]]
    /\ collected \in [Jobs -> [Filing -> 0 .. 2]]

\* A transaction has inserted only what it has an event for, and has an event only
\* for what it has inserted or what was stored.
CollectedIsThere ==
    \A j \in Jobs, f \in Filing :
        /\ f \in inserted[j] => collected[j][f] > 0
        /\ collected[j][f] > 0 => f \in stored \cup inserted[j]

\* The inductive invariant.
IngestIInv == Counts /\ CollectedIsThere /\ EventIffStored

LEMMA PlusIsPositive ==
    ASSUME NEW m \in 0 .. 2, NEW n \in 0 .. 2
    PROVE  Plus(m, n) \in 0 .. 2 /\ (Plus(m, n) > 0 <=> m > 0 \/ n > 0)
  BY DEF Plus

LEMMA IngestInitIInv == IngestInit => IngestIInv
  BY DEF IngestInit, IngestIInv, Counts, CollectedIsThere, EventIffStored, Nobody, Filing

\* A step of the feed, or of a job between its inserts, disturbs nothing.
LEMMA QuietStep ==
    IngestIInv /\ UNCHANGED <<stored, events, inserted, collected>> => IngestIInv'
  BY DEF IngestIInv, Counts, CollectedIsThere, EventIffStored

\* The event is collected and the row is there: it was stored, or it is inserted
\* now, for no other open transaction has it.
LEMMA InsertStep ==
    ASSUME NEW j \in Jobs, IngestIInv, Insert(j)
    PROVE  IngestIInv'
<1> DEFINE f == NextFiling(j)
<1> USE DEF IngestIInv, Counts, CollectedIsThere
<1>1. /\ \A i \in Jobs \ {j} : f \notin inserted[i]
      /\ inserted' = [inserted EXCEPT ![j] = @ \cup RowInserted(j, f)]
      /\ collected' = [collected EXCEPT ![j][f] = Plus(@, 1)]
      /\ UNCHANGED <<stored, events>>
  BY DEF Insert, ConflictWaits
<1> HIDE DEF f
<1>2. Counts'
  <2>1. f \in Filing => Plus(collected[j][f], 1) \in 0 .. 2
    BY PlusIsPositive
  <2>2. collected' \in [Jobs -> [Filing -> 0 .. 2]]
    BY <1>1, <2>1
  <2>3. QED
    BY <1>1, <2>2
<1>3. ASSUME NEW i \in Jobs, NEW g \in Filing
      PROVE  /\ g \in inserted'[i] => collected'[i][g] > 0
             /\ collected'[i][g] > 0 => g \in stored' \cup inserted'[i]
  <2>1. CASE i = j /\ g = f
    <3>1. collected'[i][g] > 0
      BY <1>1, <2>1, PlusIsPositive
    <3>2. g \in stored' \cup inserted'[i]
      BY <1>1, <2>1 DEF RowInserted
    <3>3. QED
      BY <3>1, <3>2
  <2>2. CASE ~(i = j /\ g = f)
    <3>1. collected'[i][g] = collected[i][g]
      BY <1>1, <2>2
    <3>2. g \in inserted'[i] <=> g \in inserted[i]
      BY <1>1, <2>2 DEF RowInserted
    <3>3. QED
      BY <1>1, <3>1, <3>2
  <2>3. QED
    BY <2>1, <2>2
<1>4. EventIffStored'
  BY <1>1 DEF EventIffStored
<1>5. QED
  BY <1>2, <1>3, <1>4

\* What a commit leaves, and what a roll back leaves, to the transactions that
\* go on.
LEMMA EndStep ==
    ASSUME NEW j \in Jobs, IngestIInv, EndJob(j),
           CommitEffects(j) \/ UNCHANGED <<stored, events>>
    PROVE  IngestIInv'
<1> USE DEF IngestIInv, Counts, CollectedIsThere
<1>1. /\ inserted' = [inserted EXCEPT ![j] = {}]
      /\ collected' = [collected EXCEPT ![j] = Nobody]
  BY DEF EndJob
<1>2. Nobody \in [Filing -> 0 .. 2] /\ \A f \in Filing : ~(Nobody[f] > 0)
  BY DEF Nobody
<1>3. \A f \in Filing : f \in stored => f \in stored'
  BY DEF CommitEffects
<1>4. \A i \in Jobs, f \in Filing :
        /\ f \in inserted'[i] => collected'[i][f] > 0
        /\ collected'[i][f] > 0 => f \in stored' \cup inserted'[i]
  BY <1>1, <1>2, <1>3
<1>5. events' \in [Filing -> 0 .. 2] /\ EventIffStored'
  <2>1. CASE UNCHANGED <<stored, events>>
    BY <2>1 DEF EventIffStored
  <2>2. CASE CommitEffects(j)
    <3>1. \A f \in Filing : Plus(events[f], collected[j][f]) \in 0 .. 2
      BY PlusIsPositive
    <3>2. \A f \in Filing : events'[f] > 0 <=> events[f] > 0 \/ collected[j][f] > 0
      BY <2>2, PlusIsPositive DEF CommitEffects
    <3>3. \A f \in Filing : f \in stored' <=> f \in stored \/ f \in inserted[j]
      BY <2>2 DEF CommitEffects
    <3>4. events' \in [Filing -> 0 .. 2]
      BY <2>2, <3>1 DEF CommitEffects
    <3>5. EventIffStored'
      BY <3>2, <3>3 DEF EventIffStored
    <3>6. QED
      BY <3>4, <3>5
  <2>3. QED
    BY <2>1, <2>2
<1>6. Counts'
  BY <1>1, <1>2, <1>5
<1>7. QED
  BY <1>4, <1>5, <1>6

\* The victim's work is undone, and the row it held is the other's.
LEMMA VictimStep ==
    ASSUME NEW j \in Jobs, IngestIInv, DeadlockVictim(j)
    PROVE  IngestIInv'
<1> USE DEF IngestIInv, Counts, CollectedIsThere
<1>1. PICK i \in Jobs \ {j} :
        /\ inserted' = [inserted EXCEPT ![j] = {}, ![i] = @ \cup {NextFiling(i)}]
        /\ collected' = [collected EXCEPT ![j] = Nobody, ![i][NextFiling(i)] = Plus(@, 1)]
        /\ UNCHANGED <<stored, events>>
  BY DEF DeadlockVictim
<1> DEFINE f == NextFiling(i)
<1>2. /\ inserted' = [inserted EXCEPT ![j] = {}, ![i] = @ \cup {f}]
      /\ collected' = [collected EXCEPT ![j] = Nobody, ![i][f] = Plus(@, 1)]
      /\ UNCHANGED <<stored, events>>
  BY <1>1
<1> HIDE DEF f
<1>3. Nobody \in [Filing -> 0 .. 2] /\ \A g \in Filing : ~(Nobody[g] > 0)
  BY DEF Nobody
<1>4. f \in Filing => Plus(collected[i][f], 1) \in 0 .. 2 /\ Plus(collected[i][f], 1) > 0
  BY PlusIsPositive
<1>5. Counts'
  BY <1>2, <1>3, <1>4
<1>6. ASSUME NEW k \in Jobs, NEW g \in Filing
      PROVE  /\ g \in inserted'[k] => collected'[k][g] > 0
             /\ collected'[k][g] > 0 => g \in stored' \cup inserted'[k]
  BY <1>2, <1>3, <1>4
<1>7. QED
  BY <1>2, <1>5, <1>6 DEF EventIffStored

LEMMA IngestNextIInv == IngestIInv /\ [IngestNext]_ingestVars => IngestIInv'
<1> SUFFICES ASSUME IngestIInv, [IngestNext]_ingestVars PROVE IngestIInv'
  OBVIOUS
<1>1. CASE Publish
  BY <1>1, QuietStep DEF Publish, jobVars
<1>2. ASSUME NEW j \in Jobs, BeginPoll(j) \/ BeginBackfill(j) PROVE IngestIInv'
  BY <1>2, QuietStep DEF BeginPoll, BeginBackfill
<1>3. ASSUME NEW j \in Jobs, FetchDay(j) \/ Select(j) \/ NextBatch(j) PROVE IngestIInv'
  BY <1>3, QuietStep DEF FetchDay, Select, NextBatch
<1>4. ASSUME NEW j \in Jobs, Insert(j) PROVE IngestIInv'
  BY <1>4, InsertStep
<1>5. ASSUME NEW j \in Jobs, CommitJob(j) PROVE IngestIInv'
  BY <1>5, EndStep DEF CommitJob
<1>6. ASSUME NEW j \in Jobs, DeadlockVictim(j) PROVE IngestIInv'
  BY <1>6, VictimStep
<1>7. ASSUME NEW j \in Jobs, Fail(j) PROVE IngestIInv'
  BY <1>7, EndStep DEF Fail
<1>8. CASE UNCHANGED ingestVars
  BY <1>8, QuietStep DEF ingestVars, jobVars
<1>9. QED
  BY <1>1, <1>2, <1>3, <1>4, <1>5, <1>6, <1>7, <1>8 DEF IngestNext, Run

\* A filing's row and its event are committed together, for every number of jobs
\* and filings and however the feed lists them: IngestDisclosures.execute adds the
\* row to the session and the event to the unit of work before either is visible,
\* and the unique index keeps the same row out of two open transactions.
THEOREM RowAndEventTogether == IngestSpec => []EventIffStored
<1>1. IngestIInv => EventIffStored
  BY DEF IngestIInv
<1>2. QED
  BY <1>1, IngestInitIInv, IngestNextIInv, PTL DEF IngestSpec

-----------------------------------------------------------------------------

\* A page by its places, every filing at one of them.
Distinct(p) ==
    DOMAIN p \subseteq Nat /\ \A i, k \in DOMAIN p : p[i] = p[k] => i = k

JobShapes ==
    /\ jobAt \in [Jobs -> {"idle", "fetching", "selecting", "inserting"}]
    /\ page = [j \in Jobs |-> page[j]]
    /\ inFeed \in Nat

Alone == ~overlapped => \A i, j \in Jobs : Open(i) /\ Open(j) => i = j

\* A job that is not open has nothing.
Rested ==
    \A j \in Jobs : ~Open(j) => inserted[j] = {} /\ \A f \in Filing : collected[j][f] = 0

\* What a job has collected it has once, inserted itself, and nobody stored; what
\* is left of its page nobody has.
FirstSeen ==
    ~overlapped /\ ~repeats => \A j \in Jobs :
        /\ \A f \in Filing : collected[j][f] > 0 =>
            collected[j][f] = 1 /\ f \in inserted[j] /\ f \notin stored
        /\ jobAt[j] \in {"selecting", "inserting"} => Distinct(page[j])
        /\ jobAt[j] = "inserting" => Range(page[j]) \cap (stored \cup inserted[j]) = {}

\* The inductive invariant, beside IngestIInv.
OnceIInv == JobShapes /\ Alone /\ Rested /\ FirstSeen /\ AnnouncedOnce

LEMMA OnceInitIInv == IngestInit => OnceIInv
  BY DEF IngestInit, OnceIInv, JobShapes, Alone, Rested, FirstSeen, AnnouncedOnce, Open, Nobody,
         Filing

\* A nonempty page has a first place.
LEMMA PlaceOnPage ==
    ASSUME NEW j \in Jobs, DOMAIN page[j] \subseteq Nat, DOMAIN page[j] # {}
    PROVE  Place(j) \in DOMAIN page[j]
<1> DEFINE Less == {nn \in Nat \X Nat : nn[1] < nn[2]}
<1>1. OpToRel(<, Nat) = Less
  BY Zenon DEF OpToRel
<1>2. IsWellFoundedOn(Less, Nat)
  BY <1>1, NatLessThanWellFounded, Zenon
<1> HIDE DEF Less
<1>3. PICK n \in DOMAIN page[j] : \A m \in DOMAIN page[j] : <<m, n>> \notin Less
  BY <1>2, WFMin
<1>4. \A m \in DOMAIN page[j] : n <= m
  <2> TAKE m \in DOMAIN page[j]
  <2>1. <<m, n>> \notin Less
    BY <1>3
  <2>2. QED
    BY <2>1 DEF Less
<1>5. QED
  BY <1>4 DEF Place

\* An endpoint that does not repeat filings lists each of them once.
LEMMA ListedOnce ==
    ASSUME ~repeats, NEW first \in Nat, NEW last \in Nat, NEW p \in Listings(first, last)
    PROVE  Distinct(p) /\ p \in Seq(Int)
<1>1. p = [i \in 1 .. last + 1 - first |-> last + 1 - i]
  BY DEF Listings
<1>2. QED
  BY <1>1 DEF Distinct

LEMMA LatestOnce ==
    ASSUME ~repeats, inFeed \in Nat, NEW p \in Latest
    PROVE  Distinct(p)
<1>1. PICK q \in Listings(1, inFeed) :
          p = IF Len(q) > Limit THEN SubSeq(q, 1, Limit) ELSE q
  BY DEF Latest
<1>2. Distinct(q) /\ q \in Seq(Int)
  BY <1>1, ListedOnce
<1>3. CASE Len(q) > Limit
  <2>1. DOMAIN p = 1 .. Limit /\ \A i \in DOMAIN p : p[i] = q[i] /\ i \in DOMAIN q
    BY <1>1, <1>2, <1>3
  <2>2. QED
    BY <1>2, <2>1 DEF Distinct
<1>4. QED
  BY <1>1, <1>2, <1>3

\* A job that begins finds no other open, or else nothing is claimed any more.
LEMMA BeginOnce ==
    ASSUME NEW j \in Jobs, IngestIInv, OnceIInv, BeginPoll(j) \/ BeginBackfill(j)
    PROVE  OnceIInv'
<1> USE DEF OnceIInv, JobShapes
<1>1. /\ ~Open(j) /\ overlapped' = (overlapped \/ \E i \in Jobs \ {j} : Open(i))
      /\ \E step \in {"fetching", "selecting"} : jobAt' = [jobAt EXCEPT ![j] = step]
      /\ UNCHANGED <<repeats, inFeed, stored, events, inserted, collected>>
  BY DEF BeginPoll, BeginBackfill, Begin, Open
<1>2. \/ \E p \in Latest : page' = [page EXCEPT ![j] = p]
      \/ UNCHANGED page /\ jobAt'[j] = "fetching"
  BY DEF BeginPoll, BeginBackfill
<1>3. JobShapes' /\ AnnouncedOnce'
  BY <1>1, <1>2 DEF AnnouncedOnce
<1>4. \A i \in Jobs \ {j} : jobAt'[i] = jobAt[i] /\ page'[i] = page[i]
  BY <1>1, <1>2
<1>5. Open(j)' /\ \A i \in Jobs \ {j} : Open(i)' <=> Open(i)
  BY <1>1, <1>4 DEF Open
<1>6. Alone'
  BY <1>1, <1>5 DEF Alone
<1>7. Rested'
  BY <1>1, <1>5 DEF Rested
<1>8. FirstSeen'
  <2> SUFFICES ASSUME ~overlapped, ~repeats, NEW i \in Jobs
               PROVE  /\ \A f \in Filing : collected[i][f] > 0 =>
                            collected[i][f] = 1 /\ f \in inserted[i] /\ f \notin stored
                      /\ jobAt'[i] \in {"selecting", "inserting"} => Distinct(page'[i])
                      /\ jobAt'[i] = "inserting" =>
                            Range(page'[i]) \cap (stored \cup inserted[i]) = {}
    BY <1>1 DEF FirstSeen
  <2>1. CASE i = j
    <3>1. jobAt'[i] = "selecting" => Distinct(page'[i])
      BY <1>1, <1>2, <2>1, LatestOnce
    <3>2. jobAt'[i] # "inserting"
      BY <1>1, <2>1
    <3>3. QED
      BY <3>1, <3>2 DEF FirstSeen
  <2>2. CASE i # j
    BY <1>4, <2>2 DEF FirstSeen
  <2>3. QED
    BY <2>1, <2>2
<1>9. QED
  BY <1>3, <1>6, <1>7, <1>8

\* Between its inserts a job fetches a day, drops what is stored, or has no page.
LEMMA PageOnce ==
    ASSUME NEW j \in Jobs, IngestIInv, OnceIInv, FetchDay(j) \/ Select(j) \/ NextBatch(j)
    PROVE  OnceIInv'
<1> USE DEF OnceIInv, JobShapes
<1>1. /\ Open(j) /\ UNCHANGED <<overlapped, repeats, inFeed, stored, events, inserted, collected>>
      /\ \E step \in {"fetching", "selecting", "inserting"} : jobAt' = [jobAt EXCEPT ![j] = step]
      /\ \E p : page' = [page EXCEPT ![j] = p]
  BY DEF FetchDay, Select, NextBatch, Open, histVars
<1>2. JobShapes' /\ AnnouncedOnce'
  BY <1>1 DEF AnnouncedOnce
<1>3. \A i \in Jobs \ {j} : jobAt'[i] = jobAt[i] /\ page'[i] = page[i]
  BY <1>1
<1>4. \A i \in Jobs : Open(i)' <=> Open(i)
  BY <1>1, <1>3 DEF Open
<1>5. Alone' /\ Rested'
  BY <1>1, <1>4 DEF Alone, Rested
<1>6. ASSUME ~overlapped, ~repeats
      PROVE  /\ jobAt'[j] \in {"selecting", "inserting"} => Distinct(page'[j])
             /\ jobAt'[j] = "inserting" => Range(page'[j]) \cap (stored \cup inserted[j]) = {}
  <2>1. CASE FetchDay(j)
    <3>1. PICK p \in Listings(nextDay[j], nextDay[j]) : page' = [page EXCEPT ![j] = p]
      BY <1>6, <2>1 DEF FetchDay
    <3>2. nextDay[j] \in Nat
      BY <2>1 DEF FetchDay, DayHasFilings
    <3>3. QED
      BY <1>6, <2>1, <3>1, <3>2, ListedOnce DEF FetchDay
  <2>2. CASE Select(j)
    <3> DEFINE left == {i \in DOMAIN page[j] : page[j][i] \notin FindExisting(j)}
    <3>1. page'[j] = [i \in left |-> page[j][i]]
      BY <2>2 DEF Select, Restrict
    <3>2. Distinct(page[j])
      BY <1>6, <2>2 DEF Select, FirstSeen
    <3>3. \A i \in left : page[j][i] \notin stored \cup inserted[j]
      BY DEF FindExisting, Range
    <3>4. QED
      BY <3>1, <3>2, <3>3 DEF Distinct, Range
  <2>3. CASE NextBatch(j)
    BY <2>3 DEF NextBatch
  <2>4. QED
    BY <2>1, <2>2, <2>3
<1>7. FirstSeen'
  BY <1>1, <1>3, <1>6 DEF FirstSeen
<1>8. QED
  BY <1>2, <1>5, <1>7

\* The next filing of the page is nobody's yet; the row is the job's, and it is
\* nowhere else on the page.
LEMMA InsertOnce ==
    ASSUME NEW j \in Jobs, IngestIInv, OnceIInv, Insert(j)
    PROVE  OnceIInv'
<1> DEFINE f == NextFiling(j)
<1> USE DEF OnceIInv, JobShapes
<1>1. /\ jobAt[j] = "inserting" /\ DOMAIN page[j] # {}
      /\ inserted' = [inserted EXCEPT ![j] = @ \cup RowInserted(j, f)]
      /\ collected' = [collected EXCEPT ![j][f] = Plus(@, 1)]
      /\ page' = [page EXCEPT ![j] = RestOfPage(j)]
      /\ UNCHANGED <<repeats, overlapped, inFeed, stored, events, jobAt>>
  BY DEF Insert, histVars
<1>2. JobShapes' /\ AnnouncedOnce' /\ Alone'
  BY <1>1 DEF AnnouncedOnce, Alone, Open
<1>3. \A i \in Jobs \ {j} :
          inserted'[i] = inserted[i] /\ collected'[i] = collected[i] /\ page'[i] = page[i]
  BY <1>1 DEF IngestIInv, Counts
<1>4. Rested'
  BY <1>1, <1>3 DEF Rested, Open
<1>5. ASSUME ~overlapped, ~repeats
      PROVE  /\ \A g \in Filing : collected'[j][g] > 0 =>
                    collected'[j][g] = 1 /\ g \in inserted'[j] /\ g \notin stored
             /\ Distinct(page'[j])
             /\ Range(page'[j]) \cap (stored \cup inserted'[j]) = {}
  <2>1. /\ Distinct(page[j])
        /\ Range(page[j]) \cap (stored \cup inserted[j]) = {}
        /\ \A g \in Filing : collected[j][g] > 0 =>
               collected[j][g] = 1 /\ g \in inserted[j] /\ g \notin stored
    BY <1>1, <1>5 DEF FirstSeen
  <2>2. Place(j) \in DOMAIN page[j]
    BY <1>1, <2>1, PlaceOnPage DEF Distinct
  <2>3. f \in Range(page[j]) /\ f \notin stored \cup inserted[j]
    BY <2>1, <2>2 DEF NextFiling, Range
  <2>4. \A i \in Jobs \ {j} : inserted[i] = {}
    BY <1>1, <1>5 DEF Alone, Rested, Open
  <2>5. RowInserted(j, f) = {f}
    BY <2>3, <2>4 DEF RowInserted
  <2> HIDE DEF f
  <2>6. inserted'[j] = inserted[j] \cup {f}
    BY <1>1, <2>5 DEF IngestIInv, Counts
  <2>7. ASSUME NEW g \in Filing, collected'[j][g] > 0
        PROVE  collected'[j][g] = 1 /\ g \in inserted'[j] /\ g \notin stored
    <3>1. CASE g = f
      <4>1. collected[j][f] = 0
        BY <2>1, <2>3, <2>7, <3>1 DEF IngestIInv, Counts
      <4>2. collected'[j][g] = Plus(0, 1)
        BY <1>1, <2>7, <3>1, <4>1 DEF IngestIInv, Counts
      <4>3. QED
        BY <2>3, <2>6, <3>1, <4>2 DEF Plus
    <3>2. CASE g # f
      <4>1. collected'[j][g] = collected[j][g]
        BY <1>1, <3>2 DEF IngestIInv, Counts
      <4>2. QED
        BY <2>1, <2>6, <2>7, <4>1
    <3>3. QED
      BY <3>1, <3>2
  <2>8. page'[j] = [i \in DOMAIN page[j] \ {Place(j)} |-> page[j][i]]
    BY <1>1 DEF RestOfPage, Restrict
  <2>9. \A i \in DOMAIN page[j] \ {Place(j)} : page[j][i] # f
    BY <2>1, <2>2 DEF Distinct, f, NextFiling
  <2>10. Distinct(page'[j]) /\ Range(page'[j]) \cap (stored \cup inserted'[j]) = {}
    BY <2>1, <2>6, <2>8, <2>9 DEF Distinct, Range
  <2>11. QED
    BY <2>7, <2>10
<1> HIDE DEF f
<1>6. FirstSeen'
  BY <1>1, <1>3, <1>5 DEF FirstSeen
<1>7. QED
  BY <1>2, <1>4, <1>6

\* What a commit announces was not stored, so not announced.
LEMMA EndOnce ==
    ASSUME NEW j \in Jobs, IngestIInv, OnceIInv, Open(j), EndJob(j),
           CommitEffects(j) \/ UNCHANGED <<stored, events>>,
           UNCHANGED <<repeats, overlapped, inFeed>>
    PROVE  OnceIInv'
<1> USE DEF OnceIInv, JobShapes
<1>1. /\ inserted' = [inserted EXCEPT ![j] = {}]
      /\ collected' = [collected EXCEPT ![j] = Nobody]
      /\ page' = [page EXCEPT ![j] = <<>>]
      /\ jobAt' = [jobAt EXCEPT ![j] = "idle"]
  BY DEF EndJob
<1>2. /\ ~Open(j)' /\ inserted'[j] = {} /\ \A f \in Filing : collected'[j][f] = 0
      /\ jobAt'[j] = "idle"
  BY <1>1 DEF Open, Nobody, IngestIInv, Counts
<1>3. \A i \in Jobs \ {j} :
          /\ inserted'[i] = inserted[i] /\ collected'[i] = collected[i]
          /\ page'[i] = page[i] /\ jobAt'[i] = jobAt[i] /\ (Open(i)' <=> Open(i))
  BY <1>1 DEF Open, IngestIInv, Counts
<1>4. JobShapes'
  BY <1>1
<1>5. Alone' /\ Rested'
  BY <1>2, <1>3 DEF Alone, Rested
<1>6. FirstSeen'
  <2> SUFFICES ASSUME ~overlapped, ~repeats, NEW i \in Jobs
               PROVE  /\ \A f \in Filing : ~(collected'[i][f] > 0)
                      /\ jobAt'[i] = "idle"
    BY DEF FirstSeen
  <2>1. CASE i = j
    BY <1>2, <2>1
  <2>2. CASE i # j
    <3>1. ~Open(i)
      BY <2>2 DEF Alone
    <3>2. QED
      BY <1>3, <2>2, <3>1 DEF Rested, Open
  <2>3. QED
    BY <2>1, <2>2
<1>7. AnnouncedOnce'
  <2> SUFFICES ASSUME ~overlapped, ~repeats, NEW f \in Filing PROVE events'[f] < 2
    BY DEF AnnouncedOnce
  <2>1. events[f] < 2 /\ events[f] \in 0 .. 2 /\ collected[j][f] \in 0 .. 2
    BY DEF AnnouncedOnce, IngestIInv, Counts
  <2>2. CASE UNCHANGED events
    BY <2>1, <2>2
  <2>3. CASE CommitEffects(j)
    <3>1. events'[f] = Plus(events[f], collected[j][f])
      BY <2>3 DEF CommitEffects
    <3>2. CASE collected[j][f] > 0
      <4>1. collected[j][f] = 1 /\ f \notin stored
        BY <3>2 DEF FirstSeen
      <4>2. events[f] = 0
        BY <2>1, <4>1 DEF IngestIInv, EventIffStored
      <4>3. QED
        BY <3>1, <4>1, <4>2 DEF Plus
    <3>3. CASE ~(collected[j][f] > 0)
      BY <2>1, <3>1, <3>3 DEF Plus
    <3>4. QED
      BY <3>2, <3>3
  <2>4. QED
    BY <2>2, <2>3
<1>8. QED
  BY <1>4, <1>5, <1>6, <1>7

\* There is a deadlock only between two jobs that overlap.
LEMMA VictimOnce ==
    ASSUME NEW j \in Jobs, IngestIInv, OnceIInv, DeadlockVictim(j)
    PROVE  OnceIInv'
<1> USE DEF OnceIInv, JobShapes
<1>1. PICK i \in Jobs \ {j} :
        /\ WaitsFor(j, i) /\ WaitsFor(i, j)
        /\ inserted' = [inserted EXCEPT ![j] = {}, ![i] = @ \cup {NextFiling(i)}]
        /\ collected' = [collected EXCEPT ![j] = Nobody, ![i][NextFiling(i)] = Plus(@, 1)]
        /\ page' = [page EXCEPT ![j] = <<>>, ![i] = RestOfPage(i)]
        /\ jobAt' = [jobAt EXCEPT ![j] = "idle"]
        /\ UNCHANGED <<repeats, overlapped, inFeed, stored, events>>
  BY DEF DeadlockVictim, histVars
<1>2. Open(i) /\ Open(j) /\ i # j
  BY <1>1 DEF WaitsFor, Open
<1>3. overlapped /\ overlapped'
  BY <1>1, <1>2 DEF Alone
<1>4. JobShapes'
  BY <1>1
<1>5. Rested'
  <2>1. inserted'[j] = {} /\ \A f \in Filing : collected'[j][f] = 0
    BY <1>1 DEF Nobody, IngestIInv, Counts
  <2>2. \A k \in Jobs \ {i, j} : inserted'[k] = inserted[k] /\ collected'[k] = collected[k]
    BY <1>1 DEF IngestIInv, Counts
  <2>3. Open(i)' /\ \A k \in Jobs \ {i, j} : Open(k)' <=> Open(k)
    BY <1>1, <1>2 DEF Open
  <2>4. QED
    BY <2>1, <2>2, <2>3 DEF Rested
<1>6. QED
  BY <1>3, <1>4, <1>5 DEF Alone, FirstSeen, AnnouncedOnce

LEMMA OnceNextIInv == IngestIInv /\ OnceIInv /\ [IngestNext]_ingestVars => OnceIInv'
<1> SUFFICES ASSUME IngestIInv, OnceIInv, [IngestNext]_ingestVars PROVE OnceIInv'
  OBVIOUS
<1>1. CASE Publish
  BY <1>1 DEF Publish, jobVars, histVars, OnceIInv, JobShapes, Alone, Rested, FirstSeen,
              AnnouncedOnce, Open
<1>2. ASSUME NEW j \in Jobs, BeginPoll(j) \/ BeginBackfill(j) PROVE OnceIInv'
  BY <1>2, BeginOnce
<1>3. ASSUME NEW j \in Jobs, FetchDay(j) \/ Select(j) \/ NextBatch(j) PROVE OnceIInv'
  BY <1>3, PageOnce
<1>4. ASSUME NEW j \in Jobs, Insert(j) PROVE OnceIInv'
  BY <1>4, InsertOnce
<1>5. ASSUME NEW j \in Jobs, CommitJob(j) PROVE OnceIInv'
  BY <1>5, EndOnce DEF CommitJob, Exhausted, Open, histVars
<1>6. ASSUME NEW j \in Jobs, DeadlockVictim(j) PROVE OnceIInv'
  BY <1>6, VictimOnce
<1>7. ASSUME NEW j \in Jobs, Fail(j) PROVE OnceIInv'
  BY <1>7, EndOnce DEF Fail
<1>8. CASE UNCHANGED ingestVars
  BY <1>8 DEF ingestVars, jobVars, histVars, OnceIInv, JobShapes, Alone, Rested, FirstSeen,
              AnnouncedOnce, Open
<1>9. QED
  BY <1>1, <1>2, <1>3, <1>4, <1>5, <1>6, <1>7, <1>8 DEF IngestNext, Run

\* Jobs that follow one another announce a filing once, for every number of filings and
\* whatever fails and is run again: execute and backfill look up what is stored before
\* they insert, and a failure takes the events with the rows.
THEOREM FilingsAreAnnouncedOnce == IngestSpec => []AnnouncedOnce
<1>1. OnceIInv => AnnouncedOnce
  BY DEF OnceIInv
<1>2. IngestInit => IngestIInv /\ OnceIInv
  BY IngestInitIInv, OnceInitIInv
<1>3. IngestIInv /\ OnceIInv /\ [IngestNext]_ingestVars => IngestIInv' /\ OnceIInv'
  BY IngestNextIInv, OnceNextIInv
<1>4. QED
  BY <1>1, <1>2, <1>3, PTL DEF IngestSpec

-----------------------------------------------------------------------------
(***************************************************************************)
(* The types of the ingest.                                                *)
(***************************************************************************)

\* A page has places and lists what is in the feed; what is inserted was there.
IngestShape ==
    /\ IngestTypeOK
    /\ page = [j \in Jobs |-> page[j]]
    /\ \A j \in Jobs : DOMAIN page[j] \subseteq Nat /\ inserted[j] \subseteq 1 .. inFeed

\* A listing is a sequence of the filings it is asked for.
LEMMA ListingType ==
    ASSUME NEW first \in Nat \ {0}, NEW last \in Nat, NEW p \in Listings(first, last)
    PROVE  p \in Seq(1 .. last)
<1> DEFINE once == [i \in 1 .. last + 1 - first |-> last + 1 - i]
<1>1. once \in Seq(1 .. last)
  <2>1. \A i \in 1 .. last + 1 - first : last + 1 - i \in 1 .. last
    OBVIOUS
  <2>2. PICK n \in Nat : 1 .. last + 1 - first = 1 .. n
    <3>1. CASE last + 1 - first \in Nat
      BY <3>1
    <3>2. CASE last + 1 - first \notin Nat
      <4>1. 1 .. last + 1 - first = 1 .. 0
        BY <3>2
      <4> QED
        BY <4>1
    <3> QED
      BY <3>1, <3>2
  <2> QED
    BY <2>1, <2>2
<1>2. p = once \/ \E k \in DOMAIN once : p = InsertAt(once, k, once[k])
  BY DEF Listings
<1> HIDE DEF once
<1>3. ASSUME NEW k \in DOMAIN once PROVE InsertAt(once, k, once[k]) \in Seq(1 .. last)
  <2>1. /\ SubSeq(once, 1, k - 1) \in Seq(1 .. last) /\ SubSeq(once, k, Len(once)) \in Seq(1 .. last)
        /\ <<once[k]>> \in Seq(1 .. last)
    BY <1>1
  <2> QED
    BY <2>1 DEF InsertAt
<1> QED
  BY <1>1, <1>2, <1>3

\* A page that is listed so is a page of the feed.
LEMMA ListedPage ==
    ASSUME inFeed \in Nat, NEW last \in 0 .. inFeed, NEW p \in Seq(1 .. last)
    PROVE  DOMAIN p \subseteq Nat /\ Range(p) \subseteq 1 .. inFeed
BY DEF Range

LEMMA LatestPage ==
    ASSUME inFeed \in Nat, NEW p \in Latest
    PROVE  DOMAIN p \subseteq Nat /\ Range(p) \subseteq 1 .. inFeed
<1>1. PICK q \in Listings(1, inFeed) : p = IF Len(q) > Limit THEN SubSeq(q, 1, Limit) ELSE q
  BY DEF Latest
<1>2. q \in Seq(1 .. inFeed)
  BY ListingType
<1>3. p \in Seq(1 .. inFeed)
  <2>1. CASE Len(q) > Limit
    <3>1. Len(q) \in Nat /\ Limit \in 1 .. Len(q) /\ \A i \in 1 .. Limit : q[i] \in 1 .. inFeed
      BY <1>2, <2>1
    <3>2. Len(p) = Limit /\ \A i \in 1 .. Limit : p[i] = q[i]
      BY <1>1, <1>2, <2>1, <3>1
    <3>3. p = [i \in 1 .. Limit |-> q[i]]
      BY <1>1, <1>2, <2>1, <3>1
    <3> QED
      BY <3>1, <3>3
  <2> QED
    BY <1>1, <1>2, <2>1
<1> QED
  BY <1>3, ListedPage

\* A page without some of its places lists nothing else.
LEMMA RestrictedPage ==
    ASSUME NEW p, NEW places \in SUBSET DOMAIN p
    PROVE  DOMAIN Restrict(p, places) = places /\ Range(Restrict(p, places)) \subseteq Range(p)
BY DEF Restrict, Range

\* The filing that is next is one of the feed.
LEMMA NextIsInFeed ==
    ASSUME IngestShape, NEW j \in Jobs, DOMAIN page[j] # {}
    PROVE  /\ NextFiling(j) \in 1 .. inFeed /\ NextFiling(j) \in Filing
           /\ DOMAIN RestOfPage(j) \subseteq Nat /\ Range(RestOfPage(j)) \subseteq 1 .. inFeed
<1> USE DEF IngestShape, IngestTypeOK
<1>1. Place(j) \in DOMAIN page[j]
  BY PlaceOnPage
<1>2. NextFiling(j) \in Range(page[j])
  BY <1>1 DEF NextFiling, Range
<1>3. NextFiling(j) \in 1 .. inFeed /\ 1 .. inFeed \subseteq Filing
  BY <1>2 DEF Filing
<1>4. Range(RestOfPage(j)) \subseteq Range(page[j]) /\ DOMAIN RestOfPage(j) \subseteq DOMAIN page[j]
  <2> DEFINE rest == DOMAIN page[j] \ {Place(j)}
  <2>1. rest \in SUBSET DOMAIN page[j] /\ RestOfPage(j) = Restrict(page[j], rest)
    BY DEF RestOfPage
  <2> HIDE DEF rest
  <2>2. DOMAIN Restrict(page[j], rest) = rest /\ Range(Restrict(page[j], rest)) \subseteq Range(page[j])
    BY <2>1, RestrictedPage
  <2> QED
    BY <2>1, <2>2
<1> QED
  BY <1>3, <1>4

LEMMA IngestInitShape == IngestInit => IngestShape
<1> SUFFICES ASSUME IngestInit PROVE IngestShape
  OBVIOUS
<1>1. Nobody \in [Filing -> 0 .. 2]
  BY DEF Nobody
<1>2. repeats \in BOOLEAN /\ paced \in BOOLEAN /\ overlapped \in BOOLEAN
  BY DEF IngestInit
<1>3. 0 \in 0 .. Filings /\ 0 \in 0 .. Filings + 1 /\ 0 \in 0 .. MaxBackfills /\ 0 \in 0 .. MaxAborts
  OBVIOUS
<1>4. \A j \in Jobs : DOMAIN page[j] = {} /\ inserted[j] = {}
  BY DEF IngestInit
<1> QED
  BY <1>1, <1>2, <1>3, <1>4 DEF IngestInit, IngestShape, IngestTypeOK, Range

\* A job that ends has empty hands.
LEMMA EndShape ==
    ASSUME IngestShape, NEW j \in Jobs, EndJob(j),
           CommitEffects(j) \/ UNCHANGED <<stored, events>>,
           UNCHANGED <<repeats, paced, inFeed, backfills, overlapped>>, aborts' \in 0 .. MaxAborts
    PROVE  IngestShape'
<1> USE DEF IngestShape, IngestTypeOK
<1>1. stored' \subseteq 1 .. inFeed /\ events' \in [Filing -> 0 .. 2]
  <2>1. CASE CommitEffects(j)
    <3>1. \A f \in Filing : Plus(events[f], collected[j][f]) \in 0 .. 2
      BY PlusIsPositive
    <3> QED
      BY <2>1, <3>1 DEF CommitEffects
  <2> QED
    BY <2>1
<1>2. Nobody \in [Filing -> 0 .. 2] /\ 0 \in 0 .. Filings + 1
  BY DEF Nobody
<1>3. /\ jobAt' \in [Jobs -> {"idle", "fetching", "selecting", "inserting"}]
      /\ kind' \in [Jobs -> {"poll", "backfill"}]
      /\ inserted' \in [Jobs -> SUBSET Filing] /\ collected' \in [Jobs -> [Filing -> 0 .. 2]]
      /\ nextDay' \in [Jobs -> 0 .. Filings + 1]
      /\ page' = [i \in Jobs |-> page'[i]]
  BY <1>2 DEF EndJob
<1>4. ASSUME NEW i \in Jobs
      PROVE  /\ Range(page'[i]) \subseteq 1 .. inFeed
             /\ DOMAIN page'[i] \subseteq Nat /\ inserted'[i] \subseteq 1 .. inFeed
  BY DEF EndJob, Range
<1> QED
  BY <1>1, <1>3, <1>4

LEMMA IngestStepShape == IngestShape /\ [IngestNext]_ingestVars => IngestShape'
<1> SUFFICES ASSUME IngestShape, [IngestNext]_ingestVars PROVE IngestShape'
  OBVIOUS
<1> USE DEF IngestShape, IngestTypeOK
<1>1. ASSUME Publish PROVE IngestShape'
  BY <1>1 DEF Publish, jobVars, histVars
<1>2. ASSUME NEW j \in Jobs, BeginPoll(j) PROVE IngestShape'
  <2>1. PICK p \in Latest : page' = [page EXCEPT ![j] = p]
    BY <1>2 DEF BeginPoll
  <2>2. DOMAIN p \subseteq Nat /\ Range(p) \subseteq 1 .. inFeed
    BY LatestPage
  <2> QED
    BY <1>2, <2>1, <2>2 DEF BeginPoll, Begin
<1>3. ASSUME NEW j \in Jobs, BeginBackfill(j) PROVE IngestShape'
  BY <1>3 DEF BeginBackfill, Begin
<1>4. ASSUME NEW j \in Jobs, FetchDay(j) PROVE IngestShape'
  <2>1. nextDay[j] \in 1 .. inFeed
    BY <1>4 DEF FetchDay, DayHasFilings
  <2>5. PICK first \in Nat \ {0} :
            \E p \in Listings(first, nextDay[j]) : page' = [page EXCEPT ![j] = p]
    <3>1. PICK first \in {nextDay[j]} \cup
                 (IF repeats /\ nextDay[j] > 1 THEN {nextDay[j] - 1} ELSE {}) :
            \E p \in Listings(first, nextDay[j]) : page' = [page EXCEPT ![j] = p]
      BY <1>4 DEF FetchDay
    <3>2. first \in Nat \ {0}
      BY <2>1, <3>1
    <3> QED
      BY <3>1, <3>2
  <2>2. PICK p \in Listings(first, nextDay[j]) : page' = [page EXCEPT ![j] = p]
    BY <2>5
  <2>3. DOMAIN p \subseteq Nat /\ Range(p) \subseteq 1 .. inFeed
    BY <2>1, ListingType, ListedPage
  <2>4. nextDay' \in [Jobs -> 0 .. Filings + 1]
    BY <1>4, <2>1 DEF FetchDay
  <2> QED
    BY <1>4, <2>2, <2>3, <2>4 DEF FetchDay, histVars
<1>5. ASSUME NEW j \in Jobs, Select(j) PROVE IngestShape'
  <2> DEFINE left == {i \in DOMAIN page[j] : page[j][i] \notin FindExisting(j)}
  <2>1. page' = [page EXCEPT ![j] = [i \in left |-> page[j][i]]]
    BY <1>5 DEF Select, Restrict
  <2>2. Range([i \in left |-> page[j][i]]) \subseteq Range(page[j])
    BY DEF Range
  <2>3. DOMAIN [i \in left |-> page[j][i]] \subseteq Nat
    OBVIOUS
  <2> HIDE DEF left
  <2>4. /\ page' = [k \in Jobs |-> page'[k]]
        /\ \A k \in Jobs : DOMAIN page'[k] \subseteq Nat /\ Range(page'[k]) \subseteq 1 .. inFeed
    BY <2>1, <2>2, <2>3
  <2> QED
    BY <1>5, <2>4 DEF Select, histVars
<1>6. ASSUME NEW j \in Jobs, Insert(j) PROVE IngestShape'
  <2> DEFINE f == NextFiling(j)
  <2>1. /\ f \in 1 .. inFeed /\ f \in Filing
        /\ DOMAIN RestOfPage(j) \subseteq Nat /\ Range(RestOfPage(j)) \subseteq 1 .. inFeed
    BY <1>6, NextIsInFeed DEF Insert
  <2>2. /\ inserted' = [inserted EXCEPT ![j] = @ \cup RowInserted(j, f)]
        /\ collected' = [collected EXCEPT ![j][f] = Plus(@, 1)]
    BY <1>6 DEF Insert
  <2> HIDE DEF f
  <2>3. RowInserted(j, f) \subseteq {f} /\ Plus(collected[j][f], 1) \in 0 .. 2
    BY <2>1, PlusIsPositive DEF RowInserted
  <2>4. inserted' \in [Jobs -> SUBSET Filing] /\ \A i \in Jobs : inserted'[i] \subseteq 1 .. inFeed
    BY <2>1, <2>2, <2>3
  <2>5. collected' \in [Jobs -> [Filing -> 0 .. 2]]
    BY <2>1, <2>2, <2>3
  <2> QED
    BY <1>6, <2>1, <2>4, <2>5 DEF Insert, histVars
<1>7. ASSUME NEW j \in Jobs, NextBatch(j) PROVE IngestShape'
  BY <1>7 DEF NextBatch, histVars
<1>8. ASSUME NEW j \in Jobs, CommitJob(j) PROVE IngestShape'
  BY <1>8, EndShape DEF CommitJob, histVars
<1>9. ASSUME NEW j \in Jobs, DeadlockVictim(j) PROVE IngestShape'
  <2>1. PICK i \in Jobs \ {j} :
        /\ DOMAIN page[i] # {}
        /\ inserted' = [inserted EXCEPT ![j] = {}, ![i] = @ \cup {NextFiling(i)}]
        /\ collected' = [collected EXCEPT ![j] = Nobody, ![i][NextFiling(i)] = Plus(@, 1)]
        /\ page' = [page EXCEPT ![j] = <<>>, ![i] = RestOfPage(i)]
        /\ jobAt' = [jobAt EXCEPT ![j] = "idle"] /\ kind' = [kind EXCEPT ![j] = "poll"]
        /\ nextDay' = [nextDay EXCEPT ![j] = 0]
        /\ UNCHANGED <<repeats, paced, inFeed, stored, events, backfills, aborts, overlapped>>
    BY <1>9 DEF DeadlockVictim, WaitsFor, histVars
  <2>2. /\ NextFiling(i) \in 1 .. inFeed /\ NextFiling(i) \in Filing
        /\ DOMAIN RestOfPage(i) \subseteq Nat /\ Range(RestOfPage(i)) \subseteq 1 .. inFeed
    BY <2>1, NextIsInFeed
  <2>3. inserted' \in [Jobs -> SUBSET Filing] /\ \A k \in Jobs : inserted'[k] \subseteq 1 .. inFeed
    BY <2>1, <2>2
  <2>4. collected' \in [Jobs -> [Filing -> 0 .. 2]]
    <3>1. Nobody \in [Filing -> 0 .. 2] /\ Plus(collected[i][NextFiling(i)], 1) \in 0 .. 2
      BY <2>2, PlusIsPositive DEF Nobody
    <3> QED
      BY <2>1, <2>2, <3>1
  <2>5. /\ page' = [k \in Jobs |-> page'[k]]
        /\ \A k \in Jobs : DOMAIN page'[k] \subseteq Nat /\ Range(page'[k]) \subseteq 1 .. inFeed
    <3>1. ASSUME NEW k \in Jobs
          PROVE  page'[k] \in {<<>>, RestOfPage(i), page[k]}
      BY <2>1
    <3>2. Range(<<>>) = {}
      BY DEF Range
    <3>3. page' = [k \in Jobs |-> page'[k]]
      BY <2>1
    <3>4. ASSUME NEW k \in Jobs
          PROVE  DOMAIN page'[k] \subseteq Nat /\ Range(page'[k]) \subseteq 1 .. inFeed
      <4>1. CASE page'[k] = <<>>
        BY <3>2, <4>1
      <4>2. CASE page'[k] = RestOfPage(i)
        BY <2>2, <4>2
      <4>3. CASE page'[k] = page[k]
        BY <4>3
      <4> QED
        BY <3>1, <4>1, <4>2, <4>3
    <3> QED
      BY <3>3, <3>4
  <2>6. /\ jobAt' \in [Jobs -> {"idle", "fetching", "selecting", "inserting"}]
        /\ kind' \in [Jobs -> {"poll", "backfill"}] /\ nextDay' \in [Jobs -> 0 .. Filings + 1]
    BY <2>1
  <2>7. UNCHANGED <<repeats, paced, inFeed, stored, events, backfills, aborts, overlapped>>
    BY <2>1
  <2> QED
    BY <2>3, <2>4, <2>5, <2>6, <2>7
<1>10. ASSUME NEW j \in Jobs, Fail(j) PROVE IngestShape'
  BY <1>10, EndShape DEF Fail
<1>11. ASSUME UNCHANGED ingestVars PROVE IngestShape'
  BY <1>11 DEF ingestVars, jobVars, histVars
<1> QED
  BY <1>1, <1>2, <1>3, <1>4, <1>5, <1>6, <1>7, <1>8, <1>9, <1>10, <1>11 DEF IngestNext, Run

\* The variables of the ingest jobs stay in their types.
THEOREM IngestTypeCorrect == IngestSpec => []IngestTypeOK
<1>1. IngestShape => IngestTypeOK
  BY DEF IngestShape
<1> QED
  BY <1>1, IngestInitShape, IngestStepShape, PTL DEF IngestSpec

-----------------------------------------------------------------------------
(***************************************************************************)
(* The components side by side.  A step of MCServices is a step of one of  *)
(* them and leaves the others alone, so that it behaves as each of them    *)
(* does and every theorem about one of them holds of it too.               *)
(***************************************************************************)

LEMMA ServicesStep ==
    ASSUME [ServicesNext]_<<vars, loginVars, ingestVars, scene>>
    PROVE  [Next]_vars /\ [LoginNext]_loginVars /\ [IngestNext]_ingestVars /\ scene' = scene
BY DEF ServicesNext

\* MCServices behaves as the relay, the login and the ingest each do on their own.
THEOREM ServicesAreTheComponents == ServicesSpec => Spec /\ LoginSpec /\ IngestSpec
<1>1. ServicesInit => Init /\ LoginInit /\ IngestInit
  BY DEF ServicesInit
<1> QED
  BY <1>1, ServicesStep, PTL DEF ServicesSpec, Spec, LoginSpec, IngestSpec

\* The variables of all three stay in their types.
THEOREM ServicesTypeCorrect == ServicesSpec => []ServicesTypeOK
<1> DEFINE OnStage == scene \in {"relay", "login", "ingest"}
<1>1. ServicesInit => OnStage
  BY DEF ServicesInit
<1>2. OnStage /\ [ServicesNext]_<<vars, loginVars, ingestVars, scene>> => OnStage'
  BY ServicesStep
<1>3. OnStage /\ TypeOK /\ LoginTypeOK /\ IngestTypeOK => ServicesTypeOK
  BY DEF ServicesTypeOK
<1> HIDE DEF OnStage
<1> QED
  BY <1>1, <1>2, <1>3, ServicesAreTheComponents, TypeCorrect, LoginTypeCorrect, IngestTypeCorrect, PTL
  DEF ServicesSpec

=============================================================================
