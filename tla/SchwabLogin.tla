----------------------------- MODULE SchwabLogin -----------------------------
(***************************************************************************)
(* Signing in to Schwab, from the login link to a pod that can call the    *)
(* broker: apps/webhook/app.py, the Secret it patches, and the client that *)
(* adapters/schwab/broker.py makes of the file the Secret is mounted as.   *)
(*                                                                         *)
(* The webhook is one process: the check of a callback's state runs        *)
(* without an await, its exchange and patch run in the thread pool, so     *)
(* callbacks overlap.  Browsers may load a callback's address again.       *)
(*                                                                         *)
(* A login's state is its number.  Tokens are numbered as Schwab grants    *)
(* them; 0 is none.                                                        *)
(***************************************************************************)
EXTENDS Naturals, Sequences

CONSTANTS
    MaxLogins,      \* bound on the logins
    StateTTL,       \* _STATE_TTL_SECONDS, in ticks
    LastTick,       \* bound on the time that passes
    Deployments,    \* pods that mount the token: api, mcp (not the worker's,
                    \* whose process makes no broker)
    MaxRestarts     \* bound on restarts of any process

ASSUME LoginAssumption ==
    /\ MaxLogins \in Nat /\ StateTTL \in Nat /\ LastTick \in Nat /\ MaxRestarts \in Nat

VARIABLES
    tick,       \* the webhook's clock
    begun,      \* begun[l]: when login l's state was issued
    pending,    \* _PENDING_STATES: its keys
    inflight,   \* callbacks between their check and their answer
    granted,    \* tokens Schwab has granted
    secret,     \* the token in the Kubernetes Secret
    mounted,    \* mounted[d]: the token in the file pod d sees
    client,     \* client[d]: the token pod d's client was made from
    restarts,
    accepted,   \* history: states an exchange was started for
    shown,      \* history: the latest token a page has called written
    rolled,     \* history: rolled[d] is what had been shown when pod d was made
    overtaken   \* history: two exchanges have been open together

webhookVars == <<begun, pending, inflight, granted, secret, accepted, shown, overtaken>>
podVars == <<mounted, client, rolled>>
loginVars == <<tick, webhookVars, podVars, restarts>>

-----------------------------------------------------------------------------

State == 1 .. MaxLogins
Token == 0 .. MaxLogins

LoginTypeOK ==
    /\ tick \in 0 .. LastTick
    /\ begun \in Seq(0 .. LastTick) /\ Len(begun) <= MaxLogins
    /\ pending \subseteq DOMAIN begun
    /\ inflight \subseteq [state : DOMAIN begun, token : Token]
    /\ granted \in Token
    /\ secret \in 0 .. granted
    /\ mounted \in [Deployments -> 0 .. granted]
    /\ client \in [Deployments -> 0 .. granted]
    /\ restarts \in 0 .. MaxRestarts
    /\ accepted \subseteq State
    /\ shown \in Token
    /\ rolled \in [Deployments -> Token]
    /\ overtaken \in BOOLEAN

LoginInit ==
    /\ tick = 0
    /\ begun = <<>> /\ pending = {} /\ inflight = {}
    /\ granted = 0 /\ secret = 0
    /\ mounted = [d \in Deployments |-> 0]
    /\ client = [d \in Deployments |-> 0]
    /\ restarts = 0
    /\ accepted = {} /\ shown = 0
    /\ rolled = [d \in Deployments |-> 0]
    /\ overtaken = FALSE

-----------------------------------------------------------------------------
(***************************************************************************)
(* The webhook.                                                            *)
(***************************************************************************)

TimePasses ==
    /\ tick < LastTick
    /\ tick' = tick + 1
    /\ UNCHANGED <<webhookVars, podVars, restarts>>

\* _prune_states: what is left of the pending states.
Pruned == {l \in pending : tick - begun[l] <= StateTTL}

\* GET /schwab/login, configured.
Login ==
    /\ Len(begun) < MaxLogins
    /\ begun' = Append(begun, tick)
    /\ pending' = Pruned \cup {Len(begun) + 1}
    /\ UNCHANGED <<tick, inflight, granted, secret, accepted, shown, overtaken, podVars,
                   restarts>>

\* Faulty variant: the state is not used up.
CallbackKeepsState(l) ==
    /\ pending' = Pruned
    /\ l \in Pruned
    /\ inflight' = inflight \cup {[state |-> l, token |-> 0]}
    /\ accepted' = accepted \cup {l}
    /\ overtaken' = (overtaken \/ inflight # {})
    /\ UNCHANGED <<tick, begun, granted, secret, shown, podVars, restarts>>

\* GET /schwab/callback with a code and login l's state, the first time or again.
\* (With an error or no code it is refused before anything changes.)
Callback(l) ==
    /\ pending' = Pruned \ {l}
    /\ IF l \in Pruned
       THEN /\ inflight' = inflight \cup {[state |-> l, token |-> 0]}
            /\ accepted' = accepted \cup {l}
            /\ overtaken' = (overtaken \/ inflight # {})
       ELSE UNCHANGED <<inflight, accepted, overtaken>>
    /\ UNCHANGED <<tick, begun, granted, secret, shown, podVars, restarts>>

\* client_from_received_url: Schwab trades the code for a token.
Exchange(x) ==
    /\ x.token = 0
    /\ granted < MaxLogins
    /\ granted' = granted + 1
    /\ inflight' = (inflight \ {x}) \cup {[x EXCEPT !.token = granted + 1]}
    /\ UNCHANGED <<tick, begun, pending, secret, accepted, shown, overtaken, podVars, restarts>>

\* _patch_k8s_secret succeeds, and the page says so.
Patch(x) ==
    /\ x.token # 0
    /\ secret' = x.token
    /\ shown' = x.token
    /\ inflight' = inflight \ {x}
    /\ UNCHANGED <<tick, begun, pending, granted, accepted, overtaken, podVars, restarts>>

\* 502: the exchange failed, or kubectl did after it.
AnswerBadGateway(x) ==
    /\ inflight' = inflight \ {x}
    /\ UNCHANGED <<tick, begun, pending, granted, secret, accepted, shown, overtaken, podVars,
                   restarts>>

\* The states were in memory; a thread may have patched and not answered.
WebhookRestarts ==
    /\ restarts < MaxRestarts
    /\ restarts' = restarts + 1
    /\ pending' = {}
    /\ inflight' = {}
    /\ secret' \in {secret} \cup {x.token : x \in {y \in inflight : y.token # 0}}
    /\ UNCHANGED <<tick, begun, granted, accepted, shown, overtaken, podVars>>

-----------------------------------------------------------------------------
(***************************************************************************)
(* A pod that calls the broker.                                            *)
(***************************************************************************)

\* Faulty variant: the file is mounted with a subPath and never updated.
KubeletSyncSubPath(d) == mounted[d] # secret /\ UNCHANGED loginVars

\* The kubelet refreshes the mounted file.
KubeletSync(d) ==
    /\ mounted[d] # secret
    /\ mounted' = [mounted EXCEPT ![d] = secret]
    /\ UNCHANGED <<tick, webhookVars, client, restarts, rolled>>

\* _get_client: the client once made is kept; without a file the call raises
\* SchwabAuthError and the next one looks again.
BrokerCall(d) ==
    /\ client[d] = 0
    /\ mounted[d] # 0
    /\ client' = [client EXCEPT ![d] = mounted[d]]
    /\ UNCHANGED <<tick, webhookVars, mounted, restarts, rolled>>

\* Faulty variant: the new pod gets the file the old one had.
RolloutKeepsFile(d) ==
    /\ restarts < MaxRestarts
    /\ restarts' = restarts + 1
    /\ client' = [client EXCEPT ![d] = 0]
    /\ rolled' = [rolled EXCEPT ![d] = shown]
    /\ UNCHANGED <<tick, webhookVars, mounted>>

\* kubectl rollout restart: a new pod mounts the Secret as it is.
Rollout(d) ==
    /\ restarts < MaxRestarts
    /\ restarts' = restarts + 1
    /\ client' = [client EXCEPT ![d] = 0]
    /\ mounted' = [mounted EXCEPT ![d] = secret]
    /\ rolled' = [rolled EXCEPT ![d] = shown]
    /\ UNCHANGED <<tick, webhookVars>>

\* The container dies and is started again in the same pod: close(), or not.
ContainerRestarts(d) ==
    /\ restarts < MaxRestarts
    /\ restarts' = restarts + 1
    /\ client' = [client EXCEPT ![d] = 0]
    /\ UNCHANGED <<tick, webhookVars, mounted, rolled>>

LoginNext ==
    \/ TimePasses
    \/ Login
    \/ \E l \in DOMAIN begun : Callback(l)
    \/ \E x \in inflight : Exchange(x) \/ Patch(x) \/ AnswerBadGateway(x)
    \/ WebhookRestarts
    \/ \E d \in Deployments :
        KubeletSync(d) \/ BrokerCall(d) \/ Rollout(d) \/ ContainerRestarts(d)

LoginSpec == LoginInit /\ [][LoginNext]_loginVars

\* The kubelet syncs a mounted Secret within a minute or so; the API keeps being
\* asked for the portfolio.
LoginFairness ==
    \A d \in Deployments :
        /\ WF_loginVars(KubeletSync(d))
        /\ WF_loginVars(BrokerCall(d))

-----------------------------------------------------------------------------
(***************************************************************************)
(* Properties.                                                             *)
(***************************************************************************)

\* A login's state is good for one exchange within its time to live, however
\* often its callback is loaded, whatever restarts and however late it comes.
AcceptedOnceInTime ==
    [][\A l \in State :
        (\E x \in inflight' : x.state = l /\ x.token = 0 /\ x \notin inflight) =>
            l \notin accepted /\ tick - begun[l] <= StateTTL]_loginVars

\* The callback's page: roll the pods to pick the token up.  A pod made after
\* the page calls with that token or a later one, unless two sign-ins crossed.
RolledPodHasToken ==
    ~overtaken => \A d \in Deployments : client[d] # 0 => client[d] >= rolled[d]

\* A pod that started without a token file needs no restart: once a token is
\* stored, its calls get a client, whatever restarts on the way.
SignedOutPodRecovers ==
    \A d \in Deployments : (secret # 0 /\ client[d] = 0) ~> client[d] # 0

=============================================================================
