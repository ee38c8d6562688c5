----------------------------- MODULE MCServices -----------------------------
(***************************************************************************)
(* The processes that are killed and started again, for TLC: the relay     *)
(* workers, the webhook with the pods that call the broker, and the jobs   *)
(* that poll the congressional feed.  The components share no variable, so *)
(* a behaviour is a scene of one of them and the others stay in an initial *)
(* state.                                                                  *)
(***************************************************************************)
EXTENDS OutboxRelay, SchwabLogin, IngestDisclosures, TLC

VARIABLE scene

ServicesTypeOK ==
    /\ scene \in {"relay", "login", "ingest"}
    /\ TypeOK
    /\ LoginTypeOK
    /\ IngestTypeOK

ServicesInit ==
    /\ scene \in {"relay", "login", "ingest"}
    /\ Init /\ (scene # "relay" => prompt)
    /\ LoginInit
    /\ IngestInit /\ (scene # "ingest" => paced)

ServicesNext ==
    \/ scene = "relay"  /\ Next       /\ UNCHANGED <<loginVars, ingestVars, scene>>
    \/ scene = "login"  /\ LoginNext  /\ UNCHANGED <<vars, ingestVars, scene>>
    \/ scene = "ingest" /\ IngestNext /\ UNCHANGED <<vars, loginVars, scene>>

ServicesSpec == ServicesInit /\ [][ServicesNext]_<<vars, loginVars, ingestVars, scene>>

\* The relay goes on with its passes and the login has its own fairness.  The
\* CronJobs start a poll again and again, and what has begun goes on; an INSERT
\* that waits for a transaction is next when that transaction ends (PostgreSQL
\* queues the waiters), hence the strong fairness.
FairServices ==
    /\ ServicesSpec
    /\ WF_vars(scene = "relay" /\ Tick)
    /\ \A w \in Relays : WF_vars(scene = "relay" /\ Pass(w))
    /\ LoginFairness
    /\ \A j \in Jobs :
        /\ WF_ingestVars(scene = "ingest" /\ (BeginPoll(j) \/ Run(j)))
        /\ SF_ingestVars(scene = "ingest" /\ Insert(j))

=============================================================================
