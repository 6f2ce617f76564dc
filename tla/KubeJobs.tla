------------------------------ MODULE KubeJobs ------------------------------
(***************************************************************************)
(* Job claiming for a Kubernetes cluster agent (kubernetes_cluster.go).    *)
(* An agent's poll runs GetKubernetesClusterActions, which runs two neo4j  *)
(* write transactions one after the other: the upgrade one, then the scan  *)
(* one.  Each runs one Cypher statement that MATCHes the STARTING jobs     *)
(* with retries < 3, keeps at most maxWork of them, SETs them IN_PROGRESS  *)
(* and returns their trigger actions, then commits.                        *)
(*                                                                         *)
(* neo4j runs at read committed: the MATCH sees committed values only and  *)
(* takes no lock; SET takes a write lock on each matched entity, held      *)
(* until the transaction ends, and does not re-evaluate the WHERE clause   *)
(* once it has the lock.  So a transaction is three kinds of step: the     *)
(* MATCH ("run"), one write lock per matched job ("set"), and the end:     *)
(* commit, commit failure, abort (timeout, driver error) or the deadlock   *)
(* detector choosing it as the victim.  Several polls for the same cluster *)
(* may run at once (one HTTP handler goroutine each).                      *)
(***************************************************************************)
EXTENDS Integers, FiniteSets, TLC

CONSTANTS
    Poll,         \* concurrent polls of the cluster's agent
    UpgradeJob,   \* SCHEDULED relationships from an AgentVersion
    ScanJob,      \* SCHEDULED scan nodes
    Retries,      \* job -> its retries property (not changed by this code)
    Trigger,      \* job -> "valid", "nil" or "bad" (fails to unmarshal)
    WorkVal,      \* workNumToExtract values an agent may send
    NoOwner,      \* no transaction holds the job's write lock
    MaxFailures   \* bound: transient transaction failures in a behaviour

Job == UpgradeJob \cup ScanJob

ASSUME /\ UpgradeJob \cap ScanJob = {}
       /\ Retries \in [Job -> Nat]
       /\ Trigger \in [Job -> {"valid", "nil", "bad"}]
       /\ WorkVal \subseteq Nat
       /\ NoOwner \notin Poll

VARIABLES
    status,      \* job -> committed status
    owner,       \* job -> transaction (poll) holding its write lock
    pc,          \* poll -> "idle", "upgrade" or "scan" (which Extract runs)
    phase,       \* poll -> "run" (before the MATCH) or "set" (locking)
    matched,     \* poll -> jobs the current statement matched
    limit,       \* poll -> workNumToExtract as passed in
    work,        \* poll -> workNumToExtract as decremented
    acts,        \* poll -> jobs whose actions were appended to actions
    dispatched,  \* job -> number of poll responses that carried its action
    failures     \* transient failures so far

vars == << status, owner, pc, phase, matched, limit, work, acts,
           dispatched, failures >>

STARTING == "STARTING"
IN_PROGRESS == "IN_PROGRESS"

\* The literal of "retries < 3".
MaxRetries == 3

Init ==
    /\ status = [j \in Job |-> STARTING]
    /\ owner = [j \in Job |-> NoOwner]
    /\ pc = [c \in Poll |-> "idle"]
    /\ phase = [c \in Poll |-> "run"]
    /\ matched = [c \in Poll |-> {}]
    /\ limit = [c \in Poll |-> 0]
    /\ work = [c \in Poll |-> 0]
    /\ acts = [c \in Poll |-> {}]
    /\ dispatched = [j \in Job |-> 0]
    /\ failures = 0

\* The MATCH pattern of each Extract function.
JobsOf(k) == IF k = "upgrade" THEN UpgradeJob ELSE ScanJob

\* Mutant: the retry limit one lower ("retries < 2").
CandidatesOffByOne(k) ==
    {j \in JobsOf(k) : status[j] = STARTING /\ Retries[j] < MaxRetries - 1}

\* The WHERE clause, evaluated on committed values.
Candidates(k) ==
    {j \in JobsOf(k) : status[j] = STARTING /\ Retries[j] < MaxRetries}

\* Mutant: the LIMIT clause left out.
MatchLimitUnbounded(cands, maxWork) == {cands}

\* "WITH s LIMIT $max_work": any maxWork of the candidates, or all of them.
MatchLimit(cands, maxWork) ==
    {m \in SUBSET cands :
        Cardinality(m) = IF maxWork < Cardinality(cands)
                         THEN maxWork ELSE Cardinality(cands)}

\* The records loop: a nil trigger_action or one that fails to unmarshal
\* is logged and skipped, after the statement has already set the job
\* IN_PROGRESS.
Built(c) == {j \in matched[c] : Trigger[j] = "valid"}

\* Mutant: the actions are appended whatever the error.
AppendedIgnoringErr(res, err) == res

\* "if upgradeErr == nil { actions = append(actions, upgradeActions...) }"
Appended(res, err) == IF err THEN {} ELSE res

\* The write locks of c's transaction are released (commit or tx.Close).
Released(c) == [j \in Job |-> IF owner[j] = c THEN NoOwner ELSE owner[j]]

\* Mutant: the work left is not decremented by the upgrade actions.
UpgradeReturnedNoDecrement(c, res, err) ==
    /\ work' = work
    /\ acts' = [acts EXCEPT ![c] = @ \cup Appended(res, err)]
    /\ pc' = [pc EXCEPT ![c] = "scan"]
    /\ UNCHANGED dispatched

\* GetKubernetesClusterActions after ExtractPendingKubernetesClusterUpgrade
\* returned (res, err): the work left shrinks by len(res) even on error.
UpgradeReturned(c, res, err) ==
    /\ work' = [work EXCEPT ![c] = @ - Cardinality(res)]
    /\ acts' = [acts EXCEPT ![c] = @ \cup Appended(res, err)]
    /\ pc' = [pc EXCEPT ![c] = "scan"]
    /\ UNCHANGED dispatched

\* ... after ExtractStartingKubernetesClusterScans returned: the actions
\* are returned to the agent.
ScanReturned(c, res, err) ==
    LET sent == acts[c] \cup Appended(res, err)
    IN /\ work' = [work EXCEPT ![c] = @ - Cardinality(res)]
       /\ acts' = [acts EXCEPT ![c] = sent]
       /\ pc' = [pc EXCEPT ![c] = "idle"]
       /\ dispatched' = [j \in Job |-> dispatched[j] + IF j \in sent THEN 1 ELSE 0]

\* The transaction of c has ended and its Extract function returns.
Returned(c, res, err) ==
    /\ phase' = [phase EXCEPT ![c] = "run"]
    /\ matched' = [matched EXCEPT ![c] = {}]
    /\ IF pc[c] = "upgrade" THEN UpgradeReturned(c, res, err)
                            ELSE ScanReturned(c, res, err)

(***************************************************************************)
(* Actions                                                                 *)
(***************************************************************************)

\* The agent polls with workNumToExtract = w.  With w = 0 the function
\* returns at once with no job actions.
StartPoll(c, w) ==
    /\ pc[c] = "idle"
    /\ limit' = [limit EXCEPT ![c] = w]
    /\ work' = [work EXCEPT ![c] = w]
    /\ acts' = [acts EXCEPT ![c] = {}]
    /\ pc' = [pc EXCEPT ![c] = IF w = 0 THEN "idle" ELSE "upgrade"]
    /\ UNCHANGED << status, owner, phase, matched, dispatched, failures >>

\* tx.Run: the MATCH ... WHERE ... LIMIT $max_work reads committed state.
Run(c) ==
    /\ pc[c] # "idle" /\ phase[c] = "run"
    /\ \E m \in MatchLimit(Candidates(pc[c]), work[c]) :
          matched' = [matched EXCEPT ![c] = m]
    /\ phase' = [phase EXCEPT ![c] = "set"]
    /\ UNCHANGED << status, owner, pc, limit, work, acts, dispatched, failures >>

\* SET on one matched job: wait for, then take, its write lock.  The WHERE
\* clause is not evaluated again.
SetStatus(c, j) ==
    /\ pc[c] # "idle" /\ phase[c] = "set"
    /\ j \in matched[c] /\ owner[j] = NoOwner
    /\ owner' = [owner EXCEPT ![j] = c]
    /\ UNCHANGED << status, pc, phase, matched, limit, work, acts, dispatched,
                    failures >>

\* Every matched job is locked and set.
AllSet(c) == pc[c] # "idle" /\ phase[c] = "set" /\ \A j \in matched[c] : owner[j] = c

\* "return res, tx.Commit()" with a successful commit.
Commit(c) ==
    /\ AllSet(c)
    /\ status' = [j \in Job |-> IF j \in matched[c] THEN IN_PROGRESS ELSE status[j]]
    /\ owner' = Released(c)
    /\ Returned(c, Built(c), FALSE)
    /\ UNCHANGED << limit, failures >>

\* tx.Commit() fails: the writes are rolled back, but res is returned.
CommitFail(c) ==
    /\ AllSet(c) /\ failures < MaxFailures
    /\ owner' = Released(c)
    /\ failures' = failures + 1
    /\ Returned(c, Built(c), TRUE)
    /\ UNCHANGED << status, limit >>

\* The client, session, transaction, Run or Collect returns an error (or
\* the 30 s transaction timeout fires): return the empty res and the error;
\* the deferred tx.Close rolls back.
Abort(c) ==
    /\ pc[c] # "idle" /\ failures < MaxFailures
    /\ owner' = Released(c)
    /\ failures' = failures + 1
    /\ Returned(c, {}, TRUE)
    /\ UNCHANGED << status, limit >>

\* neo4j's deadlock detector fails c's statement: c waits for a lock held by
\* a transaction that waits for a lock c holds.
DeadlockVictim(c) ==
    /\ pc[c] # "idle" /\ phase[c] = "set"
    /\ \E j \in matched[c], d \in Poll \ {c} :
          /\ owner[j] = d /\ phase[d] = "set"
          /\ \E k \in matched[d] : owner[k] = c
    /\ owner' = Released(c)
    /\ Returned(c, {}, TRUE)
    /\ UNCHANGED << status, limit, failures >>

\* One step of c's transaction that the program takes by itself.
TxStep(c) == Run(c) \/ (\E j \in Job : SetStatus(c, j)) \/ Commit(c)

Next ==
    \E c \in Poll :
        \/ \E w \in WorkVal : StartPoll(c, w)
        \/ TxStep(c)
        \/ CommitFail(c)
        \/ Abort(c)
        \/ DeadlockVictim(c)

\* The agent keeps polling and eventually has capacity; the deadlock
\* detector always breaks a deadlock; failures are not forced.  A running
\* handler keeps running, and its lock requests are strongly fair: neo4j
\* grants a released write lock to the transaction already waiting for it
\* before a later request, so a waiter is not overtaken forever by polls
\* that keep restarting.
Fairness ==
    \A c \in Poll :
        /\ WF_vars(\E w \in WorkVal \ {0} : StartPoll(c, w))
        /\ WF_vars(TxStep(c))
        /\ \A j \in Job : SF_vars(SetStatus(c, j))
        /\ WF_vars(DeadlockVictim(c))

Spec == Init /\ [][Next]_vars /\ Fairness

-----------------------------------------------------------------------------
(***************************************************************************)
(* Properties                                                              *)
(***************************************************************************)
TypeOK ==
    /\ status \in [Job -> {STARTING, IN_PROGRESS}]
    /\ owner \in [Job -> Poll \cup {NoOwner}]
    /\ pc \in [Poll -> {"idle", "upgrade", "scan"}]
    /\ phase \in [Poll -> {"run", "set"}]
    /\ matched \in [Poll -> SUBSET Job]
    /\ limit \in [Poll -> WorkVal] /\ work \in [Poll -> Nat]
    /\ acts \in [Poll -> SUBSET Job]
    /\ dispatched \in [Job -> Nat]
    /\ failures \in 0..MaxFailures

\* The work limit of GetKubernetesClusterActions: one poll never hands the
\* agent more job actions than the workNumToExtract it asked with, however
\* the upgrade and scan transactions end.
DispatchWithinLimit == \A c \in Poll : Cardinality(acts[c]) <= limit[c]

\* Only committed claims are dispatched: every job whose action reached an
\* agent had retries below the limit, and its IN_PROGRESS status is
\* committed (no action of a rolled-back transaction is sent).
DispatchedWasClaimed ==
    \A j \in Job : dispatched[j] > 0 =>
        /\ status[j] = IN_PROGRESS
        /\ Retries[j] < MaxRetries

\* Progress of the job queue: every job with retries left and a valid
\* trigger action is eventually sent to the agent, when the agent keeps
\* polling with capacity.
EligibleEventuallyDispatched ==
    \A j \in Job : Trigger[j] = "valid" /\ Retries[j] < MaxRetries =>
        <>(dispatched[j] > 0)

(***************************************************************************)
(* Properties the code is checked against and found not to have.          *)
(***************************************************************************)

\* A job is claimed once: no trigger action reaches agents twice.
NoDoubleDispatch == \A j \in Job : dispatched[j] <= 1

\* A claimed job is handed out: a job whose IN_PROGRESS is committed has
\* been dispatched, or its action is in a poll's pending response.
ClaimedWasDispatched ==
    \A j \in Job : status[j] = IN_PROGRESS =>
        \/ dispatched[j] > 0
        \/ \E c \in Poll : pc[c] # "idle" /\ j \in acts[c]

=============================================================================
