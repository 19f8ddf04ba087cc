--------------------------- MODULE ExecutorProofs ---------------------------
(***************************************************************************)
(* Proofs about Executor for any number of runs, workers, steps, retries,  *)
(* deliveries, database errors and worker deaths.                          *)
(***************************************************************************)
EXTENDS Executor, DataInduction, FiniteSetTheorems, TLAPS

\* A commit that flushes some columns of a breaker row leaves a breaker row.
LEMMA FlushType ==
    ASSUME breaker \in Breaker, NEW loaded, NEW wanted \in Breaker
    PROVE  Flush(loaded, wanted) \in Breaker
  BY DEF Flush, Breaker

\* The row a new pipeline gets is a breaker row.
LEMMA NewBreakerType == NewBreaker \in Breaker
  <1>1. (CHOOSE t \in Thresholds : TRUE) \in Thresholds
    BY ConstantsAssumption
  <1> QED
    BY <1>1 DEF NewBreaker, Breaker, BreakerState

\* Changing columns of a breaker to values of their types gives a breaker.
LEMMA ExceptType ==
    ASSUME NEW b \in Breaker, NEW s \in BreakerState, NEW t \in Thresholds,
           NEW e \in Errors \cup {NoReason}
    PROVE  /\ [b EXCEPT !.threshold = t] \in Breaker
           /\ [b EXCEPT !.state = s] \in Breaker
           /\ [b EXCEPT !.state = s, !.reason = e] \in Breaker
  BY DEF Breaker

-----------------------------------------------------------------------------
(* Type correctness *)

\* The initial state is well typed.
LEMMA InitType == Init => TypeOK
  BY ConstantsAssumption, NewBreakerType
  DEF Init, TypeOK, Types, BusyHasJob, Label, Unclaimed, Executing, Evaluating, Status

\* A worker that is not idle has a run.
LEMMA JobIsRun ==
    ASSUME TypeOK, NEW w \in Workers, pc[w] # "idle"
    PROVE  job[w] \in Runs
  BY DEF TypeOK, Types, BusyHasJob

\* What the proofs about a step expand.
USE DEF Goto, SetStatus, Fault, Abandons, Survives, BackToLoop, LeaveSteps, shared, local, trouble,
        Label, Unclaimed, Executing, Evaluating, Status, Active

\* Every step leaves each variable in its set.
LEMMA NextTypes == TypeOK /\ [Next]_vars => Types'
  <1> SUFFICES ASSUME TypeOK, [Next]_vars
               PROVE  Types'
    OBVIOUS
  <1>types. Types
    BY DEF TypeOK
  <1>bounds. MaxFaults \in Nat /\ MaxPushes \in Nat
    BY ConstantsAssumption
  <1>Create. ASSUME NEW r \in Runs, Create(r) PROVE Types'
    BY <1>types, <1>Create DEF Types, Create
  <1>Push. ASSUME NEW r \in Runs, Push(r) PROVE Types'
    BY <1>types, <1>bounds, <1>Push DEF Types, Push
  <1>WindowSlides. ASSUME NEW r \in Runs, WindowSlides(r) PROVE Types'
    BY <1>types, <1>WindowSlides DEF Types, WindowSlides
  <1>PersonReads. ASSUME PersonReads PROVE Types'
    BY <1>types, <1>PersonReads DEF Types, PersonReads
  <1>PersonWrites. ASSUME PersonWrites PROVE Types'
    <2>1. person.seen \in Breaker
      BY <1>types DEF Types
    <2>2. \E wanted \in Breaker : SaveBreaker(person.seen, wanted)
      BY <2>1, <1>PersonWrites, ExceptType DEF PersonWrites, BreakerState
    <2>3. breaker' \in Breaker /\ forgiven' \subseteq Runs
      BY <2>2, <1>types, FlushType DEF SaveBreaker, Types
    <2> QED
      BY <2>3, <1>types, <1>PersonWrites, NewBreakerType DEF Types, PersonWrites
  <1>Pop. ASSUME NEW w \in Workers, Pop(w) PROVE Types'
    BY <1>types, <1>Pop DEF Types, Pop
  <1>ReadGate. ASSUME NEW w \in Workers, ReadGate(w) PROVE Types'
    BY <1>types, <1>ReadGate DEF Types, ReadGate
  <1>Block. ASSUME NEW w \in Workers, Block(w) PROVE Types'
    <2>1. job[w] \in Runs
      BY <1>Block, JobIsRun DEF Block
    <2>2. status' \in [Runs -> Status]
      BY <2>1, <1>types, <1>Block DEF Types, Block
    <2> QED
      BY <2>2, <1>types, <1>Block, NewBreakerType DEF Types, Block
  <1>Claim. ASSUME NEW w \in Workers, Claim(w) PROVE Types'
    <2>1. job[w] \in Runs
      BY <1>Claim, JobIsRun DEF Claim
    <2>2. CASE status[job[w]] = "queued"
      BY <2>1, <2>2, <1>types, <1>Claim DEF Types, Claim
    <2>3. CASE status[job[w]] # "queued"
      <3>1. UNCHANGED status /\ BackToLoop(w)
        BY <2>3, <1>Claim DEF Claim
      <3> QED
        BY <3>1, <1>types, <1>Claim, NewBreakerType DEF Types, Claim
    <2> QED
      BY <2>2, <2>3
  <1>ClaimFails. ASSUME NEW w \in Workers, ClaimFails(w) PROVE Types'
    <2>1. job[w] \in Runs
      BY <1>ClaimFails, JobIsRun DEF ClaimFails
    <2> QED
      BY <2>1, <1>types, <1>bounds, <1>ClaimFails, NewBreakerType DEF Types, ClaimFails
  <1>Refetch. ASSUME NEW w \in Workers, Refetch(w) PROVE Types'
    BY <1>types, <1>Refetch DEF Types, Refetch
  <1>RefetchFails. ASSUME NEW w \in Workers, RefetchFails(w) PROVE Types'
    <2>1. job[w] \in Runs
      BY <1>RefetchFails, JobIsRun DEF RefetchFails
    <2> QED
      BY <2>1, <1>types, <1>bounds, <1>RefetchFails, NewBreakerType DEF Types, RefetchFails
  <1>StepSucceeds. ASSUME NEW w \in Workers, StepSucceeds(w) PROVE Types'
    BY <1>types, <1>StepSucceeds DEF Types, StepSucceeds, AtStep
  <1>StepRetries. ASSUME NEW w \in Workers, StepRetries(w) PROVE Types'
    <2>1. job[w] \in Runs
      BY <1>StepRetries, JobIsRun DEF StepRetries, AtStep
    <2>2. status' \in [Runs -> Status] /\ retryCount' \in [Runs -> Nat]
      BY <2>1, <1>types, <1>StepRetries DEF Types, StepRetries, SaveRetry
    <2>3. attempt' \in [Workers -> Nat \ {0}]
      BY <1>types, <1>StepRetries DEF Types, StepRetries
    <2>4. UNCHANGED <<queue, recent, breaker, pc, job, seen, step, person, pushes, trouble, forgiven>>
      BY <1>StepRetries DEF StepRetries
    <2> QED
      BY <2>2, <2>3, <2>4, <1>types DEF Types
  <1>RetryNotSaved. ASSUME NEW w \in Workers, RetryNotSaved(w) PROVE Types'
    <2>1. job[w] \in Runs
      BY <1>RetryNotSaved, JobIsRun DEF RetryNotSaved, AtStep
    <2>2. status' \in [Runs -> Status] /\ retryCount' \in [Runs -> Nat]
      <3>1. CASE SaveRetry(w)
        BY <2>1, <3>1, <1>types DEF Types, SaveRetry
      <3>2. CASE UNCHANGED <<status, retryCount>>
        BY <3>2, <1>types DEF Types
      <3> QED
        BY <3>1, <3>2, <1>RetryNotSaved DEF RetryNotSaved
    <2>3. /\ faults' \in 0..MaxFaults /\ abandoned' = abandoned
          /\ pc' \in [Workers -> Label] /\ step' \in [Workers -> 1..Len(Retries) + 1]
          /\ attempt' \in [Workers -> Nat \ {0}]
          /\ UNCHANGED <<queue, recent, breaker, job, seen, person, pushes, forgiven>>
      BY <1>types, <1>bounds, <1>RetryNotSaved DEF Types, RetryNotSaved
    <2> QED
      BY <2>2, <2>3, <1>types DEF Types
  <1>StepGivesUp. ASSUME NEW w \in Workers, StepGivesUp(w) PROVE Types'
    BY <1>types, <1>StepGivesUp DEF Types, StepGivesUp, AtStep
  <1>StepsNotLoaded. ASSUME NEW w \in Workers, StepsNotLoaded(w) PROVE Types'
    BY <1>types, <1>bounds, <1>StepsNotLoaded DEF Types, StepsNotLoaded
  <1>Succeed. ASSUME NEW w \in Workers, Succeed(w) PROVE Types'
    <2>1. job[w] \in Runs
      BY <1>Succeed, JobIsRun DEF Succeed
    <2> QED
      BY <2>1, <1>types, <1>Succeed DEF Types, Succeed
  <1>SucceedFails. ASSUME NEW w \in Workers, SucceedFails(w) PROVE Types'
    <2>1. job[w] \in Runs
      BY <1>SucceedFails, JobIsRun DEF SucceedFails
    <2>2. status' \in [Runs -> Status]
      BY <2>1, <1>types, <1>SucceedFails DEF Types, SucceedFails
    <2>3. /\ faults' \in 0..MaxFaults /\ abandoned' = abandoned
          /\ pc' \in [Workers -> Label] /\ step' \in [Workers -> 1..Len(Retries) + 1]
          /\ attempt' \in [Workers -> Nat \ {0}]
          /\ UNCHANGED <<queue, retryCount, recent, breaker, job, seen, person, pushes, forgiven>>
      BY <1>types, <1>bounds, <1>SucceedFails DEF Types, SucceedFails
    <2> QED
      BY <2>2, <2>3, <1>types DEF Types
  <1>CloseBreaker. ASSUME NEW w \in Workers, CloseBreaker(w) PROVE Types'
    <2>1. seen[w] \in Breaker
      BY <1>types DEF Types
    <2>a. [seen[w] EXCEPT !.state = "closed", !.reason = NoReason] \in Breaker
      BY <2>1 DEF Breaker, BreakerState
    <2>2. \/ UNCHANGED <<breaker, forgiven>>
          \/ \E wanted \in Breaker : SaveBreaker(seen[w], wanted)
      BY <2>a, <1>CloseBreaker DEF CloseBreaker
    <2>3. breaker' \in Breaker /\ forgiven' \subseteq Runs
      BY <2>2, <1>types, FlushType DEF SaveBreaker, Types
    <2> QED
      BY <2>3, <1>types, <1>CloseBreaker DEF Types, CloseBreaker
  <1>CloseBreakerFails. ASSUME NEW w \in Workers, CloseBreakerFails(w) PROVE Types'
    BY <1>types, <1>bounds, <1>CloseBreakerFails DEF Types, CloseBreakerFails
  <1>MarkFailed. ASSUME NEW w \in Workers, MarkFailed(w) PROVE Types'
    <2>1. job[w] \in Runs
      BY <1>MarkFailed, JobIsRun DEF MarkFailed
    <2> QED
      BY <2>1, <1>types, <1>MarkFailed DEF Types, MarkFailed
  <1>MarkFailedFails. ASSUME NEW w \in Workers, MarkFailedFails(w) PROVE Types'
    <2>1. job[w] \in Runs
      BY <1>MarkFailedFails, JobIsRun DEF MarkFailedFails
    <2> QED
      BY <2>1, <1>types, <1>bounds, <1>MarkFailedFails DEF Types, MarkFailedFails
  <1>ReadBreaker. ASSUME NEW w \in Workers, ReadBreaker(w) PROVE Types'
    BY <1>types, <1>ReadBreaker DEF Types, ReadBreaker, Breaker, BreakerState
  <1>CountFailures. ASSUME NEW w \in Workers, CountFailures(w) PROVE Types'
    BY <1>types, <1>CountFailures DEF Types, CountFailures
  <1>OpenBreaker. ASSUME NEW w \in Workers, OpenBreaker(w) PROVE Types'
    <2>1. seen[w] \in Breaker
      BY <1>types DEF Types
    <2>a. \A e \in Errors : Opened(seen[w], e) \in Breaker
      BY <2>1 DEF Opened, Breaker, BreakerState
    <2>2. \E wanted \in Breaker : SaveBreaker(seen[w], wanted)
      BY <2>a, <1>OpenBreaker DEF OpenBreaker
    <2>3. breaker' \in Breaker /\ forgiven' \subseteq Runs
      BY <2>2, <1>types, FlushType DEF SaveBreaker, Types
    <2> QED
      BY <2>3, <1>types, <1>OpenBreaker DEF Types, OpenBreaker
  <1>EvaluationFails. ASSUME NEW w \in Workers, EvaluationFails(w) PROVE Types'
    BY <1>types, <1>bounds, <1>EvaluationFails DEF Types, EvaluationFails
  <1>Finally. ASSUME NEW w \in Workers, Finally(w) PROVE Types'
    BY <1>types, <1>Finally, NewBreakerType DEF Types, Finally
  <1>Die. ASSUME NEW w \in Workers, Die(w) PROVE Types'
    <2>1. job[w] \in Runs
      BY <1>Die, JobIsRun DEF Die
    <2> QED
      BY <2>1, <1>types, <1>bounds, <1>Die, NewBreakerType DEF Types, Die
  <1>stutter. ASSUME UNCHANGED vars PROVE Types'
    BY <1>types, <1>stutter DEF Types, vars
  <1> QED
    BY <1>Create, <1>Push, <1>WindowSlides, <1>PersonReads, <1>PersonWrites,
       <1>Pop, <1>ReadGate, <1>Block, <1>Claim, <1>ClaimFails, <1>Refetch, <1>RefetchFails, <1>StepSucceeds,
       <1>StepRetries, <1>RetryNotSaved, <1>StepGivesUp, <1>StepsNotLoaded, <1>Succeed, <1>SucceedFails, <1>CloseBreaker, <1>CloseBreakerFails,
       <1>MarkFailed, <1>MarkFailedFails, <1>ReadBreaker, <1>CountFailures, <1>OpenBreaker, <1>EvaluationFails, <1>Finally, <1>Die, <1>stutter DEF Next, WorkerStep, WorkerFault

\* Only Pop gives a worker a run, only BackToLoop takes it away.
LEMMA NextBusyHasJob == TypeOK /\ [Next]_vars => BusyHasJob'
  <1> SUFFICES ASSUME TypeOK, [Next]_vars, NEW w \in Workers
               PROVE  (job[w] = NoRun <=> pc[w] = "idle")'
    BY DEF BusyHasJob
  <1> DEFINE Moves(v) == /\ pc[v] # "idle"
                         /\ \E label \in Label \ {"idle"} : pc' = [pc EXCEPT ![v] = label]
                         /\ job' = job
  <1>1. /\ pc \in [Workers -> Label]
        /\ job \in [Workers -> Runs \cup {NoRun}]
        /\ queue \in Seq(Runs)
        /\ job[w] = NoRun <=> pc[w] = "idle"
        /\ NoRun \notin Runs
    BY ConstantsAssumption DEF TypeOK, Types, BusyHasJob
  <1>2. CASE pc' = pc /\ job' = job
    BY <1>1, <1>2
  <1>3. CASE \E v \in Workers : Pop(v)
    BY <1>1, <1>3 DEF Pop
  <1>4. CASE \E v \in Workers : BackToLoop(v)
    BY <1>1, <1>4
  <1>5. CASE \E v \in Workers : Moves(v)
    BY <1>1, <1>5
  <1>6. ASSUME NEW v \in Workers, WorkerStep(v) \/ WorkerFault(v)
        PROVE  Pop(v) \/ BackToLoop(v) \/ Moves(v) \/ (pc' = pc /\ job' = job)
    <2>1. Block(v) \/ ClaimFails(v) \/ RefetchFails(v) \/ Finally(v) \/ Die(v) => BackToLoop(v)
      BY DEF Block, ClaimFails, RefetchFails, Finally, Die
    <2>2. Claim(v) => BackToLoop(v) \/ Moves(v)
      BY DEF Claim
    <2>3. ReadGate(v) \/ Refetch(v) \/ RetryNotSaved(v) \/ StepGivesUp(v) \/ StepsNotLoaded(v)
            => Moves(v)
      BY DEF ReadGate, Refetch, RetryNotSaved, StepGivesUp, StepsNotLoaded, AtStep
    <2>4. Succeed(v) \/ SucceedFails(v) \/ CloseBreaker(v) \/ CloseBreakerFails(v)
            \/ MarkFailed(v) \/ MarkFailedFails(v) \/ OpenBreaker(v) \/ EvaluationFails(v)
            => Moves(v)
      BY DEF Succeed, SucceedFails, CloseBreaker, CloseBreakerFails, MarkFailed,
             MarkFailedFails, OpenBreaker, EvaluationFails
    <2>5. ReadBreaker(v) => Moves(v)
      BY DEF ReadBreaker, TypeOK, Types, Breaker, BreakerState
    <2>6. CountFailures(v) => Moves(v)
      BY DEF CountFailures
    <2>7. StepSucceeds(v) \/ StepRetries(v) => pc' = pc /\ job' = job
      BY DEF StepSucceeds, StepRetries
    <2> QED
      BY <1>6, <2>1, <2>2, <2>3, <2>4, <2>5, <2>6, <2>7 DEF WorkerStep, WorkerFault
  <1>7. ASSUME \/ \E r \in Runs : Create(r) \/ Push(r) \/ WindowSlides(r)
               \/ PersonReads \/ PersonWrites \/ UNCHANGED vars
        PROVE  pc' = pc /\ job' = job
    BY <1>7 DEF Create, Push, WindowSlides, PersonReads, PersonWrites, vars
  <1> QED
    BY <1>2, <1>3, <1>4, <1>5, <1>6, <1>7 DEF Next

\* Every step keeps the state well typed.
LEMMA NextType == TypeOK /\ [Next]_vars => TypeOK'
  BY NextTypes, NextBusyHasJob DEF TypeOK

\* Every variable stays in its set, and a worker has a run exactly while it is
\* not waiting for one, for every reachable state.
THEOREM TypeCorrect == Spec => []TypeOK
  BY InitType, NextType, PTL DEF Spec

-----------------------------------------------------------------------------
(* One owner *)

\* OneOwner is not inductive alone: that a claim cannot succeed while another
\* worker executes the run follows from what OwnerHoldsRow says of the row.
Inv == TypeOK /\ OwnerHoldsRow /\ OneOwner

\* OneOwner, worker by worker.
Unique == \A v, w \in Workers :
    pc[v] \in Executing /\ pc[w] \in Executing /\ job[v] = job[w] => v = w

\* OneOwner, said of pairs of workers instead of runs.
LEMMA UniqueIsOneOwner == TypeOK => (OneOwner <=> Unique)
  <1> SUFFICES ASSUME TypeOK
               PROVE  OneOwner <=> Unique
    OBVIOUS
  <1>1. \A w \in Workers : pc[w] \in Executing => job[w] \in Runs
    BY JobIsRun
  <1>2. ASSUME OneOwner PROVE Unique
    BY <1>1, <1>2 DEF OneOwner, Unique, Owners
  <1>3. ASSUME Unique PROVE OneOwner
    BY <1>3 DEF OneOwner, Unique, Owners
  <1> QED
    BY <1>2, <1>3

\* Nothing is executed initially.
LEMMA InitInv == Init => Inv
  <1> SUFFICES ASSUME Init PROVE Inv
    OBVIOUS
  <1>1. \A w \in Workers : pc[w] \notin Executing
    BY DEF Init
  <1> QED
    BY <1>1, InitType DEF Inv, OwnerHoldsRow, OneOwner, Owners

\* The claim finds the run queued, so no owner has it; no other step gives a
\* run to a worker, and only the owner moves the row of its run.
LEMMA NextInv == Inv /\ [Next]_vars => Inv'
  <1> SUFFICES ASSUME Inv, [Next]_vars
               PROVE  Inv'
    OBVIOUS
  <1> DEFINE Good == OwnerHoldsRow /\ Unique
  <1>inv. Good /\ TypeOK
    BY UniqueIsOneOwner DEF Inv
  <1>types. /\ pc \in [Workers -> Label] /\ job \in [Workers -> Runs \cup {NoRun}]
            /\ status \in [Runs -> Status]
            /\ \A w \in Workers : pc[w] # "idle" => job[w] \in Runs
    BY JobIsRun DEF Inv, TypeOK, Types
  <1> USE DEF OwnerHoldsRow, Unique
  <1>Create. ASSUME NEW r \in Runs, Create(r) PROVE Good'
    BY <1>inv, <1>types, <1>Create DEF Create
  <1>Push. ASSUME NEW r \in Runs, Push(r) PROVE Good'
    BY <1>inv, <1>types, <1>Push DEF Push
  <1>WindowSlides. ASSUME NEW r \in Runs, WindowSlides(r) PROVE Good'
    BY <1>inv, <1>types, <1>WindowSlides DEF WindowSlides
  <1>PersonReads. ASSUME PersonReads PROVE Good'
    BY <1>inv, <1>types, <1>PersonReads DEF PersonReads
  <1>PersonWrites. ASSUME PersonWrites PROVE Good'
    BY <1>inv, <1>types, <1>PersonWrites DEF PersonWrites
  <1>Pop. ASSUME NEW u \in Workers, Pop(u) PROVE Good'
    BY <1>inv, <1>types, <1>Pop DEF Pop
  <1>ReadGate. ASSUME NEW u \in Workers, ReadGate(u) PROVE Good'
    BY <1>inv, <1>types, <1>ReadGate DEF ReadGate
  <1>Block. ASSUME NEW u \in Workers, Block(u) PROVE Good'
    BY <1>inv, <1>types, <1>Block DEF Block
  <1>Claim. ASSUME NEW u \in Workers, Claim(u) PROVE Good'
    BY <1>inv, <1>types, <1>Claim DEF Claim
  <1>ClaimFails. ASSUME NEW u \in Workers, ClaimFails(u) PROVE Good'
    BY <1>inv, <1>types, <1>ClaimFails DEF ClaimFails
  <1>Refetch. ASSUME NEW u \in Workers, Refetch(u) PROVE Good'
    BY <1>inv, <1>types, <1>Refetch DEF Refetch
  <1>RefetchFails. ASSUME NEW u \in Workers, RefetchFails(u) PROVE Good'
    BY <1>inv, <1>types, <1>RefetchFails DEF RefetchFails
  <1>StepSucceeds. ASSUME NEW u \in Workers, StepSucceeds(u) PROVE Good'
    BY <1>inv, <1>types, <1>StepSucceeds DEF StepSucceeds, AtStep
  <1>StepRetries. ASSUME NEW u \in Workers, StepRetries(u) PROVE Good'
    BY <1>inv, <1>types, <1>StepRetries DEF StepRetries, AtStep, SaveRetry
  <1>RetryNotSaved. ASSUME NEW u \in Workers, RetryNotSaved(u) PROVE Good'
    BY <1>inv, <1>types, <1>RetryNotSaved DEF RetryNotSaved, AtStep, SaveRetry
  <1>StepGivesUp. ASSUME NEW u \in Workers, StepGivesUp(u) PROVE Good'
    BY <1>inv, <1>types, <1>StepGivesUp DEF StepGivesUp, AtStep
  <1>StepsNotLoaded. ASSUME NEW u \in Workers, StepsNotLoaded(u) PROVE Good'
    BY <1>inv, <1>types, <1>StepsNotLoaded DEF StepsNotLoaded
  <1>Succeed. ASSUME NEW u \in Workers, Succeed(u) PROVE Good'
    BY <1>inv, <1>types, <1>Succeed DEF Succeed
  <1>SucceedFails. ASSUME NEW u \in Workers, SucceedFails(u) PROVE Good'
    BY <1>inv, <1>types, <1>SucceedFails DEF SucceedFails
  <1>CloseBreaker. ASSUME NEW u \in Workers, CloseBreaker(u) PROVE Good'
    BY <1>inv, <1>types, <1>CloseBreaker DEF CloseBreaker
  <1>CloseBreakerFails. ASSUME NEW u \in Workers, CloseBreakerFails(u) PROVE Good'
    BY <1>inv, <1>types, <1>CloseBreakerFails DEF CloseBreakerFails
  <1>MarkFailed. ASSUME NEW u \in Workers, MarkFailed(u) PROVE Good'
    BY <1>inv, <1>types, <1>MarkFailed DEF MarkFailed
  <1>MarkFailedFails. ASSUME NEW u \in Workers, MarkFailedFails(u) PROVE Good'
    BY <1>inv, <1>types, <1>MarkFailedFails DEF MarkFailedFails
  <1>ReadBreaker. ASSUME NEW u \in Workers, ReadBreaker(u) PROVE Good'
    BY <1>inv, <1>types, <1>ReadBreaker DEF ReadBreaker, TypeOK, Types, Breaker, BreakerState
  <1>CountFailures. ASSUME NEW u \in Workers, CountFailures(u) PROVE Good'
    BY <1>inv, <1>types, <1>CountFailures DEF CountFailures
  <1>OpenBreaker. ASSUME NEW u \in Workers, OpenBreaker(u) PROVE Good'
    BY <1>inv, <1>types, <1>OpenBreaker DEF OpenBreaker
  <1>EvaluationFails. ASSUME NEW u \in Workers, EvaluationFails(u) PROVE Good'
    BY <1>inv, <1>types, <1>EvaluationFails DEF EvaluationFails
  <1>Finally. ASSUME NEW u \in Workers, Finally(u) PROVE Good'
    BY <1>inv, <1>types, <1>Finally DEF Finally
  <1>Die. ASSUME NEW u \in Workers, Die(u) PROVE Good'
    BY <1>inv, <1>types, <1>Die DEF Die
  <1>stutter. ASSUME UNCHANGED vars PROVE Good'
    BY <1>inv, <1>stutter DEF vars
  <1>good. Good'
    BY <1>Create, <1>Push, <1>WindowSlides, <1>PersonReads, <1>PersonWrites,
       <1>Pop, <1>ReadGate, <1>Block, <1>Claim, <1>ClaimFails, <1>Refetch, <1>RefetchFails, <1>StepSucceeds,
       <1>StepRetries, <1>RetryNotSaved, <1>StepGivesUp, <1>StepsNotLoaded, <1>Succeed, <1>SucceedFails, <1>CloseBreaker, <1>CloseBreakerFails,
       <1>MarkFailed, <1>MarkFailedFails, <1>ReadBreaker, <1>CountFailures, <1>OpenBreaker, <1>EvaluationFails, <1>Finally, <1>Die, <1>stutter DEF Next, WorkerStep, WorkerFault
  <1>one. (TypeOK => (OneOwner <=> Unique))'
    BY UniqueIsOneOwner, PTL
  <1> QED
    BY <1>good, <1>one, NextType DEF Inv

\* A run is executed by one worker at most, for any number of workers and
\* deliveries, with database errors and deaths at any point.
THEOREM OneOwnerAlways == Spec => []OneOwner
  <1>1. Inv => OneOwner
    BY DEF Inv
  <1> QED
    BY InitInv, NextInv, <1>1, PTL DEF Spec

\* The row of a run in execution always agrees with where its worker is.
THEOREM OwnerHoldsRowAlways == Spec => []OwnerHoldsRow
  <1>1. Inv => OwnerHoldsRow
    BY DEF Inv
  <1> QED
    BY InitInv, NextInv, <1>1, PTL DEF Spec

\* A blocked or failed run never changes again: its row is not "queued", so no
\* delivery can block or claim it, and its owner only repeats "failed".
THEOREM EndedIsFinalAlways == Spec => EndedIsFinal
  <1>1. ASSUME Inv, [Next]_vars
        PROVE  [\A r \in Runs : status[r] \in {"blocked", "failed"} => status'[r] = status[r]]_vars
    <2> SUFFICES ASSUME NEW r \in Runs, status[r] \in {"blocked", "failed"}
                 PROVE  status'[r] = status[r]
      OBVIOUS
    <2>1. status \in [Runs -> Status] /\ OwnerHoldsRow
      BY <1>1 DEF Inv, TypeOK, Types
    <2>2. ASSUME NEW w \in Workers, job[w] = r, pc[w] \in {"steps", "refetch", "close"}
          PROVE  FALSE
      BY <2>1, <2>2 DEF OwnerHoldsRow
    <2>3. CASE UNCHANGED status
      BY <2>3
    <2>4. ASSUME NEW w \in Workers, Block(w) \/ Claim(w) PROVE status'[r] = status[r]
      BY <2>1, <2>4 DEF Block, Claim
    <2>5. ASSUME NEW w \in Workers, StepRetries(w) \/ RetryNotSaved(w) \/ Succeed(w) \/ SucceedFails(w)
          PROVE  status'[r] = status[r]
      BY <2>1, <2>2, <2>5 DEF StepRetries, RetryNotSaved, Succeed, SucceedFails, AtStep, SaveRetry
    <2>6. ASSUME NEW w \in Workers, MarkFailed(w) PROVE status'[r] = status[r]
      BY <2>1, <2>6 DEF MarkFailed, OwnerHoldsRow
    <2>7. ASSUME NEW q \in Runs, Create(q) PROVE status'[r] = status[r]
      BY <2>1, <2>7 DEF Create
    <2>8. ASSUME NEW w \in Workers, WorkerStep(w) \/ WorkerFault(w)
          PROVE  status'[r] = status[r]
      BY <2>4, <2>5, <2>6, <2>8
         DEF WorkerStep, WorkerFault, Pop, ReadGate, ClaimFails, Refetch, RefetchFails, StepSucceeds,
             StepGivesUp, StepsNotLoaded, CloseBreaker, CloseBreakerFails, MarkFailedFails,
             ReadBreaker, CountFailures, OpenBreaker, EvaluationFails, Finally, Die
    <2> QED
      BY <1>1, <2>3, <2>7, <2>8
         DEF Next, Push, WindowSlides, PersonReads, PersonWrites, vars
  <1> QED
    BY <1>1, InitInv, NextInv, PTL DEF Spec, EndedIsFinal

-----------------------------------------------------------------------------
(* Executor implements RunLifecycle *)

\* The owner of a run is the one worker that executes it.
LEMMA OwnerIsTheWorker ==
    ASSUME OneOwner, NEW r \in Runs
    PROVE  /\ \A w \in Owners(r) : OwnerOf(r) = w
           /\ Owners(r) = {} => OwnerOf(r) = NoWorker
           /\ OwnerOf(r) = NoWorker => Owners(r) = {}
  <1>1. Owners(r) # {} => OwnerOf(r) \in Owners(r)
    BY DEF OwnerOf
  <1>2. \A v, w \in Owners(r) : v = w
    BY DEF OneOwner
  <1>3. Owners(r) \subseteq Workers /\ NoWorker \notin Workers
    BY ConstantsAssumption DEF Owners
  <1> QED
    BY <1>1, <1>2, <1>3 DEF OwnerOf

\* The owner of a run changes only with the set of workers that execute it.
LEMMA SameOwnerOf ==
    ASSUME NEW r \in Runs, Owners(r)' = Owners(r)
    PROVE  OwnerOf(r)' = OwnerOf(r)
  <1> DEFINE Pick(S) == IF S = {} THEN NoWorker ELSE CHOOSE w \in S : TRUE
  <1>1. OwnerOf(r) = Pick(Owners(r)) /\ OwnerOf(r)' = Pick(Owners(r)')
    BY DEF OwnerOf
  <1> HIDE DEF Pick
  <1> QED
    BY <1>1

\* A step that changes neither the position of a worker among Executing nor
\* its job changes no owner.
LEMMA SameOwners ==
    ASSUME \A w \in Workers : /\ pc[w] \in Executing <=> pc'[w] \in Executing
                              /\ pc[w] \in Executing => job'[w] = job[w]
    PROVE  OwnerMap' = OwnerMap
  <1>1. ASSUME NEW r \in Runs PROVE OwnerOf(r)' = OwnerOf(r)
    <2>1. Owners(r)' = Owners(r)
      BY DEF Owners
    <2> QED
      BY <2>1, SameOwnerOf
  <1> QED
    BY <1>1 DEF OwnerMap

\* No run has an owner initially.
LEMMA LifecycleInit == Init => Lifecycle!Init
  <1> SUFFICES ASSUME Init
               PROVE  Lifecycle!Init
    OBVIOUS
  <1>1. \A r \in Runs : OwnerOf(r) = NoWorker
    BY DEF Init, Owners, OwnerOf
  <1> QED
    BY <1>1 DEF Init, OwnerMap, Lifecycle!Init

\* A worker that owns its run is the run's owner in the life cycle.
LEMMA OwnedByWorker ==
    ASSUME Inv, NEW w \in Workers, pc[w] \in Executing
    PROVE  /\ job[w] \in Runs /\ w \in Owners(job[w])
           /\ OwnerMap[job[w]] = w /\ Lifecycle!Owned(job[w])
  <1>1. job[w] \in Runs
    BY JobIsRun DEF Inv
  <1>2. w \in Owners(job[w])
    BY DEF Owners
  <1>3. OwnerOf(job[w]) = w
    BY <1>1, <1>2, OwnerIsTheWorker DEF Inv
  <1>4. w # NoWorker
    BY ConstantsAssumption
  <1> QED
    BY <1>1, <1>2, <1>3, <1>4 DEF OwnerMap, Lifecycle!Owned

\* A worker that stops executing its run leaves it without an owner.
LEMMA Released ==
    ASSUME Inv, NEW w \in Workers, pc[w] \in Executing, BackToLoop(w)
    PROVE  OwnerMap' = [OwnerMap EXCEPT ![job[w]] = NoWorker]
  <1>1. PICK r \in Runs : r = job[w]
    BY OwnedByWorker
  <1>2. pc \in [Workers -> Label] /\ job \in [Workers -> Runs \cup {NoRun}]
    BY DEF Inv, TypeOK, Types
  <1>3. /\ \A v \in Workers : v # w => pc'[v] = pc[v] /\ job'[v] = job[v]
        /\ pc'[w] \notin Executing
    BY <1>2
  <1>4. Owners(r) = {w}
    BY <1>1, OwnedByWorker DEF Inv, OneOwner
  <1>5. Owners(r)' = {}
    BY <1>3, <1>4 DEF Owners
  <1>6. OwnerOf(r)' = NoWorker
    BY <1>5 DEF OwnerOf
  <1>7. ASSUME NEW q \in Runs, q # r PROVE OwnerOf(q)' = OwnerOf(q)
    <2>1. Owners(q)' = Owners(q)
      BY <1>1, <1>3, <1>7 DEF Owners
    <2> QED
      BY <2>1, SameOwnerOf
  <1> QED
    BY <1>1, <1>6, <1>7 DEF OwnerMap

\* A worker that claims a run becomes its owner.
LEMMA Claimed ==
    ASSUME Inv, Inv', NEW w \in Workers, Claim(w), status[job[w]] = "queued"
    PROVE  OwnerMap' = [OwnerMap EXCEPT ![job[w]] = w]
  <1>1. PICK r \in Runs : r = job[w]
    BY JobIsRun DEF Inv, Claim
  <1>2. /\ pc \in [Workers -> Label] /\ job' = job
        /\ pc' = [pc EXCEPT ![w] = "refetch"] /\ pc[w] = "decide"
    BY DEF Inv, TypeOK, Types, Claim
  <1>3. /\ \A v \in Workers : v # w => pc'[v] = pc[v] /\ job'[v] = job[v]
        /\ pc'[w] \in Executing /\ pc[w] \notin Executing
    BY <1>2
  <1>4. OwnerOf(r)' = w
    <2>1. w \in Owners(r)'
      BY <1>1, <1>2, <1>3 DEF Owners
    <2>2. Owners(r)' = {w}
      BY <2>1 DEF Inv, OneOwner
    <2> QED
      BY <2>2 DEF OwnerOf
  <1>5. ASSUME NEW q \in Runs, q # r PROVE OwnerOf(q)' = OwnerOf(q)
    <2>1. Owners(q)' = Owners(q)
      BY <1>1, <1>2, <1>3, <1>5 DEF Owners
    <2> QED
      BY <2>1, SameOwnerOf
  <1> QED
    BY <1>1, <1>4, <1>5 DEF OwnerMap

\* Every step is a step of the life cycle or leaves it alone.
LEMMA LifecycleNext == Inv /\ Inv' /\ [Next]_vars => [Lifecycle!Next]_(Lifecycle!vars)
  <1> SUFFICES ASSUME Inv, Inv', [Next]_vars
               PROVE  Lifecycle!Next \/ UNCHANGED <<status, OwnerMap>>
    BY DEF Lifecycle!vars
  <1>types. /\ pc \in [Workers -> Label] /\ job \in [Workers -> Runs \cup {NoRun}]
            /\ status \in [Runs -> Status] /\ OwnerHoldsRow /\ breaker.state \in BreakerState
    BY DEF Inv, TypeOK, Types, Breaker
  <1>abstract. ASSUME NEW r \in Runs,
                      \/ Lifecycle!Create(r) \/ Lifecycle!Block(r) \/ Lifecycle!Start(r)
                      \/ Lifecycle!Retry(r) \/ Lifecycle!Succeed(r) \/ Lifecycle!Fail(r)
                      \/ Lifecycle!Release(r)
               PROVE  Lifecycle!Next
    BY <1>abstract DEF Lifecycle!Next
  \* Nobody starts or stops executing, no status is written.
  <1>quiet. ASSUME NEW w \in Workers,
                   \/ Pop(w) \/ ReadGate(w) \/ ClaimFails(w) \/ Refetch(w) \/ StepSucceeds(w)
                   \/ StepGivesUp(w) \/ StepsNotLoaded(w) \/ CloseBreaker(w) \/ CloseBreakerFails(w)
                   \/ MarkFailedFails(w) \/ ReadBreaker(w) \/ CountFailures(w) \/ OpenBreaker(w)
                   \/ EvaluationFails(w)
            PROVE  UNCHANGED <<status, OwnerMap>>
    <2> DEFINE SameRole == \A v \in Workers :
                  /\ pc[v] \in Executing <=> pc'[v] \in Executing
                  /\ pc[v] \in Executing => job'[v] = job[v]
    <2>a. ASSUME Pop(w) \/ ReadGate(w) \/ ClaimFails(w) PROVE SameRole
      <3>1. pc[w] \notin Executing /\ \E label \in {"idle", "gate", "decide"} : pc' = [pc EXCEPT ![w] = label]
        BY <2>a DEF Pop, ReadGate, ClaimFails
      <3>2. \A v \in Workers : v # w => job'[v] = job[v]
        BY <2>a, <1>types DEF Pop, ReadGate, ClaimFails
      <3> QED
        BY <3>1, <3>2, <1>types
    <2>b. ASSUME \/ Refetch(w) \/ StepSucceeds(w) \/ StepGivesUp(w) \/ StepsNotLoaded(w)
                 \/ CloseBreaker(w) \/ CloseBreakerFails(w) \/ MarkFailedFails(w)
                 \/ ReadBreaker(w) \/ CountFailures(w) \/ OpenBreaker(w) \/ EvaluationFails(w)
          PROVE  SameRole
      <3>1. pc[w] \in Executing /\ job' = job
        BY <2>b DEF Refetch, StepSucceeds, StepGivesUp, StepsNotLoaded, CloseBreaker,
                    CloseBreakerFails, MarkFailedFails, ReadBreaker, CountFailures,
                    OpenBreaker, EvaluationFails, AtStep
      <3>2. CASE ReadBreaker(w)
        <4>1. \E label \in Executing : pc' = [pc EXCEPT ![w] = label]
          BY <3>2, <1>types DEF ReadBreaker, BreakerState
        <4> QED
          BY <4>1, <3>1, <1>types
      <3>3. CASE ~ReadBreaker(w)
        <4>1. \E label \in Executing : pc' = pc \/ pc' = [pc EXCEPT ![w] = label]
          BY <2>b, <3>3 DEF Refetch, StepSucceeds, StepGivesUp, StepsNotLoaded, CloseBreaker,
                      CloseBreakerFails, MarkFailedFails, CountFailures, OpenBreaker, EvaluationFails
        <4> QED
          BY <4>1, <3>1, <1>types
      <3> QED
        BY <3>2, <3>3
    <2>1. SameRole
      BY <1>quiet, <2>a, <2>b
    <2>2. UNCHANGED status
      BY <1>quiet
         DEF Pop, ReadGate, ClaimFails, Refetch, StepSucceeds, StepGivesUp, StepsNotLoaded,
             CloseBreaker, CloseBreakerFails, MarkFailedFails, ReadBreaker, CountFailures,
             OpenBreaker, EvaluationFails
    <2> QED
      BY <2>1, <2>2, SameOwners
  <1>others. ASSUME \/ \E r \in Runs : Push(r) \/ WindowSlides(r)
                    \/ PersonReads \/ PersonWrites \/ UNCHANGED vars
             PROVE  UNCHANGED <<status, OwnerMap>>
    <2>1. UNCHANGED <<status, pc, job>>
      BY <1>others DEF Push, WindowSlides, PersonReads, PersonWrites, vars
    <2> QED
      BY <2>1, SameOwners
  <1>Create. ASSUME NEW r \in Runs, Create(r) PROVE Lifecycle!Create(r)
    <2>1. UNCHANGED <<pc, job>>
      BY <1>Create DEF Create
    <2> QED
      BY <2>1, <1>Create, SameOwners DEF Create, Lifecycle!Create, Lifecycle!Become
  <1>Block. ASSUME NEW w \in Workers, Block(w)
            PROVE  Lifecycle!Block(job[w]) \/ UNCHANGED <<status, OwnerMap>>
    <2>1. UNCHANGED OwnerMap
      BY <1>types, <1>Block, SameOwners DEF Block
    <2> QED
      BY <2>1, <1>Block DEF Block, Lifecycle!Block, Lifecycle!Become
  <1>Claim. ASSUME NEW w \in Workers, Claim(w)
            PROVE  Lifecycle!Start(job[w]) \/ UNCHANGED <<status, OwnerMap>>
    <2>1. CASE status[job[w]] = "queued"
      <3>1. OwnerMap' = [OwnerMap EXCEPT ![job[w]] = w]
        BY <1>Claim, <2>1, Claimed
      <3> QED
        BY <3>1, <2>1, <1>Claim DEF Claim, Lifecycle!Start, Lifecycle!Become
    <2>2. CASE status[job[w]] # "queued"
      <3>1. BackToLoop(w) /\ UNCHANGED status /\ pc[w] = "decide"
        BY <2>2, <1>Claim DEF Claim
      <3> QED
        BY <3>1, <1>types, SameOwners
    <2> QED
      BY <2>1, <2>2
  \* The writes of an owner: it stays the owner.
  <1>owner. ASSUME NEW w \in Workers, pc[w] \in Executing, job' = job,
                   \E label \in Executing : pc' = pc \/ pc' = [pc EXCEPT ![w] = label]
            PROVE  /\ UNCHANGED OwnerMap /\ Lifecycle!Owned(job[w])
                   /\ job[w] \in Runs
    <2>1. \A v \in Workers : /\ pc[v] \in Executing <=> pc'[v] \in Executing
                             /\ pc[v] \in Executing => job'[v] = job[v]
      BY <1>types, <1>owner
    <2> QED
      BY <2>1, <1>owner, SameOwners, OwnedByWorker
  <1>Retry. ASSUME NEW w \in Workers, StepRetries(w) \/ RetryNotSaved(w)
            PROVE  Lifecycle!Retry(job[w]) \/ UNCHANGED <<status, OwnerMap>>
    <2>1. UNCHANGED OwnerMap /\ Lifecycle!Owned(job[w])
      BY <1>Retry, <1>owner DEF StepRetries, RetryNotSaved, AtStep
    <2>2. status[job[w]] \in Active
      BY <1>types, <1>Retry DEF OwnerHoldsRow, StepRetries, RetryNotSaved, AtStep
    <2>3. SetStatus(job[w], "retrying") \/ UNCHANGED status
      BY <1>Retry DEF StepRetries, RetryNotSaved, SaveRetry
    <2> QED
      BY <2>1, <2>2, <2>3 DEF Lifecycle!Retry, Lifecycle!Become, Lifecycle!Active
  <1>Succeed. ASSUME NEW w \in Workers, Succeed(w) \/ SucceedFails(w)
              PROVE  Lifecycle!Succeed(job[w]) \/ UNCHANGED <<status, OwnerMap>>
    <2>1. UNCHANGED OwnerMap /\ Lifecycle!Owned(job[w])
      BY <1>Succeed, <1>owner DEF Succeed, SucceedFails
    <2>2. status[job[w]] \in Active
      BY <1>types, <1>Succeed DEF OwnerHoldsRow, Succeed, SucceedFails
    <2>3. SetStatus(job[w], "success") \/ UNCHANGED status
      BY <1>Succeed DEF Succeed, SucceedFails
    <2> QED
      BY <2>1, <2>2, <2>3 DEF Lifecycle!Succeed, Lifecycle!Become, Lifecycle!Active
  <1>Fail. ASSUME NEW w \in Workers, MarkFailed(w)
           PROVE  Lifecycle!Fail(job[w]) \/ UNCHANGED <<status, OwnerMap>>
    <2>1. UNCHANGED OwnerMap /\ Lifecycle!Owned(job[w]) /\ job[w] \in Runs
      BY <1>Fail, <1>owner DEF MarkFailed
    <2>2. status[job[w]] \in Active \cup {"success", "failed"}
      BY <1>types, <1>Fail DEF OwnerHoldsRow, MarkFailed
    <2>3. SetStatus(job[w], "failed")
      BY <1>Fail DEF MarkFailed
    <2>4. CASE status[job[w]] = "failed"
      BY <2>1, <2>3, <2>4, <1>types
    <2>5. CASE status[job[w]] # "failed"
      BY <2>1, <2>2, <2>3, <2>5 DEF Lifecycle!Fail, Lifecycle!Become, Lifecycle!Active
    <2> QED
      BY <2>4, <2>5
  <1>Release. ASSUME NEW w \in Workers, BackToLoop(w), UNCHANGED status
              PROVE  (pc[w] \in Executing /\ Lifecycle!Release(job[w])) \/ UNCHANGED <<status, OwnerMap>>
    <2>1. CASE pc[w] \in Executing
      BY <2>1, <1>Release, Released, OwnedByWorker DEF Lifecycle!Release
    <2>2. CASE pc[w] \notin Executing
      BY <2>2, <1>Release, <1>types, SameOwners
    <2> QED
      BY <2>1, <2>2
  <1>worker. ASSUME NEW w \in Workers, WorkerStep(w) \/ WorkerFault(w)
             PROVE  Lifecycle!Next \/ UNCHANGED <<status, OwnerMap>>
    <2>1. pc[w] # "idle" => job[w] \in Runs
      BY JobIsRun DEF Inv
    <2>2. CASE Block(w) \/ Claim(w)
      BY <2>1, <2>2, <1>Block, <1>Claim, <1>abstract DEF Block, Claim
    <2>3. CASE \/ StepRetries(w) \/ RetryNotSaved(w) \/ Succeed(w) \/ SucceedFails(w)
               \/ MarkFailed(w)
      BY <2>1, <2>3, <1>Retry, <1>Succeed, <1>Fail, <1>abstract
         DEF StepRetries, RetryNotSaved, AtStep, Succeed, SucceedFails, MarkFailed
    <2>4. CASE Finally(w) \/ RefetchFails(w) \/ Die(w)
      <3>1. BackToLoop(w) /\ UNCHANGED status
        BY <2>4 DEF Finally, RefetchFails, Die
      <3> QED
        BY <2>1, <3>1, <1>Release, <1>abstract
    <2> QED
      BY <2>2, <2>3, <2>4, <1>quiet, <1>worker DEF WorkerStep, WorkerFault
  <1> QED
    BY <1>Create, <1>abstract, <1>others, <1>worker DEF Next

\* Executor implements RunLifecycle, for any number of workers, runs and
\* deliveries, with database errors and deaths at any point.
THEOREM Implementation == Spec => ImplementsLifecycle
  <1>1. Init => Lifecycle!Init
    BY LifecycleInit
  <1>2. Inv /\ Inv' /\ [Next]_vars => [Lifecycle!Next]_(Lifecycle!vars)
    BY LifecycleNext
  <1> QED
    BY <1>1, <1>2, InitInv, NextInv, PTL DEF Spec, ImplementsLifecycle, Lifecycle!Spec

-----------------------------------------------------------------------------
(* Nothing is left running without a worker *)

\* NoOrphan is not inductive alone: that a worker may leave its run at the end of
\* finally follows from what the row says from the outcome on, when the failure
\* was written.
Settled ==
    \A w \in Workers : pc[w] \in {"close", "finally"} \cup Evaluating =>
        status[job[w]] \notin Active \/ job[w] \in abandoned

\* NoOrphan, run by run.
Held ==
    \A r \in Runs : status[r] \in Active =>
        (\E w \in Workers : pc[w] \in Executing /\ job[w] = r) \/ r \in abandoned

\* NoOrphan, said with a worker instead of the set of owners.
LEMMA HeldIsNoOrphan == NoOrphan <=> Held
  BY DEF NoOrphan, Held, Owners

\* A worker leaves a run only at the gate, where the worker does not own it, from
\* finally, or by a fault that abandons it.
LEMMA NextHeld == Inv /\ Settled /\ Held /\ [Next]_vars => Settled' /\ Held'
  <1> SUFFICES ASSUME Inv, Settled, Held, [Next]_vars
               PROVE  Settled' /\ Held'
    OBVIOUS
  <1> DEFINE Good == Settled /\ Held
  <1>inv. Good /\ Unique /\ OwnerHoldsRow
    BY UniqueIsOneOwner DEF Inv
  <1>types. /\ pc \in [Workers -> Label] /\ job \in [Workers -> Runs \cup {NoRun}]
            /\ status \in [Runs -> Status]
            /\ \A w \in Workers : pc[w] # "idle" => job[w] \in Runs
    BY JobIsRun DEF Inv, TypeOK, Types
  <1> USE DEF Settled, Held, Unique, OwnerHoldsRow
  <1>Create. ASSUME NEW r \in Runs, Create(r) PROVE Good'
    BY <1>inv, <1>types, <1>Create DEF Create
  <1>Push. ASSUME NEW r \in Runs, Push(r) PROVE Good'
    BY <1>inv, <1>types, <1>Push DEF Push
  <1>WindowSlides. ASSUME NEW r \in Runs, WindowSlides(r) PROVE Good'
    BY <1>inv, <1>types, <1>WindowSlides DEF WindowSlides
  <1>PersonReads. ASSUME PersonReads PROVE Good'
    BY <1>inv, <1>types, <1>PersonReads DEF PersonReads
  <1>PersonWrites. ASSUME PersonWrites PROVE Good'
    BY <1>inv, <1>types, <1>PersonWrites DEF PersonWrites
  <1>Pop. ASSUME NEW u \in Workers, Pop(u) PROVE Good'
    BY <1>inv, <1>types, <1>Pop DEF Pop
  <1>ReadGate. ASSUME NEW u \in Workers, ReadGate(u) PROVE Good'
    BY <1>inv, <1>types, <1>ReadGate DEF ReadGate
  <1>Block. ASSUME NEW u \in Workers, Block(u) PROVE Good'
    BY <1>inv, <1>types, <1>Block DEF Block
  <1>Claim. ASSUME NEW u \in Workers, Claim(u) PROVE Good'
    BY <1>inv, <1>types, <1>Claim DEF Claim
  <1>ClaimFails. ASSUME NEW u \in Workers, ClaimFails(u) PROVE Good'
    BY <1>inv, <1>types, <1>ClaimFails DEF ClaimFails
  <1>Refetch. ASSUME NEW u \in Workers, Refetch(u) PROVE Good'
    BY <1>inv, <1>types, <1>Refetch DEF Refetch
  <1>RefetchFails. ASSUME NEW u \in Workers, RefetchFails(u) PROVE Good'
    BY <1>inv, <1>types, <1>RefetchFails DEF RefetchFails
  <1>StepSucceeds. ASSUME NEW u \in Workers, StepSucceeds(u) PROVE Good'
    BY <1>inv, <1>types, <1>StepSucceeds DEF StepSucceeds, AtStep
  <1>StepRetries. ASSUME NEW u \in Workers, StepRetries(u) PROVE Good'
    BY <1>inv, <1>types, <1>StepRetries DEF StepRetries, AtStep, SaveRetry
  <1>RetryNotSaved. ASSUME NEW u \in Workers, RetryNotSaved(u) PROVE Good'
    BY <1>inv, <1>types, <1>RetryNotSaved DEF RetryNotSaved, AtStep, SaveRetry
  <1>StepGivesUp. ASSUME NEW u \in Workers, StepGivesUp(u) PROVE Good'
    BY <1>inv, <1>types, <1>StepGivesUp DEF StepGivesUp, AtStep
  <1>StepsNotLoaded. ASSUME NEW u \in Workers, StepsNotLoaded(u) PROVE Good'
    BY <1>inv, <1>types, <1>StepsNotLoaded DEF StepsNotLoaded
  <1>Succeed. ASSUME NEW u \in Workers, Succeed(u) PROVE Good'
    BY <1>inv, <1>types, <1>Succeed DEF Succeed
  <1>SucceedFails. ASSUME NEW u \in Workers, SucceedFails(u) PROVE Good'
    BY <1>inv, <1>types, <1>SucceedFails DEF SucceedFails
  <1>CloseBreaker. ASSUME NEW u \in Workers, CloseBreaker(u) PROVE Good'
    BY <1>inv, <1>types, <1>CloseBreaker DEF CloseBreaker
  <1>CloseBreakerFails. ASSUME NEW u \in Workers, CloseBreakerFails(u) PROVE Good'
    BY <1>inv, <1>types, <1>CloseBreakerFails DEF CloseBreakerFails
  <1>MarkFailed. ASSUME NEW u \in Workers, MarkFailed(u) PROVE Good'
    BY <1>inv, <1>types, <1>MarkFailed DEF MarkFailed
  <1>MarkFailedFails. ASSUME NEW u \in Workers, MarkFailedFails(u) PROVE Good'
    BY <1>inv, <1>types, <1>MarkFailedFails DEF MarkFailedFails
  <1>ReadBreaker. ASSUME NEW u \in Workers, ReadBreaker(u) PROVE Good'
    BY <1>inv, <1>types, <1>ReadBreaker DEF ReadBreaker, TypeOK, Types, Breaker, BreakerState
  <1>CountFailures. ASSUME NEW u \in Workers, CountFailures(u) PROVE Good'
    BY <1>inv, <1>types, <1>CountFailures DEF CountFailures
  <1>OpenBreaker. ASSUME NEW u \in Workers, OpenBreaker(u) PROVE Good'
    BY <1>inv, <1>types, <1>OpenBreaker DEF OpenBreaker
  <1>EvaluationFails. ASSUME NEW u \in Workers, EvaluationFails(u) PROVE Good'
    BY <1>inv, <1>types, <1>EvaluationFails DEF EvaluationFails
  <1>Finally. ASSUME NEW u \in Workers, Finally(u) PROVE Good'
    BY <1>inv, <1>types, <1>Finally DEF Finally
  <1>Die. ASSUME NEW u \in Workers, Die(u) PROVE Good'
    BY <1>inv, <1>types, <1>Die DEF Die
  <1>stutter. ASSUME UNCHANGED vars PROVE Good'
    BY <1>inv, <1>types, <1>stutter DEF vars
  <1> QED
    BY <1>Create, <1>Push, <1>WindowSlides, <1>PersonReads, <1>PersonWrites, <1>Pop, <1>ReadGate, <1>Block,
       <1>Claim, <1>ClaimFails, <1>Refetch, <1>RefetchFails, <1>StepSucceeds, <1>StepRetries, <1>RetryNotSaved,
       <1>StepGivesUp, <1>StepsNotLoaded, <1>Succeed, <1>SucceedFails, <1>CloseBreaker, <1>CloseBreakerFails,
       <1>MarkFailed, <1>MarkFailedFails, <1>ReadBreaker, <1>CountFailures, <1>OpenBreaker, <1>EvaluationFails,
       <1>Finally, <1>Die, <1>stutter
       DEF Next, WorkerStep, WorkerFault

\* A run that is running or retrying is in the hands of a worker, or was lost by
\* one to a failed re-fetch, a failure that could not be written or a death, for
\* any number of runs, workers, deliveries and faults.
THEOREM NoOrphanAlways == Spec => []NoOrphan
  <1>1. Init => Settled /\ Held
    BY DEF Init, Settled, Held
  <1> QED
    BY <1>1, InitInv, NextInv, NextHeld, HeldIsNoOrphan, PTL DEF Spec

-----------------------------------------------------------------------------
(* No delivery is lost *)

\* What is on the list is an element of the sequence.
LEMMA InRange ==
    ASSUME NEW q \in Seq(Runs), NEW r
    PROVE  r \in Range(q) <=> \E i \in 1..Len(q) : q[i] = r
  BY DEF Range

\* RPUSH adds a run to the list, BLPOP takes the first one off.
LEMMA RangeOfQueue ==
    ASSUME NEW q \in Seq(Runs), NEW s \in Runs
    PROVE  /\ \A r \in Runs : s \in Range(Append(q, r)) <=> s = r \/ s \in Range(q)
           /\ q # <<>> => Head(q) \in Runs /\ (s \in Range(q) <=> s = Head(q) \/ s \in Range(Tail(q)))
  <1>1. ASSUME NEW r \in Runs PROVE s \in Range(Append(q, r)) <=> s = r \/ s \in Range(q)
    <2>1. Len(Append(q, r)) = Len(q) + 1 /\ Len(q) \in Nat /\ Append(q, r) \in Seq(Runs)
      OBVIOUS
    <2>2. (\A i \in 1..Len(q) : Append(q, r)[i] = q[i]) /\ Append(q, r)[Len(q) + 1] = r
      OBVIOUS
    <2>3. s \in Range(Append(q, r)) <=> \E i \in 1..Len(Append(q, r)) : Append(q, r)[i] = s
      BY <2>1, InRange
    <2>4. s \in Range(q) <=> \E i \in 1..Len(q) : q[i] = s
      BY InRange
    <2>5. \A i \in 1..Len(q) + 1 : i \in 1..Len(q) \/ i = Len(q) + 1
      BY <2>1
    <2>6. \A i \in 1..Len(q) : i \in 1..Len(q) + 1
      BY <2>1
    <2>7. Len(q) + 1 \in 1..Len(q) + 1
      BY <2>1
    <2> QED
      BY <2>1, <2>2, <2>3, <2>4, <2>5, <2>6, <2>7
  <1>2. ASSUME q # <<>>
        PROVE  Head(q) \in Runs /\ (s \in Range(q) <=> s = Head(q) \/ s \in Range(Tail(q)))
    <2>1. Len(q) \in Nat /\ Len(q) # 0 /\ Len(Tail(q)) = Len(q) - 1 /\ Head(q) = q[1] /\ Tail(q) \in Seq(Runs)
      BY <1>2
    <2>2. \A i \in 1..Len(q) - 1 : Tail(q)[i] = q[i + 1]
      BY <1>2
    <2>a. s \in Range(Tail(q)) <=> \E i \in 1..Len(Tail(q)) : Tail(q)[i] = s
      BY <2>1, InRange
    <2>3. s \in Range(Tail(q)) <=> \E i \in 1..Len(q) - 1 : q[i + 1] = s
      BY <2>1, <2>2, <2>a
    <2>4. \A i \in 2..Len(q) : i - 1 \in 1..Len(q) - 1 /\ (i - 1) + 1 = i
      BY <2>1
    <2>5. \A i \in 1..Len(q) - 1 : i + 1 \in 2..Len(q)
      BY <2>1
    <2>6. (\E i \in 1..Len(q) - 1 : q[i + 1] = s) <=> \E i \in 2..Len(q) : q[i] = s
      BY <2>4, <2>5
    <2> QED
      BY <2>1, <2>3, <2>6, InRange
  <1> QED
    BY <1>1, <1>2

\* NoLostRun, and that nothing is pushed before its row is there.
Waits(r) == \/ r \in Range(queue)
            \/ \E w \in Workers : pc[w] \in Unclaimed /\ job[w] = r

NothingLost ==
    /\ \A r \in Runs : status[r] = "absent" => pushes[r] = 0
    /\ \A r \in Runs : status[r] = "queued" /\ pushes[r] > 0 => Waits(r) \/ r \in abandoned

\* The pop hands a run over to a worker, which decides about it or abandons it.
LEMMA NextNothingLost == TypeOK /\ NothingLost /\ [Next]_vars => NothingLost'
  <1> SUFFICES ASSUME TypeOK, NothingLost, [Next]_vars
               PROVE  NothingLost'
    OBVIOUS
  <1>types. /\ pc \in [Workers -> Label] /\ job \in [Workers -> Runs \cup {NoRun}]
            /\ status \in [Runs -> Status] /\ queue \in Seq(Runs)
            /\ pushes \in [Runs -> Nat]
            /\ \A w \in Workers : pc[w] # "idle" => job[w] \in Runs
    BY JobIsRun, ConstantsAssumption DEF TypeOK, Types
  <1>inv. NothingLost
    OBVIOUS
  \* Who is undecided before is so after or abandons its run, the list and the
  \* queued rows are the same.
  <1>quiet. ASSUME UNCHANGED <<queue, pushes>>, abandoned \subseteq abandoned',
                   \A r \in Runs : status'[r] \in {"absent", "queued"} => status'[r] = status[r],
                   \A w \in Workers : pc[w] \in Unclaimed =>
                       (pc'[w] \in Unclaimed /\ job'[w] = job[w]) \/ job[w] \in abandoned'
            PROVE  NothingLost'
    BY <1>inv, <1>quiet DEF NothingLost, Waits
  <1>Create. ASSUME NEW r \in Runs, Create(r) PROVE NothingLost'
    BY <1>inv, <1>types, <1>Create DEF Create, NothingLost, Waits
  <1>Push. ASSUME NEW r \in Runs, Push(r) PROVE NothingLost'
    <2>1. \A s \in Runs : s \in Range(queue') <=> s = r \/ s \in Range(queue)
      BY <1>types, <1>Push, RangeOfQueue DEF Push
    <2> QED
      BY <2>1, <1>inv, <1>types, <1>Push DEF Push, NothingLost, Waits
  <1>WindowSlides. ASSUME NEW r \in Runs, WindowSlides(r) PROVE NothingLost'
    BY <1>quiet, <1>WindowSlides DEF WindowSlides
  <1>PersonReads. ASSUME PersonReads PROVE NothingLost'
    BY <1>quiet, <1>PersonReads DEF PersonReads
  <1>PersonWrites. ASSUME PersonWrites PROVE NothingLost'
    BY <1>quiet, <1>PersonWrites DEF PersonWrites
  <1>Pop. ASSUME NEW u \in Workers, Pop(u) PROVE NothingLost'
    <2>1. Head(queue) \in Runs /\ \A s \in Runs : s \in Range(queue) <=> s = Head(queue) \/ s \in Range(queue')
      BY <1>types, <1>Pop, RangeOfQueue DEF Pop
    <2>2. pc' = [pc EXCEPT ![u] = "gate"] /\ job' = [job EXCEPT ![u] = Head(queue)] /\ pc[u] = "idle"
      BY <1>Pop DEF Pop
    <2>3. \A w \in Workers : pc[w] \in Unclaimed => pc'[w] \in Unclaimed /\ job'[w] = job[w]
      BY <2>2, <1>types
    <2>4. pc'[u] \in Unclaimed /\ job'[u] = Head(queue)
      BY <2>2, <1>types
    <2>5. \A s \in Runs : Waits(s) => Waits(s)'
      BY <2>1, <2>3, <2>4 DEF Waits
    <2> QED
      BY <2>5, <1>inv, <1>Pop DEF Pop, NothingLost
  <1>ReadGate. ASSUME NEW u \in Workers, ReadGate(u) PROVE NothingLost'
    BY <1>types, <1>quiet, <1>ReadGate DEF ReadGate
  <1>Block. ASSUME NEW u \in Workers, Block(u) PROVE NothingLost'
    <2>1. status'[job[u]] # "queued" /\ \A s \in Runs : s # job[u] => status'[s] = status[s]
      BY <1>types, <1>Block DEF Block
    <2>2. \A s \in Runs : status'[s] = "absent" => status[s] = "absent"
      BY <1>types, <1>Block DEF Block
    <2>3. \A w \in Workers : w # u => pc'[w] = pc[w] /\ job'[w] = job[w]
      BY <1>types, <1>Block DEF Block
    <2>4. UNCHANGED <<queue, pushes, abandoned>>
      BY <1>Block DEF Block
    <2>5. \A s \in Runs : s # job[u] /\ Waits(s) => Waits(s)'
      BY <2>3, <2>4 DEF Waits
    <2> QED
      BY <1>inv, <2>1, <2>2, <2>4, <2>5 DEF NothingLost
  <1>Claim. ASSUME NEW u \in Workers, Claim(u) PROVE NothingLost'
    <2>1. status'[job[u]] # "queued" /\ \A s \in Runs : s # job[u] => status'[s] = status[s]
      BY <1>types, <1>Claim DEF Claim
    <2>2. \A s \in Runs : status'[s] = "absent" => status[s] = "absent"
      BY <1>types, <1>Claim DEF Claim
    <2>3. \A w \in Workers : w # u => pc'[w] = pc[w] /\ job'[w] = job[w]
      BY <1>types, <1>Claim DEF Claim
    <2>4. UNCHANGED <<queue, pushes, abandoned>>
      BY <1>Claim DEF Claim
    <2>5. \A s \in Runs : s # job[u] /\ Waits(s) => Waits(s)'
      BY <2>3, <2>4 DEF Waits
    <2> QED
      BY <1>inv, <2>1, <2>2, <2>4, <2>5 DEF NothingLost
  <1>ClaimFails. ASSUME NEW u \in Workers, ClaimFails(u) PROVE NothingLost'
    BY <1>types, <1>quiet, <1>ClaimFails DEF ClaimFails
  <1>Refetch. ASSUME NEW u \in Workers, Refetch(u) PROVE NothingLost'
    BY <1>types, <1>quiet, <1>Refetch DEF Refetch
  <1>RefetchFails. ASSUME NEW u \in Workers, RefetchFails(u) PROVE NothingLost'
    BY <1>types, <1>quiet, <1>RefetchFails DEF RefetchFails
  <1>StepSucceeds. ASSUME NEW u \in Workers, StepSucceeds(u) PROVE NothingLost'
    BY <1>types, <1>quiet, <1>StepSucceeds DEF StepSucceeds, AtStep
  <1>StepRetries. ASSUME NEW u \in Workers, StepRetries(u) PROVE NothingLost'
    BY <1>types, <1>quiet, <1>StepRetries DEF StepRetries, AtStep, SaveRetry
  <1>RetryNotSaved. ASSUME NEW u \in Workers, RetryNotSaved(u) PROVE NothingLost'
    BY <1>types, <1>quiet, <1>RetryNotSaved DEF RetryNotSaved, AtStep, SaveRetry
  <1>StepGivesUp. ASSUME NEW u \in Workers, StepGivesUp(u) PROVE NothingLost'
    BY <1>types, <1>quiet, <1>StepGivesUp DEF StepGivesUp, AtStep
  <1>StepsNotLoaded. ASSUME NEW u \in Workers, StepsNotLoaded(u) PROVE NothingLost'
    BY <1>types, <1>quiet, <1>StepsNotLoaded DEF StepsNotLoaded
  <1>Succeed. ASSUME NEW u \in Workers, Succeed(u) PROVE NothingLost'
    BY <1>types, <1>quiet, <1>Succeed DEF Succeed
  <1>SucceedFails. ASSUME NEW u \in Workers, SucceedFails(u) PROVE NothingLost'
    BY <1>types, <1>quiet, <1>SucceedFails DEF SucceedFails
  <1>CloseBreaker. ASSUME NEW u \in Workers, CloseBreaker(u) PROVE NothingLost'
    BY <1>types, <1>quiet, <1>CloseBreaker DEF CloseBreaker
  <1>CloseBreakerFails. ASSUME NEW u \in Workers, CloseBreakerFails(u) PROVE NothingLost'
    BY <1>types, <1>quiet, <1>CloseBreakerFails DEF CloseBreakerFails
  <1>MarkFailed. ASSUME NEW u \in Workers, MarkFailed(u) PROVE NothingLost'
    BY <1>types, <1>quiet, <1>MarkFailed DEF MarkFailed
  <1>MarkFailedFails. ASSUME NEW u \in Workers, MarkFailedFails(u) PROVE NothingLost'
    BY <1>types, <1>quiet, <1>MarkFailedFails DEF MarkFailedFails
  <1>ReadBreaker. ASSUME NEW u \in Workers, ReadBreaker(u) PROVE NothingLost'
    BY <1>types, <1>quiet, <1>ReadBreaker DEF ReadBreaker, TypeOK, Types, Breaker, BreakerState
  <1>CountFailures. ASSUME NEW u \in Workers, CountFailures(u) PROVE NothingLost'
    BY <1>types, <1>quiet, <1>CountFailures DEF CountFailures
  <1>OpenBreaker. ASSUME NEW u \in Workers, OpenBreaker(u) PROVE NothingLost'
    BY <1>types, <1>quiet, <1>OpenBreaker DEF OpenBreaker
  <1>EvaluationFails. ASSUME NEW u \in Workers, EvaluationFails(u) PROVE NothingLost'
    BY <1>types, <1>quiet, <1>EvaluationFails DEF EvaluationFails
  <1>Finally. ASSUME NEW u \in Workers, Finally(u) PROVE NothingLost'
    BY <1>types, <1>quiet, <1>Finally DEF Finally
  <1>Die. ASSUME NEW u \in Workers, Die(u) PROVE NothingLost'
    BY <1>types, <1>quiet, <1>Die DEF Die
  <1>stutter. ASSUME UNCHANGED vars PROVE NothingLost'
    BY <1>quiet, <1>stutter DEF vars
  <1> QED
    BY <1>Create, <1>Push, <1>WindowSlides, <1>PersonReads, <1>PersonWrites, <1>Pop, <1>ReadGate, <1>Block,
       <1>Claim, <1>ClaimFails, <1>Refetch, <1>RefetchFails, <1>StepSucceeds, <1>StepRetries, <1>RetryNotSaved,
       <1>StepGivesUp, <1>StepsNotLoaded, <1>Succeed, <1>SucceedFails, <1>CloseBreaker, <1>CloseBreakerFails,
       <1>MarkFailed, <1>MarkFailedFails, <1>ReadBreaker, <1>CountFailures, <1>OpenBreaker, <1>EvaluationFails,
       <1>Finally, <1>Die, <1>stutter
       DEF Next, WorkerStep, WorkerFault

\* A queued run that was pushed is on the list, with a worker that has not decided
\* yet, or was lost by one to an error or a death: the pop loses nothing else.
THEOREM NoLostRunAlways == Spec => []NoLostRun
  <1>1. Init => NothingLost
    BY DEF Init, NothingLost
  <1>2. NothingLost => NoLostRun
    BY DEF NothingLost, Waits, NoLostRun
  <1> QED
    BY <1>1, <1>2, InitType, NextType, NextNothingLost, PTL DEF Spec

-----------------------------------------------------------------------------
(* No failure is missed *)

\* A worker that goes on to count failures or to open the breaker has read that
\* it is not open, so the flush that opens it writes the column.
SeenNotOpen == \A w \in Workers : pc[w] \in {"count", "open"} => seen[w].state # "open"

\* As many failures as the largest threshold in use.
Enough(failures) == \A t \in Thresholds : Cardinality(failures) >= t

\* NoMissedTrip, and what makes it inductive.
Armed == faults = 0 /\ breaker.state = "closed" /\ Enough(recent \ forgiven) =>
             \E w \in Workers : pc[w] \in Evaluating

TripInv == IsFiniteSet(recent) /\ SeenNotOpen /\ Armed

\* The numbers of failures are numbers, and fewer failures are not more.
LEMMA CountType ==
    ASSUME IsFiniteSet(recent), NEW S, S \subseteq recent
    PROVE  Cardinality(recent) \in Nat /\ Cardinality(S) \in Nat /\ Cardinality(S) <= Cardinality(recent)
  BY FS_Subset, FS_CardinalityType

\* No threshold is reached by no failures.
LEMMA NoneIsNotEnough == ~Enough({})
  <1>1. \E t \in Thresholds : t \in Nat /\ t # 0
    BY ConstantsAssumption
  <1> QED
    BY <1>1, FS_EmptySet DEF Enough

\* A commit of the breaker either leaves it closed as it was, or closes it with all
\* failures on record forgiven, or leaves it not closed.
LEMMA SaveIsHarmless ==
    ASSUME breaker \in Breaker, NEW loaded, NEW wanted, SaveBreaker(loaded, wanted), recent' = recent,
           breaker'.state = "closed", Enough((recent \ forgiven)')
    PROVE  breaker.state = "closed" /\ Enough(recent \ forgiven)
  <1>1. CASE breaker.state = "closed"
    BY <1>1 DEF SaveBreaker
  <1>2. CASE breaker.state # "closed"
    <2>1. (recent \ forgiven)' = {}
      BY <1>2 DEF SaveBreaker
    <2> QED
      BY <2>1, NoneIsNotEnough
  <1> QED
    BY <1>1, <1>2

\* A failure is on record before its worker counts, and who counts last sees all.
LEMMA NextTripInv == TypeOK /\ TripInv /\ [Next]_vars => TripInv'
  <1> SUFFICES ASSUME TypeOK, TripInv, [Next]_vars
               PROVE  TripInv'
    OBVIOUS
  <1>types. /\ pc \in [Workers -> Label] /\ faults \in Nat /\ recent \subseteq Runs
            /\ breaker \in Breaker /\ seen \in [Workers -> Breaker] /\ breaker.state \in BreakerState
    BY ConstantsAssumption DEF TypeOK, Types, Breaker
  <1>inv. IsFiniteSet(recent) /\ SeenNotOpen /\ Armed
    BY DEF TripInv
  <1>fault. ASSUME Fault, UNCHANGED recent,
                   \A w \in Workers : pc'[w] \in {"count", "open"} => pc'[w] = pc[w] /\ seen'[w] = seen[w]
            PROVE  TripInv'
    BY <1>inv, <1>types, <1>fault DEF TripInv, SeenNotOpen, Armed
  \* The failures and the breaker are left alone, and who is evaluating goes on.
  <1>quiet. ASSUME UNCHANGED <<recent, breaker, forgiven, faults>>,
                   \A w \in Workers : pc[w] \in Evaluating => pc'[w] \in Evaluating,
                   \A w \in Workers : pc'[w] \in {"count", "open"} => pc'[w] = pc[w] /\ seen'[w] = seen[w]
            PROVE  TripInv'
    BY <1>inv, <1>quiet DEF TripInv, SeenNotOpen, Armed
  \* The breaker is saved.
  <1>save. ASSUME NEW loaded, NEW wanted, SaveBreaker(loaded, wanted), UNCHANGED <<recent, faults>>,
                  \A w \in Workers : pc[w] \in Evaluating => pc'[w] = pc[w],
                  \A w \in Workers : pc'[w] \in {"count", "open"} => pc'[w] = pc[w] /\ seen'[w] = seen[w]
           PROVE  TripInv'
    <2>1. breaker'.state = "closed" /\ Enough((recent \ forgiven)') =>
              breaker.state = "closed" /\ Enough(recent \ forgiven)
      BY <1>save, <1>types, SaveIsHarmless
    <2>2. Armed'
      BY <2>1, <1>inv, <1>save DEF Armed
    <2> QED
      BY <2>2, <1>inv, <1>save DEF TripInv, SeenNotOpen
  <1>Create. ASSUME NEW r \in Runs, Create(r) PROVE TripInv'
    BY <1>quiet, <1>Create DEF Create
  <1>Push. ASSUME NEW r \in Runs, Push(r) PROVE TripInv'
    BY <1>quiet, <1>Push DEF Push
  <1>WindowSlides. ASSUME NEW r \in Runs, WindowSlides(r) PROVE TripInv'
    <2>1. recent' \subseteq recent /\ (recent \ forgiven)' \subseteq recent \ forgiven /\ recent \ forgiven \subseteq recent
      BY <1>WindowSlides DEF WindowSlides
    <2>2. IsFiniteSet(recent')
      BY <2>1, <1>inv, FS_Subset
    <2>3. Cardinality((recent \ forgiven)') <= Cardinality(recent \ forgiven)
      BY <2>1, <1>inv, FS_Subset, FS_CardinalityType
    <2>4. Cardinality((recent \ forgiven)') \in Nat /\ Cardinality(recent \ forgiven) \in Nat
      BY <2>1, <2>2, <1>inv, FS_Subset, FS_CardinalityType
    <2>5. Enough((recent \ forgiven)') => Enough(recent \ forgiven)
      BY <2>3, <2>4, ConstantsAssumption DEF Enough
    <2>6. Armed'
      BY <2>5, <1>inv, <1>WindowSlides DEF Armed, WindowSlides
    <2> QED
      BY <2>2, <2>6, <1>inv, <1>WindowSlides DEF TripInv, SeenNotOpen, WindowSlides
  <1>PersonReads. ASSUME PersonReads PROVE TripInv'
    BY <1>quiet, <1>PersonReads DEF PersonReads
  <1>PersonWrites. ASSUME PersonWrites PROVE TripInv'
    <2>1. PICK wanted : SaveBreaker(person.seen, wanted)
      BY <1>PersonWrites DEF PersonWrites
    <2> QED
      BY <2>1, <1>save, <1>PersonWrites DEF PersonWrites
  <1>Pop. ASSUME NEW u \in Workers, Pop(u) PROVE TripInv'
    BY <1>types, <1>quiet, <1>Pop DEF Pop
  <1>ReadGate. ASSUME NEW u \in Workers, ReadGate(u) PROVE TripInv'
    BY <1>types, <1>quiet, <1>ReadGate DEF ReadGate
  <1>Block. ASSUME NEW u \in Workers, Block(u) PROVE TripInv'
    BY <1>types, <1>quiet, <1>Block DEF Block
  <1>Claim. ASSUME NEW u \in Workers, Claim(u) PROVE TripInv'
    BY <1>types, <1>quiet, <1>Claim DEF Claim
  <1>ClaimFails. ASSUME NEW u \in Workers, ClaimFails(u) PROVE TripInv'
    BY <1>types, <1>fault, <1>ClaimFails DEF ClaimFails
  <1>Refetch. ASSUME NEW u \in Workers, Refetch(u) PROVE TripInv'
    BY <1>types, <1>quiet, <1>Refetch DEF Refetch
  <1>RefetchFails. ASSUME NEW u \in Workers, RefetchFails(u) PROVE TripInv'
    BY <1>types, <1>fault, <1>RefetchFails DEF RefetchFails
  <1>StepSucceeds. ASSUME NEW u \in Workers, StepSucceeds(u) PROVE TripInv'
    BY <1>types, <1>quiet, <1>StepSucceeds DEF StepSucceeds, AtStep
  <1>StepRetries. ASSUME NEW u \in Workers, StepRetries(u) PROVE TripInv'
    BY <1>types, <1>quiet, <1>StepRetries DEF StepRetries, AtStep
  <1>RetryNotSaved. ASSUME NEW u \in Workers, RetryNotSaved(u) PROVE TripInv'
    BY <1>types, <1>fault, <1>RetryNotSaved DEF RetryNotSaved
  <1>StepGivesUp. ASSUME NEW u \in Workers, StepGivesUp(u) PROVE TripInv'
    BY <1>types, <1>quiet, <1>StepGivesUp DEF StepGivesUp, AtStep
  <1>StepsNotLoaded. ASSUME NEW u \in Workers, StepsNotLoaded(u) PROVE TripInv'
    BY <1>types, <1>fault, <1>StepsNotLoaded DEF StepsNotLoaded
  <1>Succeed. ASSUME NEW u \in Workers, Succeed(u) PROVE TripInv'
    BY <1>types, <1>quiet, <1>Succeed DEF Succeed
  <1>SucceedFails. ASSUME NEW u \in Workers, SucceedFails(u) PROVE TripInv'
    BY <1>types, <1>fault, <1>SucceedFails DEF SucceedFails
  <1>CloseBreaker. ASSUME NEW u \in Workers, CloseBreaker(u) PROVE TripInv'
    <2>1. CASE seen[u].state = "half-open"
      BY <2>1, <1>types, <1>save, <1>CloseBreaker DEF CloseBreaker
    <2>2. CASE seen[u].state # "half-open"
      BY <2>2, <1>types, <1>quiet, <1>CloseBreaker DEF CloseBreaker
    <2> QED
      BY <2>1, <2>2
  <1>CloseBreakerFails. ASSUME NEW u \in Workers, CloseBreakerFails(u) PROVE TripInv'
    BY <1>types, <1>fault, <1>CloseBreakerFails DEF CloseBreakerFails
  <1>MarkFailed. ASSUME NEW u \in Workers, MarkFailed(u) PROVE TripInv'
    <2>1. IsFiniteSet(recent')
      BY <1>inv, <1>MarkFailed, FS_AddElement DEF MarkFailed
    <2>2. pc'[u] \in Evaluating
      BY <1>types, <1>MarkFailed DEF MarkFailed
    <2> QED
      BY <2>1, <2>2, <1>types, <1>inv, <1>MarkFailed DEF TripInv, SeenNotOpen, Armed, MarkFailed
  <1>MarkFailedFails. ASSUME NEW u \in Workers, MarkFailedFails(u) PROVE TripInv'
    BY <1>types, <1>fault, <1>MarkFailedFails DEF MarkFailedFails
  <1>ReadBreaker. ASSUME NEW u \in Workers, ReadBreaker(u) PROVE TripInv'
    <2>1. \/ breaker.state = "half-open" /\ pc' = [pc EXCEPT ![u] = "open"]
          \/ breaker.state = "closed" /\ pc' = [pc EXCEPT ![u] = "count"]
          \/ breaker.state = "open" /\ pc' = [pc EXCEPT ![u] = "finally"]
      BY <1>types, <1>ReadBreaker DEF ReadBreaker, BreakerState
    <2>2. seen' = [seen EXCEPT ![u] = breaker] /\ UNCHANGED <<recent, breaker, forgiven, faults>>
      BY <1>ReadBreaker DEF ReadBreaker
    <2>3. SeenNotOpen'
      BY <2>1, <2>2, <1>types, <1>inv DEF SeenNotOpen
    <2>4. breaker.state = "closed" => pc'[u] \in Evaluating
      BY <2>1, <1>types
    <2> QED
      BY <2>2, <2>3, <2>4, <1>inv DEF TripInv, Armed
  <1>CountFailures. ASSUME NEW u \in Workers, CountFailures(u) PROVE TripInv'
    <2>1. seen[u].threshold \in Thresholds /\ pc[u] = "count" /\ UNCHANGED <<recent, breaker, forgiven, faults, seen>>
      BY <1>types, <1>CountFailures DEF CountFailures, Breaker
    <2>2. Cardinality(recent) \in Nat /\ Cardinality(recent \ forgiven) \in Nat
          /\ Cardinality(recent \ forgiven) <= Cardinality(recent)
      BY <1>inv, CountType
    <2>3. Enough(recent \ forgiven) => Cardinality(recent) >= seen[u].threshold
      <3>1. Enough(recent \ forgiven) => Cardinality(recent \ forgiven) >= seen[u].threshold
        BY <2>1 DEF Enough
      <3>2. seen[u].threshold \in Nat
        BY <2>1, ConstantsAssumption
      <3> QED
        BY <2>2, <3>1, <3>2
    <2>4. \/ Cardinality(recent) >= seen[u].threshold /\ pc' = [pc EXCEPT ![u] = "open"]
          \/ ~(Cardinality(recent) >= seen[u].threshold) /\ pc' = [pc EXCEPT ![u] = "finally"]
      BY <1>CountFailures DEF CountFailures
    <2>5. SeenNotOpen'
      BY <2>1, <2>4, <1>types, <1>inv DEF SeenNotOpen
    <2>6. Enough(recent \ forgiven) => pc'[u] \in Evaluating
      BY <2>3, <2>4, <1>types
    <2> QED
      BY <2>1, <2>5, <2>6, <1>inv DEF TripInv, Armed
  <1>OpenBreaker. ASSUME NEW u \in Workers, OpenBreaker(u) PROVE TripInv'
    <2>1. PICK e \in Errors : SaveBreaker(seen[u], Opened(seen[u], e))
      BY <1>OpenBreaker DEF OpenBreaker
    <2>2. seen[u] \in Breaker /\ seen[u].state # "open"
      BY <1>types, <1>inv, <1>OpenBreaker DEF OpenBreaker, SeenNotOpen
    <2>3. breaker'.state = "open"
      BY <2>1, <2>2, <1>types DEF SaveBreaker, Flush, Opened, Breaker
    <2>4. SeenNotOpen' /\ UNCHANGED recent
      BY <1>types, <1>inv, <1>OpenBreaker DEF OpenBreaker, SeenNotOpen
    <2> QED
      BY <2>3, <2>4, <1>inv DEF TripInv, Armed
  <1>EvaluationFails. ASSUME NEW u \in Workers, EvaluationFails(u) PROVE TripInv'
    BY <1>types, <1>fault, <1>EvaluationFails DEF EvaluationFails
  <1>Finally. ASSUME NEW u \in Workers, Finally(u) PROVE TripInv'
    BY <1>types, <1>quiet, <1>Finally DEF Finally
  <1>Die. ASSUME NEW u \in Workers, Die(u) PROVE TripInv'
    BY <1>types, <1>fault, <1>Die DEF Die
  <1>stutter. ASSUME UNCHANGED vars PROVE TripInv'
    BY <1>quiet, <1>stutter DEF vars
  <1> QED
    BY <1>Create, <1>Push, <1>WindowSlides, <1>PersonReads, <1>PersonWrites, <1>Pop, <1>ReadGate, <1>Block,
       <1>Claim, <1>ClaimFails, <1>Refetch, <1>RefetchFails, <1>StepSucceeds, <1>StepRetries, <1>RetryNotSaved,
       <1>StepGivesUp, <1>StepsNotLoaded, <1>Succeed, <1>SucceedFails, <1>CloseBreaker, <1>CloseBreakerFails,
       <1>MarkFailed, <1>MarkFailedFails, <1>ReadBreaker, <1>CountFailures, <1>OpenBreaker, <1>EvaluationFails,
       <1>Finally, <1>Die, <1>stutter
       DEF Next, WorkerStep, WorkerFault

\* Two workers that fail at the same time cannot both miss each other's failure: for
\* any number of workers and any thresholds, once nobody evaluates the breaker it is
\* not closed on as many failures as the largest of them.
THEOREM NoMissedTripAlways == Spec => []NoMissedTrip
  <1>1. Init => TripInv
    BY NoneIsNotEnough, FS_EmptySet DEF Init, TripInv, SeenNotOpen, Armed
  <1>2. TypeOK /\ TripInv => NoMissedTrip
    <2> SUFFICES ASSUME TypeOK, TripInv, faults = 0, \A w \in Workers : pc[w] \notin Evaluating,
                        breaker.state = "closed"
                 PROVE  \E t \in Thresholds : Cardinality(recent \ forgiven) < t
      BY DEF NoMissedTrip
    <2>1. PICK t \in Thresholds : ~(Cardinality(recent \ forgiven) >= t)
      BY DEF TripInv, Armed, Enough
    <2>2. Cardinality(recent \ forgiven) \in Nat /\ t \in Nat
      BY CountType, ConstantsAssumption DEF TripInv
    <2> QED
      BY <2>1, <2>2
  <1> QED
    BY <1>1, <1>2, InitType, NextType, NextTripInv, PTL DEF Spec

-----------------------------------------------------------------------------
(* No more retries than the steps allow *)

Steps == Len(Retries)

\* There are finitely many steps, each with a number of retries.
LEMMA StepsType == Steps \in Nat /\ \A n \in 1..Steps : Retries[n] \in Nat
  BY ConstantsAssumption DEF Steps

\* The recursive definition of Allowed defines a function.
LEMMA AllowedDef ==
    Allowed = [n \in 0..Steps |-> IF n = 0 THEN 0 ELSE Allowed[n - 1] + Retries[n]]
  <1> DEFINE Sums(f, k) == f = [n \in 0..k |-> IF n = 0 THEN 0 ELSE f[n - 1] + Retries[n]]
             Good == {k \in Nat : \E f : Sums(f, k)}
  <1>1. 0 \in Good
    <2>1. Sums([n \in 0..0 |-> 0], 0)
      OBVIOUS
    <2> QED
      BY <2>1
  <1>2. ASSUME NEW k \in Nat, k < Steps, k \in Good
        PROVE  k + 1 \in Good
    <2>1. PICK f : Sums(f, k)
      BY <1>2
    <2> DEFINE g == [n \in 0..k + 1 |-> IF n = k + 1 THEN f[k] + Retries[k + 1] ELSE f[n]]
    <2>2. ASSUME NEW n \in 0..k + 1
          PROVE  g[n] = IF n = 0 THEN 0 ELSE g[n - 1] + Retries[n]
      <3>1. CASE n = k + 1
        BY <3>1
      <3>2. CASE n # k + 1
        <4>1. n \in 0..k /\ (n # 0 => n - 1 \in 0..k + 1 /\ n - 1 # k + 1)
          BY <3>2
        <4>2. f[n] = IF n = 0 THEN 0 ELSE f[n - 1] + Retries[n]
          BY <2>1, <4>1
        <4> QED
          BY <3>2, <4>1, <4>2
      <3> QED
        BY <3>1, <3>2
    <2>3. g = [n \in 0..k + 1 |-> g[n]]
      OBVIOUS
    <2>4. Sums(g, k + 1)
      <3> HIDE DEF g
      <3> QED
        BY <2>2, <2>3
    <2> HIDE DEF g, Sums
    <2> QED
      BY <2>4
  <1>3. Steps \in Good
    <2>1. Steps \in 0..Steps
      BY StepsType
    <2> HIDE DEF Good
    <2>2. \A k \in 0..Steps : k \in Good
      BY <1>1, <1>2, StepsType, Upwards
    <2> QED
      BY <2>1, <2>2
  <1>4. Allowed = CHOOSE f : Sums(f, Steps)
    BY DEF Allowed, Steps
  <1>5. \E f : Sums(f, Steps)
    BY <1>3
  <1>6. Sums(Allowed, Steps)
    <2> HIDE DEF Sums
    <2> QED
      BY <1>4, <1>5
  <1> QED
    BY <1>6

\* Allowed counts the retries of one more step at each step ...
LEMMA AllowedSteps ==
    /\ Allowed[0] = 0
    /\ \A n \in 1..Steps : Allowed[n] = Allowed[n - 1] + Retries[n]
    /\ \A n \in 0..Steps : Allowed[n] \in Nat
  <1>1. ASSUME NEW n \in 0..Steps
        PROVE  Allowed[n] = IF n = 0 THEN 0 ELSE Allowed[n - 1] + Retries[n]
    BY AllowedDef
  <1>2. Allowed[0] = 0 /\ \A n \in 1..Steps : Allowed[n] = Allowed[n - 1] + Retries[n]
    BY <1>1, StepsType
  <1> DEFINE Good == {n \in 0..Steps : Allowed[n] \in Nat}
  <1>3. 0 \in Good
    BY <1>2, StepsType
  <1>4. ASSUME NEW n \in Nat, n < Steps, n \in Good PROVE n + 1 \in Good
    <2>1. n + 1 \in 1..Steps /\ (n + 1) - 1 = n
      BY <1>4, StepsType
    <2> QED
      BY <2>1, <1>2, <1>4, StepsType
  <1>5. \A n \in 0..Steps : n \in Good
    <2> HIDE DEF Good
    <2> QED
      BY <1>3, <1>4, StepsType, Upwards
  <1> QED
    BY <1>2, <1>5

\* ... so no part of the steps allows more than all of them.
LEMMA AllowedGrows == \A n \in 0..Steps : Allowed[n] <= Allowed[Steps]
  <1> DEFINE Good == {n \in 0..Steps : Allowed[n] <= Allowed[Steps]}
  <1>1. Steps \in Good
    BY StepsType, AllowedSteps
  <1>2. ASSUME NEW n \in Nat, n < Steps, n + 1 \in Good PROVE n \in Good
    <2>1. n \in 0..Steps /\ n + 1 \in 1..Steps /\ (n + 1) - 1 = n /\ Steps \in 0..Steps /\ n + 1 \in 0..Steps
      BY <1>2, StepsType
    <2>2. Allowed[n + 1] = Allowed[n] + Retries[n + 1]
      BY <2>1, AllowedSteps
    <2>3. Allowed[n] \in Nat /\ Allowed[n + 1] \in Nat /\ Allowed[Steps] \in Nat /\ Retries[n + 1] \in Nat
      BY <2>1, AllowedSteps, StepsType
    <2>4. Allowed[n + 1] <= Allowed[Steps]
      BY <1>2
    <2> QED
      BY <2>1, <2>2, <2>3, <2>4
  <1>3. \A n \in 0..Steps : n \in Good
    <2> HIDE DEF Good
    <2> QED
      BY <1>1, <1>2, StepsType, Downwards
  <1> QED
    BY <1>3

\* What makes RetryBudget inductive: a run nobody has claimed has no retries, and a
\* worker at a step has used no more than the steps before it and its attempts allow.
Fresh(r) == status[r] \in {"absent", "queued", "blocked"} => retryCount[r] = 0

Frugal(w) ==
    /\ pc[w] = "refetch" => retryCount[job[w]] = 0
    /\ pc[w] # "steps" => step[w] = 1 /\ attempt[w] = 1
    /\ pc[w] = "steps" => retryCount[job[w]] < Allowed[step[w] - 1] + attempt[w]
    /\ AtStep(w) => attempt[w] <= Retries[step[w]] + 1
    /\ step[w] > Steps => attempt[w] = 1

Budgeted == (\A r \in Runs : Fresh(r)) /\ (\A w \in Workers : Frugal(w)) /\ RetryBudget

\* What a worker at a step may still spend is within the budget.
LEMMA WithinBudget ==
    ASSUME TypeOK, NEW w \in Workers, AtStep(w), Frugal(w)
    PROVE  /\ step[w] \in 1..Steps /\ attempt[w] \in Nat /\ retryCount[job[w]] \in Nat
           /\ Allowed[step[w]] = Allowed[step[w] - 1] + Retries[step[w]] /\ Allowed[step[w] - 1] \in Nat
           /\ Retries[step[w]] \in Nat
           /\ retryCount[job[w]] <= Allowed[step[w]]
           /\ ~FinalAttempt(w) => retryCount[job[w]] + 1 <= Allowed[Steps]
  <1>1. step[w] \in 1..Steps /\ attempt[w] \in Nat /\ retryCount[job[w]] \in Nat
    BY StepsType, JobIsRun DEF TypeOK, Types, AtStep, Steps
  <1>2. step[w] - 1 \in 0..Steps /\ step[w] \in 0..Steps /\ Steps \in 0..Steps
    BY <1>1, StepsType
  <1>3. /\ Allowed[step[w]] = Allowed[step[w] - 1] + Retries[step[w]] /\ Allowed[step[w] - 1] \in Nat
        /\ Retries[step[w]] \in Nat /\ Allowed[step[w]] <= Allowed[Steps] /\ Allowed[Steps] \in Nat
        /\ Allowed[step[w]] \in Nat
    BY <1>1, <1>2, StepsType, AllowedSteps, AllowedGrows
  <1>4. retryCount[job[w]] < Allowed[step[w] - 1] + attempt[w] /\ attempt[w] <= Retries[step[w]] + 1
    BY DEF Frugal, AtStep
  <1>5. ~FinalAttempt(w) => attempt[w] # Retries[step[w]] + 1
    BY DEF FinalAttempt
  <1> QED
    BY <1>1, <1>3, <1>4, <1>5

\* The retries of a run move only with the attempts of the one worker that has it.
LEMMA NextBudgeted == Inv /\ Budgeted /\ [Next]_vars => Budgeted'
  <1> SUFFICES ASSUME Inv, Budgeted, [Next]_vars
               PROVE  Budgeted'
    OBVIOUS
  <1>types. /\ pc \in [Workers -> Label] /\ job \in [Workers -> Runs \cup {NoRun}]
            /\ status \in [Runs -> Status] /\ retryCount \in [Runs -> Nat]
            /\ step \in [Workers -> 1..Steps + 1] /\ attempt \in [Workers -> Nat \ {0}]
            /\ \A w \in Workers : pc[w] # "idle" => job[w] \in Runs
    BY JobIsRun DEF Inv, TypeOK, Types, Steps
  <1>inv. /\ \A r \in Runs : Fresh(r)
          /\ \A w \in Workers : Frugal(w)
          /\ RetryBudget
          /\ Unique /\ OwnerHoldsRow /\ TypeOK
    BY UniqueIsOneOwner DEF Inv, Budgeted
  <1>steps. Steps \in Nat /\ Allowed[0] = 0 /\ \A n \in 1..Steps : Retries[n] \in Nat
    BY StepsType, AllowedSteps
  \* No retry is recorded, and no worker moves to or among the steps.
  <1>quiet. ASSUME UNCHANGED retryCount,
                   \A r \in Runs : status'[r] \in {"absent", "queued", "blocked"} =>
                       status[r] \in {"absent", "queued", "blocked"},
                   \A w \in Workers :
                       \/ /\ pc'[w] \notin {"refetch", "steps"} /\ step'[w] = 1 /\ attempt'[w] = 1
                       \/ pc'[w] = pc[w] /\ job'[w] = job[w] /\ step'[w] = step[w] /\ attempt'[w] = attempt[w]
            PROVE  Budgeted'
    <2>1. \A r \in Runs : Fresh(r)'
      BY <1>inv, <1>quiet DEF Fresh
    <2>2. ASSUME NEW w \in Workers PROVE Frugal(w)'
      BY <2>2, <1>inv, <1>quiet, <1>steps DEF Frugal, AtStep
    <2> QED
      BY <2>1, <2>2, <1>inv, <1>quiet DEF Budgeted, RetryBudget
  <1>Create. ASSUME NEW r \in Runs, Create(r) PROVE Budgeted'
    BY <1>types, <1>inv, <1>quiet, <1>Create DEF Create, Frugal
  <1>Push. ASSUME NEW r \in Runs, Push(r) PROVE Budgeted'
    BY <1>inv, <1>quiet, <1>Push DEF Push, Frugal
  <1>WindowSlides. ASSUME NEW r \in Runs, WindowSlides(r) PROVE Budgeted'
    BY <1>inv, <1>quiet, <1>WindowSlides DEF WindowSlides, Frugal
  <1>PersonReads. ASSUME PersonReads PROVE Budgeted'
    BY <1>inv, <1>quiet, <1>PersonReads DEF PersonReads, Frugal
  <1>PersonWrites. ASSUME PersonWrites PROVE Budgeted'
    BY <1>inv, <1>quiet, <1>PersonWrites DEF PersonWrites, Frugal
  <1>Pop. ASSUME NEW u \in Workers, Pop(u) PROVE Budgeted'
    BY <1>types, <1>inv, <1>quiet, <1>Pop DEF Pop, Frugal
  <1>ReadGate. ASSUME NEW u \in Workers, ReadGate(u) PROVE Budgeted'
    BY <1>types, <1>inv, <1>quiet, <1>ReadGate DEF ReadGate, Frugal
  <1>Block. ASSUME NEW u \in Workers, Block(u) PROVE Budgeted'
    BY <1>types, <1>inv, <1>quiet, <1>Block DEF Block, Frugal
  <1>Claim. ASSUME NEW u \in Workers, Claim(u) PROVE Budgeted'
    <2>1. CASE status[job[u]] # "queued"
      BY <2>1, <1>types, <1>inv, <1>quiet, <1>Claim DEF Claim, Frugal
    <2>2. CASE status[job[u]] = "queued"
      <3>1. /\ pc' = [pc EXCEPT ![u] = "refetch"] /\ status' = [status EXCEPT ![job[u]] = "running"]
            /\ pc[u] = "decide" /\ UNCHANGED <<retryCount, job, step, attempt>>
        BY <2>2, <1>Claim DEF Claim
      <3>2. retryCount[job[u]] = 0 /\ step[u] = 1 /\ attempt[u] = 1
        BY <2>2, <3>1, <1>types, <1>inv DEF Fresh, Frugal
      <3>3. \A r \in Runs : Fresh(r)'
        BY <3>1, <1>types, <1>inv DEF Fresh
      <3>4. ASSUME NEW w \in Workers PROVE Frugal(w)'
        BY <3>1, <3>2, <1>types, <1>inv, <1>steps DEF Frugal, AtStep
      <3> QED
        BY <3>1, <3>3, <3>4, <1>inv DEF Budgeted, RetryBudget
    <2> QED
      BY <2>1, <2>2
  <1>ClaimFails. ASSUME NEW u \in Workers, ClaimFails(u) PROVE Budgeted'
    BY <1>types, <1>inv, <1>quiet, <1>ClaimFails DEF ClaimFails, Frugal
  <1>Refetch. ASSUME NEW u \in Workers, Refetch(u) PROVE Budgeted'
    <2>1. pc' = [pc EXCEPT ![u] = "steps"] /\ pc[u] = "refetch" /\ UNCHANGED <<status, retryCount, job, step, attempt>>
      BY <1>Refetch DEF Refetch
    <2>2. retryCount[job[u]] = 0 /\ step[u] = 1 /\ attempt[u] = 1
      BY <2>1, <1>inv DEF Frugal
    <2>3. \A r \in Runs : Fresh(r)'
      BY <2>1, <1>inv DEF Fresh
    <2>4. ASSUME NEW w \in Workers, w # u PROVE Frugal(w)'
      BY <2>1, <2>4, <1>types, <1>inv DEF Frugal, AtStep
    <2>5. Frugal(u)'
      <3>1. pc'[u] = "steps" /\ job'[u] = job[u] /\ step'[u] = 1 /\ attempt'[u] = 1 /\ retryCount'[job[u]] = 0
        BY <2>1, <2>2, <1>types
      <3>2. AtStep(u)' => Retries[1] \in Nat
        BY <3>1, <1>steps DEF AtStep, Steps
      <3> QED
        BY <3>1, <3>2, <1>steps DEF Frugal, AtStep
    <2> QED
      BY <2>1, <2>3, <2>4, <2>5, <1>inv DEF Budgeted, RetryBudget
  <1>RefetchFails. ASSUME NEW u \in Workers, RefetchFails(u) PROVE Budgeted'
    BY <1>types, <1>inv, <1>quiet, <1>RefetchFails DEF RefetchFails, Frugal
  <1>StepSucceeds. ASSUME NEW u \in Workers, StepSucceeds(u) PROVE Budgeted'
    <2>1. /\ step' = [step EXCEPT ![u] = @ + 1] /\ attempt' = [attempt EXCEPT ![u] = 1] /\ AtStep(u)
          /\ UNCHANGED <<status, retryCount, pc, job>>
      BY <1>StepSucceeds DEF StepSucceeds
    <2>2. /\ step[u] \in 1..Steps /\ retryCount[job[u]] <= Allowed[step[u]] /\ retryCount[job[u]] \in Nat
          /\ Allowed[step[u]] \in Nat
      BY <2>1, <1>inv, WithinBudget, AllowedSteps
    <2>3. \A r \in Runs : Fresh(r)'
      BY <2>1, <1>inv DEF Fresh
    <2>4. ASSUME NEW w \in Workers, w # u PROVE Frugal(w)'
      BY <2>1, <2>4, <1>types, <1>inv DEF Frugal, AtStep
    <2>5. Frugal(u)'
      <3>1. step'[u] = step[u] + 1 /\ attempt'[u] = 1 /\ pc'[u] = "steps" /\ step'[u] - 1 = step[u]
        BY <2>1, <2>2, <1>types DEF AtStep
      <3>2. retryCount'[job'[u]] < Allowed[step'[u] - 1] + attempt'[u]
        BY <2>1, <2>2, <3>1
      <3>3. AtStep(u)' => attempt'[u] <= Retries[step'[u]] + 1
        <4>1. AtStep(u)' => step'[u] \in 1..Steps
          BY <2>2, <3>1 DEF AtStep, Steps
        <4> QED
          BY <4>1, <3>1, <1>steps
      <3> QED
        BY <3>1, <3>2, <3>3 DEF Frugal
    <2> QED
      BY <2>1, <2>3, <2>4, <2>5, <1>inv DEF Budgeted, RetryBudget
  <1>StepRetries. ASSUME NEW u \in Workers, StepRetries(u) PROVE Budgeted'
    <2>1. SaveRetry(u)
      BY <1>StepRetries DEF StepRetries
    <2>2. job[u] \in Runs /\ pc[u] = "steps" /\ ~FinalAttempt(u) /\ AtStep(u)
      BY <1>types, <1>StepRetries DEF StepRetries, AtStep
    <2>3. retryCount[job[u]] + 1 <= Allowed[Steps] /\ retryCount[job[u]] \in Nat
      BY <2>2, <1>inv, WithinBudget
    <2>4. status' = [status EXCEPT ![job[u]] = "retrying"] /\ retryCount' = [retryCount EXCEPT ![job[u]] = @ + 1]
      BY <2>1 DEF SaveRetry
    <2>5. \A r \in Runs : Fresh(r)'
      BY <2>2, <2>4, <1>types, <1>inv DEF Fresh
    <2>6. RetryBudget'
      BY <2>2, <2>3, <2>4, <1>types, <1>inv DEF RetryBudget, Steps
    \* Nobody else has the run.
    <2>7. ASSUME NEW w \in Workers, w # u PROVE Frugal(w)'
      <3>1. pc'[w] = pc[w] /\ job'[w] = job[w] /\ step'[w] = step[w] /\ attempt'[w] = attempt[w]
        BY <2>7, <1>types, <1>StepRetries DEF StepRetries
      <3>2. pc[w] \in Executing => job[w] # job[u] /\ job[w] \in Runs
        BY <2>2, <2>7, <1>types, <1>inv DEF Unique
      <3>3. pc[w] \in Executing => retryCount'[job[w]] = retryCount[job[w]]
        BY <3>2, <2>2, <2>4, <1>types
      <3> QED
        BY <3>1, <3>3, <1>inv DEF Frugal, AtStep
    <2>8. Frugal(u)'
      <3>1. /\ pc'[u] = "steps" /\ step'[u] = step[u] /\ attempt'[u] = attempt[u] + 1 /\ job'[u] = job[u]
            /\ retryCount'[job[u]] = retryCount[job[u]] + 1
        BY <2>2, <2>4, <1>types, <1>StepRetries DEF StepRetries
      <3>2. /\ step[u] \in 1..Steps /\ attempt[u] \in Nat /\ Allowed[step[u] - 1] \in Nat
            /\ Retries[step[u]] \in Nat
        BY <2>2, <1>inv, WithinBudget
      <3>3. /\ retryCount[job[u]] < Allowed[step[u] - 1] + attempt[u] /\ attempt[u] <= Retries[step[u]] + 1
            /\ attempt[u] # Retries[step[u]] + 1
        BY <2>2, <1>inv DEF Frugal, FinalAttempt
      <3>4. retryCount'[job'[u]] < Allowed[step'[u] - 1] + attempt'[u] /\ attempt'[u] <= Retries[step'[u]] + 1
        BY <2>3, <3>1, <3>2, <3>3
      <3>5. ~(step'[u] > Steps)
        BY <3>1, <3>2, <1>steps
      <3> QED
        BY <3>1, <3>4, <3>5 DEF Frugal, AtStep
    <2> QED
      BY <2>5, <2>6, <2>7, <2>8 DEF Budgeted
  <1>RetryNotSaved. ASSUME NEW u \in Workers, RetryNotSaved(u) PROVE Budgeted'
    <2>1. CASE UNCHANGED <<status, retryCount>>
      BY <2>1, <1>types, <1>inv, <1>quiet, <1>RetryNotSaved DEF RetryNotSaved, AtStep, Frugal
    <2>a. CASE SaveRetry(u)
      <3>2. job[u] \in Runs /\ pc[u] = "steps" /\ ~FinalAttempt(u) /\ AtStep(u)
        BY <1>types, <1>RetryNotSaved DEF RetryNotSaved, AtStep
      <3>3. retryCount[job[u]] + 1 <= Allowed[Steps] /\ retryCount[job[u]] \in Nat
        BY <3>2, <1>inv, WithinBudget
      <3>4. status' = [status EXCEPT ![job[u]] = "retrying"] /\ retryCount' = [retryCount EXCEPT ![job[u]] = @ + 1]
        BY <2>a DEF SaveRetry
      <3>5. \A r \in Runs : Fresh(r)'
        BY <3>2, <3>4, <1>types, <1>inv DEF Fresh
      <3>6. RetryBudget'
        BY <3>2, <3>3, <3>4, <1>types, <1>inv DEF RetryBudget, Steps
      \* Nobody else has the run.
      <3>7. ASSUME NEW w \in Workers, w # u PROVE Frugal(w)'
        <4>1. pc'[w] = pc[w] /\ job'[w] = job[w] /\ step'[w] = step[w] /\ attempt'[w] = attempt[w]
          BY <3>7, <1>types, <1>RetryNotSaved DEF RetryNotSaved
        <4>2. pc[w] \in Executing => job[w] # job[u] /\ job[w] \in Runs
          BY <3>2, <3>7, <1>types, <1>inv DEF Unique
        <4>3. pc[w] \in Executing => retryCount'[job[w]] = retryCount[job[w]]
          BY <4>2, <3>2, <3>4, <1>types
        <4> QED
          BY <4>1, <4>3, <1>inv DEF Frugal, AtStep
      <3>8. Frugal(u)'
        BY <1>types, <1>RetryNotSaved, <1>steps DEF RetryNotSaved, Frugal, AtStep
      <3> QED
        BY <3>5, <3>6, <3>7, <3>8 DEF Budgeted
    <2> QED
      BY <2>1, <2>a, <1>RetryNotSaved DEF RetryNotSaved
  <1>StepGivesUp. ASSUME NEW u \in Workers, StepGivesUp(u) PROVE Budgeted'
    BY <1>types, <1>inv, <1>quiet, <1>StepGivesUp DEF StepGivesUp, AtStep, Frugal
  <1>StepsNotLoaded. ASSUME NEW u \in Workers, StepsNotLoaded(u) PROVE Budgeted'
    BY <1>types, <1>inv, <1>quiet, <1>StepsNotLoaded DEF StepsNotLoaded, Frugal
  <1>Succeed. ASSUME NEW u \in Workers, Succeed(u) PROVE Budgeted'
    BY <1>types, <1>inv, <1>quiet, <1>Succeed DEF Succeed, Frugal
  <1>SucceedFails. ASSUME NEW u \in Workers, SucceedFails(u) PROVE Budgeted'
    BY <1>types, <1>inv, <1>quiet, <1>SucceedFails DEF SucceedFails, Frugal
  <1>CloseBreaker. ASSUME NEW u \in Workers, CloseBreaker(u) PROVE Budgeted'
    BY <1>types, <1>inv, <1>quiet, <1>CloseBreaker DEF CloseBreaker, Frugal
  <1>CloseBreakerFails. ASSUME NEW u \in Workers, CloseBreakerFails(u) PROVE Budgeted'
    BY <1>types, <1>inv, <1>quiet, <1>CloseBreakerFails DEF CloseBreakerFails, Frugal
  <1>MarkFailed. ASSUME NEW u \in Workers, MarkFailed(u) PROVE Budgeted'
    BY <1>types, <1>inv, <1>quiet, <1>MarkFailed DEF MarkFailed, Frugal
  <1>MarkFailedFails. ASSUME NEW u \in Workers, MarkFailedFails(u) PROVE Budgeted'
    BY <1>types, <1>inv, <1>quiet, <1>MarkFailedFails DEF MarkFailedFails, Frugal
  <1>ReadBreaker. ASSUME NEW u \in Workers, ReadBreaker(u) PROVE Budgeted'
    BY <1>types, <1>inv, <1>quiet, <1>ReadBreaker DEF ReadBreaker, TypeOK, Types, Breaker, BreakerState, Frugal
  <1>CountFailures. ASSUME NEW u \in Workers, CountFailures(u) PROVE Budgeted'
    BY <1>types, <1>inv, <1>quiet, <1>CountFailures DEF CountFailures, Frugal
  <1>OpenBreaker. ASSUME NEW u \in Workers, OpenBreaker(u) PROVE Budgeted'
    BY <1>types, <1>inv, <1>quiet, <1>OpenBreaker DEF OpenBreaker, Frugal
  <1>EvaluationFails. ASSUME NEW u \in Workers, EvaluationFails(u) PROVE Budgeted'
    BY <1>types, <1>inv, <1>quiet, <1>EvaluationFails DEF EvaluationFails, Frugal
  <1>Finally. ASSUME NEW u \in Workers, Finally(u) PROVE Budgeted'
    BY <1>types, <1>inv, <1>quiet, <1>Finally DEF Finally, Frugal
  <1>Die. ASSUME NEW u \in Workers, Die(u) PROVE Budgeted'
    BY <1>types, <1>inv, <1>quiet, <1>Die DEF Die, Frugal
  <1>stutter. ASSUME UNCHANGED vars PROVE Budgeted'
    BY <1>inv, <1>quiet, <1>stutter DEF vars, Frugal
  <1> QED
    BY <1>Create, <1>Push, <1>WindowSlides, <1>PersonReads, <1>PersonWrites, <1>Pop, <1>ReadGate, <1>Block,
       <1>Claim, <1>ClaimFails, <1>Refetch, <1>RefetchFails, <1>StepSucceeds, <1>StepRetries, <1>RetryNotSaved,
       <1>StepGivesUp, <1>StepsNotLoaded, <1>Succeed, <1>SucceedFails, <1>CloseBreaker, <1>CloseBreakerFails,
       <1>MarkFailed, <1>MarkFailedFails, <1>ReadBreaker, <1>CountFailures, <1>OpenBreaker, <1>EvaluationFails,
       <1>Finally, <1>Die, <1>stutter
       DEF Next, WorkerStep, WorkerFault

\* The retries recorded in a row are never more than its steps allow, for any number
\* of steps, any retries, and however often the run is delivered.
THEOREM RetryBudgetAlways == Spec => []RetryBudget
  <1>1. Init => Budgeted
    <2> SUFFICES ASSUME Init PROVE Budgeted
      OBVIOUS
    <2>1. Allowed[Steps] \in Nat /\ Steps \in Nat
      BY StepsType, AllowedSteps
    <2> QED
      BY <2>1 DEF Init, Budgeted, Fresh, Frugal, AtStep, RetryBudget, Steps
  <1>2. Budgeted => RetryBudget
    BY DEF Budgeted
  <1> QED
    BY <1>1, <1>2, InitInv, NextInv, NextBudgeted, PTL DEF Spec
===============================================================================
