---------------------------- MODULE ApprovalProofs ----------------------------
(***************************************************************************)
(* Proofs about Approval for any number of requests and faults.  All the   *)
(* approvals of a recommendation carry one key, so the id sequence moves   *)
(* once at most and the run that can ever be there is run 1; IInv says     *)
(* which request has still to push it.                                     *)
(***************************************************************************)
EXTENDS Approval, FiniteSetTheorems, TLAPS

-----------------------------------------------------------------------------
(* The inductive invariant *)

\* "recommendation-{id}" is the key of every request.
OneKey == \A c, d \in Callers : key[c] \in Keys /\ key[d] = key[c]

\* The row is there from the first INSERT until the pipeline is deleted.
OneRow == /\ next \in {1, 2}
          /\ rows # {} <=> next = 2 /\ pipeline
          /\ \A row \in rows : row.id = 1 /\ \A c \in Callers : row.key = key[c]
          /\ \A p, q \in rows : p = q

\* The request that created the run, from its INSERT on.
Creator(c) == at[c] \in {"refresh", "created"} \/ enqueue[c] # NoRun

\* What a creator holds, at each of its labels.
HoldsWell(c) ==
    /\ at[c] \in {"refresh", "created"} => run[c] = 1
    /\ at[c] = "push" => enqueue[c] = 1
    /\ enqueue[c] \in {1, NoRun}
    /\ enqueue[c] # NoRun => at[c] \in {"save", "reload", "push", "answered", "gone"}

Creation == /\ \A c \in Callers : HoldsWell(c)
            /\ \A c \in Callers : Creator(c) => next = 2
            /\ \A c, d \in Callers : Creator(c) /\ Creator(d) => c = d

\* A run is started for a request that approves.
Approving == \A c \in Callers : at[c] \in InService \cup Outcome \/ enqueue[c] # NoRun => Applies(c)

\* The creator has the push before it.
InFlight(c) == Creator(c) /\ at[c] \notin {"answered", "gone"}

\* Without a fault the run is pushed once its creator is through, not before.
PushedOnce ==
    faults = 0 =>
        /\ \A id \in Ids : pushed[id] <= 1
        /\ \A id \in Ids : next = 1 \/ (\E c \in Callers : InFlight(c)) => pushed[id] = 0

\* Somebody approved and was told of an error, or will be, or died.
Warned(c) == Applies(c) /\ (at[c] \in {"dberror", "gone"} \/ (at[c] = "answered" /\ answer[c] = 500))

\* The run is on the list, or its creator has still to push it, or somebody was warned.
Accounted == rows # {} => \/ pushed[1] >= 1
                          \/ \E c \in Callers : InFlight(c) \/ Warned(c)

\* A retry is applied by those who have its run, and they have it from the table.
AppliedHasRun ==
    action = "retry" /\ pipeline =>
        /\ status = "applied" => rows # {}
        /\ \A c \in Callers :
               at[c] \in {"created", "replayed"} \/ (at[c] = "save" /\ Applies(c)) => rows # {}

IInv == TypeOK /\ OneKey /\ OneRow /\ Creation /\ Approving /\ PushedOnce /\ Accounted /\ AppliedHasRun

USE DEF Goto, Fault, Answer, serviceVars, put, vars, Applies

-----------------------------------------------------------------------------
(* Type correctness *)

\* The requests are finitely many; if there is one, an id can be handed out.
LEMMA CallersCount ==
    /\ MaxRuns \in Nat
    /\ Callers # {} => 1 <= MaxRuns
  BY CreateRunAssumption, FS_CardinalityType, FS_EmptySet DEF MaxRuns

\* The first id is an id as soon as there is a request.
LEMMA FirstId == ASSUME NEW c \in Callers PROVE 1 \in Ids /\ 2 \in 1..MaxRuns + 1 /\ 1 # NoRun
  BY CallersCount, CreateRunAssumption DEF Ids

\* A caller's new label is a label.
LEMMA Relabelled ==
    ASSUME TypeOK, NEW c \in Callers, NEW l \in InService \cup Outcome \cup RouteLabel, Goto(c, l)
    PROVE  at' \in [Callers -> InService \cup Outcome \cup RouteLabel]
  BY DEF TypeOK, ServiceTypeOK

\* A push leaves counters.
LEMMA PushType ==
    ASSUME TypeOK, NEW id, NEW n \in Nat, Push(id, n)
    PROVE  pushed' \in [Ids -> Nat]
  <1>1. pushed \in [Ids -> Nat]
    BY DEF TypeOK
  <1>2. ASSUME NEW i \in Ids PROVE pushed'[i] \in Nat
    <2>1. CASE i = id
      BY <1>1, <2>1 DEF Push
    <2>2. CASE i # id
      BY <1>1, <2>2 DEF Push
    <2> QED
      BY <2>1, <2>2
  <1> QED
    BY <1>1, <1>2 DEF Push

\* The row a request has a claim to is the one row there is.
LEMMA OneKeyRow ==
    ASSUME TypeOK, OneKey, OneRow, NEW c \in Callers
    PROVE  /\ SameKey(c) = rows
           /\ key[c] # NoKey
  <1>1. key[c] \in Keys /\ key[c] # NoKey
    BY CreateRunAssumption DEF OneKey
  <1> QED
    BY <1>1 DEF SameKey, OneRow

\* An INSERT that is accepted is the first one.
LEMMA FirstInsert ==
    ASSUME TypeOK, OneKey, OneRow, NEW c \in Callers, pipeline, SameKey(c) = {}
    PROVE  next = 1 /\ rows = {}
  BY OneKeyRow DEF OneRow

\* Every step leaves each variable in its set.
LEMMA NextTypes ==
    ASSUME TypeOK, OneKey, OneRow, [Next]_vars
    PROVE  TypeOK'
  <1>types. TypeOK
    OBVIOUS
  <1>bound. MaxFaults \in Nat
    BY CreateRunAssumption
  <1>CheckPipeline. ASSUME NEW c \in Callers, CheckPipeline(c), UNCHANGED <<put, status, scheduled, pushed>>
                    PROVE  TypeOK'
    BY <1>CheckPipeline DEF CheckPipeline, TypeOK, ServiceTypeOK, InService, Outcome
  <1>Lookup. ASSUME NEW c \in Callers, Lookup(c), UNCHANGED <<put, status, scheduled, pushed>>
             PROVE  TypeOK'
    <2>1. at' \in [Callers -> InService \cup Outcome \cup RouteLabel]
      BY <1>Lookup, Relabelled DEF Lookup, InService, Outcome, RouteLabel, HandOut
    <2>2. run' \in [Callers -> Ids \cup {NoRun}]
      BY <1>Lookup, <1>types DEF Lookup, HandOut, SameKey, Row, TypeOK, ServiceTypeOK
    <2> QED
      BY <1>Lookup, <2>1, <2>2, <1>types DEF Lookup, TypeOK, ServiceTypeOK
  <1>Insert. ASSUME NEW c \in Callers, Insert(c), UNCHANGED <<put, status, scheduled, pushed>>
             PROVE  TypeOK'
    <2>1. CASE pipeline /\ SameKey(c) = {}
      <3>1. AddRow(c) /\ UNCHANGED <<pipeline, key, faults>>
        BY <1>Insert, <2>1 DEF Insert
      <3>2. next = 1 /\ 1 \in Ids /\ 2 \in 1..MaxRuns + 1
        BY <2>1, FirstInsert, FirstId
      <3>3. [id |-> 1, key |-> key[c]] \in Row
        BY <3>2, <1>types DEF Row, TypeOK, ServiceTypeOK
      <3>4. at' \in [Callers -> InService \cup Outcome \cup RouteLabel]
        BY <3>1, Relabelled DEF AddRow, InService
      <3>5. next' = 2
        BY <3>1, <3>2 DEF AddRow
      <3> QED
        BY <1>Insert, <3>1, <3>2, <3>3, <3>4, <3>5, <1>types DEF AddRow, TypeOK, ServiceTypeOK
    <2>2. CASE ~(pipeline /\ SameKey(c) = {})
      BY <1>Insert, <2>2, <1>types DEF Insert, TypeOK, ServiceTypeOK, InService, Outcome
    <2> QED
      BY <2>1, <2>2
  <1>Refresh. ASSUME NEW c \in Callers, Refresh(c), UNCHANGED <<put, status, scheduled, pushed>>
              PROVE  TypeOK'
    BY <1>Refresh DEF Refresh, TypeOK, ServiceTypeOK, Outcome
  <1>Reread. ASSUME NEW c \in Callers, Reread(c), UNCHANGED <<put, status, scheduled, pushed>>
             PROVE  TypeOK'
    <2>1. at' \in [Callers -> InService \cup Outcome \cup RouteLabel]
      BY <1>Reread, Relabelled DEF Reread, InService, Outcome, RouteLabel, HandOut
    <2>2. run' \in [Callers -> Ids \cup {NoRun}]
      BY <1>Reread, <1>types DEF Reread, HandOut, SameKey, Row, TypeOK, ServiceTypeOK
    <2> QED
      BY <1>Reread, <2>1, <2>2, <1>types DEF Reread, TypeOK, ServiceTypeOK
  <1>DatabaseFails. ASSUME NEW c \in Callers, DatabaseFails(c), UNCHANGED <<put, status, scheduled, pushed>>
                    PROVE  TypeOK'
    BY <1>DatabaseFails, <1>bound DEF DatabaseFails, TypeOK, ServiceTypeOK, Outcome
  <1>Read. ASSUME NEW c \in Callers, Read(c)
           PROVE  TypeOK'
    <2>1. at' \in [Callers -> InService \cup Outcome \cup RouteLabel]
      BY <1>Read, Relabelled DEF Read, InService, Outcome, RouteLabel, Act
    <2>2. answer' \in [Callers -> {0, 200, 400, 404, 409, 500}]
      BY <1>Read, <1>types DEF Read, TypeOK
    <2> QED
      BY <1>Read, <2>1, <2>2, <1>types DEF Read, TypeOK, ServiceTypeOK
  <1>RunStarted. ASSUME NEW c \in Callers, RunStarted(c)
                 PROVE  TypeOK'
    <2>1. at' \in [Callers -> InService \cup Outcome \cup RouteLabel]
      BY <1>RunStarted, Relabelled DEF RunStarted, InService, Outcome, RouteLabel
    <2>2. enqueue' \in [Callers -> Ids \cup {NoRun}]
      BY <1>RunStarted, <1>types DEF RunStarted, TypeOK, ServiceTypeOK
    <2> QED
      BY <1>RunStarted, <2>1, <2>2, <1>types DEF RunStarted, TypeOK, ServiceTypeOK
  <1>RunRefused. ASSUME NEW c \in Callers, RunRefused(c)
                 PROVE  TypeOK'
    <2>1. at' \in [Callers -> InService \cup Outcome \cup RouteLabel]
      BY <1>RunRefused, Relabelled DEF RunRefused, InService, Outcome, RouteLabel
    <2>2. answer' \in [Callers -> {0, 200, 400, 404, 409, 500}]
      BY <1>RunRefused, <1>types DEF RunRefused, TypeOK
    <2> QED
      BY <1>RunRefused, <2>1, <2>2, <1>types, <1>bound DEF RunRefused, TypeOK, ServiceTypeOK
  <1>Save. ASSUME NEW c \in Callers, Save(c)
           PROVE  TypeOK'
    <2>1. at' \in [Callers -> InService \cup Outcome \cup RouteLabel]
      BY <1>Save, Relabelled DEF Save, InService, Outcome, RouteLabel
    <2>2. /\ answer' \in [Callers -> {0, 200, 400, 404, 409, 500}]
          /\ status' \in Status
      BY <1>Save, <1>types DEF Save, TypeOK
    <2>3. scheduled' \in BOOLEAN
      BY <1>Save DEF Save
    <2> QED
      BY <1>Save, <2>1, <2>2, <2>3, <1>types DEF Save, TypeOK, ServiceTypeOK
  <1>Reload. ASSUME NEW c \in Callers, Reload(c)
             PROVE  TypeOK'
    <2>1. at' \in [Callers -> InService \cup Outcome \cup RouteLabel]
      BY <1>Reload, Relabelled DEF Reload, InService, Outcome, RouteLabel
    <2>2. answer' \in [Callers -> {0, 200, 400, 404, 409, 500}]
      BY <1>Reload, <1>types DEF Reload, TypeOK
    <2> QED
      BY <1>Reload, <2>1, <2>2, <1>types DEF Reload, TypeOK, ServiceTypeOK
  <1>DecisionFails. ASSUME NEW c \in Callers, DecisionFails(c)
                    PROVE  TypeOK'
    <2>1. at' \in [Callers -> InService \cup Outcome \cup RouteLabel]
      BY <1>DecisionFails, Relabelled DEF DecisionFails, InService, Outcome, RouteLabel
    <2>2. answer' \in [Callers -> {0, 200, 400, 404, 409, 500}]
      BY <1>DecisionFails, <1>types DEF DecisionFails, TypeOK
    <2> QED
      BY <1>DecisionFails, <2>1, <2>2, <1>types, <1>bound DEF DecisionFails, TypeOK, ServiceTypeOK
  <1>Rpush. ASSUME NEW c \in Callers, Rpush(c)
            PROVE  TypeOK'
    <2>1. at' \in [Callers -> InService \cup Outcome \cup RouteLabel]
      BY <1>Rpush, Relabelled DEF Rpush, InService, Outcome, RouteLabel
    <2>2. \E n \in Nat : Push(enqueue[c], n)
      BY <1>Rpush DEF Rpush
    <2>3. pushed' \in [Ids -> Nat]
      BY <2>2, <1>types, PushType
    <2>4. answer' \in [Callers -> {0, 200, 400, 404, 409, 500}]
      BY <1>Rpush, <1>types DEF Rpush, TypeOK
    <2> QED
      BY <1>Rpush, <2>1, <2>3, <2>4, <1>types, <1>bound DEF Rpush, TypeOK, ServiceTypeOK
  <1>RpushBreaks. ASSUME NEW c \in Callers, RpushBreaks(c)
                  PROVE  TypeOK'
    <2>1. at' \in [Callers -> InService \cup Outcome \cup RouteLabel]
      BY <1>RpushBreaks, Relabelled DEF RpushBreaks, InService, Outcome, RouteLabel
    <2>2. \E n \in Nat : Push(enqueue[c], n)
      BY <1>RpushBreaks DEF RpushBreaks
    <2>3. pushed' \in [Ids -> Nat]
      BY <2>2, <1>types, PushType
    <2>4. answer' \in [Callers -> {0, 200, 400, 404, 409, 500}]
      BY <1>RpushBreaks, <1>types DEF RpushBreaks, TypeOK
    <2> QED
      BY <1>RpushBreaks, <2>1, <2>3, <2>4, <1>types, <1>bound DEF RpushBreaks, TypeOK, ServiceTypeOK
  <1>Die. ASSUME NEW c \in Callers, Die(c)
          PROVE  TypeOK'
    BY <1>Die, <1>bound DEF Die, TypeOK, ServiceTypeOK, RouteLabel
  <1>DeletePipeline. ASSUME DeletePipeline
                     PROVE  TypeOK'
    BY <1>DeletePipeline, <1>types, <1>bound
    DEF DeletePipeline, TypeOK, ServiceTypeOK, InService, Outcome, RouteLabel
  <1>stutter. ASSUME UNCHANGED vars
              PROVE  TypeOK'
    BY <1>stutter DEF TypeOK, ServiceTypeOK
  <1> QED
    BY <1>CheckPipeline, <1>Lookup, <1>Insert, <1>Refresh, <1>Reread, <1>DatabaseFails, <1>Read,
       <1>RunStarted, <1>RunRefused, <1>Save, <1>Reload, <1>DecisionFails, <1>Rpush, <1>RpushBreaks, <1>Die,
       <1>DeletePipeline, <1>stutter DEF Next, Route, StartRun, ServiceStep, Quiet

-----------------------------------------------------------------------------
(* The one row *)

\* The key of a request never changes.
LEMMA NextOneKey ==
    ASSUME OneKey, [Next]_vars
    PROVE  OneKey'
  <1>keys. OneKey
    OBVIOUS
  <1>route. ASSUME NEW c \in Callers, Route(c) \/ Die(c) PROVE key' = key
    BY <1>route
    DEF Route, StartRun, ServiceStep, CheckPipeline, Lookup, Insert, Refresh, Reread, DatabaseFails,
                    Read, RunStarted, RunRefused, Save, Reload, DecisionFails, Rpush, RpushBreaks, Die
  <1>same. key' = key
    BY <1>route DEF Next, DeletePipeline, Quiet
  <1> QED
    BY <1>keys, <1>same DEF OneKey

\* Once there, the row is the only one, and leaves with the pipeline.
LEMMA NextOneRow ==
    ASSUME TypeOK, OneKey, OneRow, [Next]_vars
    PROVE  OneRow'
  <1>CheckPipeline. ASSUME NEW c \in Callers, CheckPipeline(c), UNCHANGED <<put, status, scheduled, pushed>>
                    PROVE  OneRow'
    BY <1>CheckPipeline DEF CheckPipeline, OneRow
  <1>Lookup. ASSUME NEW c \in Callers, Lookup(c), UNCHANGED <<put, status, scheduled, pushed>>
             PROVE  OneRow'
    BY <1>Lookup DEF Lookup, HandOut, SameKey, OneRow
  <1>Insert. ASSUME NEW c \in Callers, Insert(c), UNCHANGED <<put, status, scheduled, pushed>>
             PROVE  OneRow'
    <2>1. CASE pipeline /\ SameKey(c) = {}
      <3>1. next = 1 /\ rows = {}
        BY <2>1, FirstInsert
      <3>2. rows' = {[id |-> 1, key |-> key[c]]} /\ next' = 2 /\ pipeline' /\ key' = key
        BY <1>Insert, <2>1, <3>1 DEF Insert, AddRow
      <3> QED
        BY <3>2 DEF OneRow, OneKey
    <2>2. CASE ~(pipeline /\ SameKey(c) = {})
      BY <1>Insert, <2>2 DEF Insert, OneRow
    <2> QED
      BY <2>1, <2>2
  <1>Refresh. ASSUME NEW c \in Callers, Refresh(c), UNCHANGED <<put, status, scheduled, pushed>>
              PROVE  OneRow'
    BY <1>Refresh DEF Refresh, OneRow
  <1>Reread. ASSUME NEW c \in Callers, Reread(c), UNCHANGED <<put, status, scheduled, pushed>>
             PROVE  OneRow'
    BY <1>Reread DEF Reread, HandOut, SameKey, OneRow
  <1>DatabaseFails. ASSUME NEW c \in Callers, DatabaseFails(c), UNCHANGED <<put, status, scheduled, pushed>>
                    PROVE  OneRow'
    BY <1>DatabaseFails DEF DatabaseFails, OneRow
  <1>Read. ASSUME NEW c \in Callers, Read(c)
           PROVE  OneRow'
    BY <1>Read DEF Read, Act, OneRow
  <1>RunStarted. ASSUME NEW c \in Callers, RunStarted(c)
                 PROVE  OneRow'
    BY <1>RunStarted DEF RunStarted, OneRow
  <1>RunRefused. ASSUME NEW c \in Callers, RunRefused(c)
                 PROVE  OneRow'
    BY <1>RunRefused DEF RunRefused, OneRow
  <1>Save. ASSUME NEW c \in Callers, Save(c)
           PROVE  OneRow'
    BY <1>Save DEF Save, OneRow
  <1>Reload. ASSUME NEW c \in Callers, Reload(c)
             PROVE  OneRow'
    BY <1>Reload DEF Reload, OneRow
  <1>DecisionFails. ASSUME NEW c \in Callers, DecisionFails(c)
                    PROVE  OneRow'
    BY <1>DecisionFails DEF DecisionFails, OneRow
  <1>Rpush. ASSUME NEW c \in Callers, Rpush(c)
            PROVE  OneRow'
    BY <1>Rpush DEF Rpush, Push, OneRow
  <1>RpushBreaks. ASSUME NEW c \in Callers, RpushBreaks(c)
                  PROVE  OneRow'
    BY <1>RpushBreaks DEF RpushBreaks, Push, OneRow
  <1>Die. ASSUME NEW c \in Callers, Die(c)
          PROVE  OneRow'
    BY <1>Die DEF Die, OneRow
  <1>DeletePipeline. ASSUME DeletePipeline
                     PROVE  OneRow'
    BY <1>DeletePipeline DEF DeletePipeline, OneRow
  <1>stutter. ASSUME UNCHANGED vars
              PROVE  OneRow'
    BY <1>stutter DEF OneRow
  <1> QED
    BY <1>CheckPipeline, <1>Lookup, <1>Insert, <1>Refresh, <1>Reread, <1>DatabaseFails, <1>Read,
       <1>RunStarted, <1>RunRefused, <1>Save, <1>Reload, <1>DecisionFails, <1>Rpush, <1>RpushBreaks, <1>Die,
       <1>DeletePipeline, <1>stutter DEF Next, Route, StartRun, ServiceStep, Quiet

-----------------------------------------------------------------------------
(* Its creator *)

\* Only the first INSERT makes a creator.
LEMMA NextCreation ==
    ASSUME TypeOK, OneKey, OneRow, Creation, [Next]_vars
    PROVE  Creation'
  <1>types. /\ at \in [Callers -> InService \cup Outcome \cup RouteLabel]
            /\ run \in [Callers -> Ids \cup {NoRun}]
            /\ enqueue \in [Callers -> Ids \cup {NoRun}]
    BY DEF TypeOK, ServiceTypeOK
  <1>created. Creation
    OBVIOUS
  <1>CheckPipeline. ASSUME NEW c \in Callers, CheckPipeline(c), UNCHANGED <<put, status, scheduled, pushed>>
                    PROVE  Creation'
    BY <1>CheckPipeline DEF CheckPipeline, Creation, Creator, HoldsWell
  <1>Lookup. ASSUME NEW c \in Callers, Lookup(c), UNCHANGED <<put, status, scheduled, pushed>>
             PROVE  Creation'
    BY <1>Lookup, <1>types DEF Lookup, HandOut, Creation, Creator, HoldsWell
  <1>Insert. ASSUME NEW c \in Callers, Insert(c), UNCHANGED <<put, status, scheduled, pushed>>
             PROVE  Creation'
    <2>1. CASE pipeline /\ SameKey(c) = {}
      <3>1. next = 1 /\ 1 # NoRun
        BY <2>1, FirstInsert, FirstId
      <3>2. \A d \in Callers : ~Creator(d) /\ HoldsWell(d)
        BY <3>1 DEF Creation
      <3>3. /\ at' = [at EXCEPT ![c] = "refresh"]
            /\ run' = [run EXCEPT ![c] = 1]
            /\ next' = 2
            /\ enqueue' = enqueue
        BY <1>Insert, <2>1, <3>1 DEF Insert, AddRow
      <3> QED
        BY <3>2, <3>3, <1>types DEF Creation, Creator, HoldsWell
    <2>2. CASE ~(pipeline /\ SameKey(c) = {})
      BY <1>Insert, <2>2, <1>types, <1>created DEF Insert, Creation, Creator, HoldsWell
    <2> QED
      BY <2>1, <2>2
  <1>Refresh. ASSUME NEW c \in Callers, Refresh(c), UNCHANGED <<put, status, scheduled, pushed>>
              PROVE  Creation'
    BY <1>Refresh, <1>types DEF Refresh, Creation, Creator, HoldsWell
  <1>Reread. ASSUME NEW c \in Callers, Reread(c), UNCHANGED <<put, status, scheduled, pushed>>
             PROVE  Creation'
    BY <1>Reread, <1>types DEF Reread, HandOut, Creation, Creator, HoldsWell
  <1>DatabaseFails. ASSUME NEW c \in Callers, DatabaseFails(c), UNCHANGED <<put, status, scheduled, pushed>>
                    PROVE  Creation'
    BY <1>DatabaseFails, <1>types DEF DatabaseFails, Creation, Creator, HoldsWell, InService
  <1>Read. ASSUME NEW c \in Callers, Read(c)
           PROVE  Creation'
    BY <1>Read, <1>types DEF Read, Act, Creation, Creator, HoldsWell
  <1>RunStarted. ASSUME NEW c \in Callers, RunStarted(c)
                 PROVE  Creation'
    BY <1>RunStarted, <1>types DEF RunStarted, Creation, Creator, HoldsWell
  <1>RunRefused. ASSUME NEW c \in Callers, RunRefused(c)
                 PROVE  Creation'
    BY <1>RunRefused, <1>types DEF RunRefused, Creation, Creator, HoldsWell
  <1>Save. ASSUME NEW c \in Callers, Save(c)
           PROVE  Creation'
    BY <1>Save, <1>types DEF Save, Creation, Creator, HoldsWell
  <1>Reload. ASSUME NEW c \in Callers, Reload(c)
             PROVE  Creation'
    BY <1>Reload, <1>types DEF Reload, Creation, Creator, HoldsWell
  <1>DecisionFails. ASSUME NEW c \in Callers, DecisionFails(c)
                    PROVE  Creation'
    BY <1>DecisionFails DEF DecisionFails, Creation, Creator, HoldsWell
  <1>Rpush. ASSUME NEW c \in Callers, Rpush(c)
            PROVE  Creation'
    BY <1>Rpush DEF Rpush, Creation, Creator, HoldsWell
  <1>RpushBreaks. ASSUME NEW c \in Callers, RpushBreaks(c)
                  PROVE  Creation'
    BY <1>RpushBreaks, <1>types DEF RpushBreaks, Creation, Creator, HoldsWell
  <1>Die. ASSUME NEW c \in Callers, Die(c)
          PROVE  Creation'
    BY <1>Die DEF Die, Creation, Creator, HoldsWell
  <1>DeletePipeline. ASSUME DeletePipeline
                     PROVE  Creation'
    BY <1>DeletePipeline DEF DeletePipeline, Creation, Creator, HoldsWell
  <1>stutter. ASSUME UNCHANGED vars
              PROVE  Creation'
    BY <1>stutter DEF Creation, Creator, HoldsWell
  <1> QED
    BY <1>CheckPipeline, <1>Lookup, <1>Insert, <1>Refresh, <1>Reread, <1>DatabaseFails, <1>Read,
       <1>RunStarted, <1>RunRefused, <1>Save, <1>Reload, <1>DecisionFails, <1>Rpush, <1>RpushBreaks, <1>Die,
       <1>DeletePipeline, <1>stutter DEF Next, Route, StartRun, ServiceStep, Quiet

\* Only a request that approves goes to the service.
LEMMA NextApproving ==
    ASSUME TypeOK, Approving, [Next]_vars
    PROVE  Approving'
  <1>types. /\ at \in [Callers -> InService \cup Outcome \cup RouteLabel]
            /\ enqueue \in [Callers -> Ids \cup {NoRun}]
    BY DEF TypeOK, ServiceTypeOK
  <1>now. Approving
    OBVIOUS
  <1>mover. ASSUME NEW c \in Callers, decision' = decision,
                   at'[c] \in InService \cup Outcome \/ enqueue'[c] # NoRun => Applies(c),
                   \A d \in Callers : d # c => at'[d] = at[d] /\ enqueue'[d] = enqueue[d]
            PROVE  Approving'
    BY <1>mover, <1>now DEF Approving
  <1>service. ASSUME NEW c \in Callers, StartRun(c) PROVE Approving'
    <2>1. at[c] \in InService
      BY <1>service
      DEF StartRun, ServiceStep, CheckPipeline, Lookup, Insert, Refresh, Reread, DatabaseFails, InService
    <2>2. Applies(c)
      BY <2>1, <1>now DEF Approving
    <2>3. decision' = decision /\ enqueue' = enqueue /\ \E l : at' = [at EXCEPT ![c] = l]
      BY <1>service
      DEF StartRun, ServiceStep, CheckPipeline, Lookup, Insert, Refresh, Reread, DatabaseFails, HandOut, AddRow
    <2> QED
      BY <2>2, <2>3, <1>mover, <1>types
  <1>read. ASSUME NEW c \in Callers, Read(c) PROVE Approving'
    <2>1. Applies(c) \/ at'[c] \in {"save", "answered"}
      BY <1>read, <1>types DEF Read, Act
    <2>2. decision' = decision /\ enqueue' = enqueue /\ \A d \in Callers : d # c => at'[d] = at[d]
      BY <1>read, <1>types DEF Read
    <2>3. enqueue[c] # NoRun => Applies(c)
      BY <1>now DEF Approving
    <2> QED
      BY <2>1, <2>2, <2>3, <1>mover DEF InService, Outcome
  <1>started. ASSUME NEW c \in Callers, RunStarted(c) PROVE Approving'
    <2>1. Applies(c)
      BY <1>started, <1>now DEF RunStarted, Approving, Outcome
    <2> QED
      BY <1>started, <2>1, <1>mover, <1>types DEF RunStarted
  \* From there on it only leaves.
  <1>rest. ASSUME NEW c \in Callers, RunRefused(c) \/ Save(c) \/ Reload(c) \/ DecisionFails(c) \/ Rpush(c)
                                     \/ RpushBreaks(c) \/ Die(c)
           PROVE  Approving'
    <2>1. at'[c] \in {"reload", "push", "answered", "gone"}
      BY <1>rest, <1>types DEF RunRefused, Save, Reload, DecisionFails, Rpush, RpushBreaks, Die
    <2>2. decision' = decision /\ enqueue' = enqueue /\ \A d \in Callers : d # c => at'[d] = at[d]
      BY <1>rest, <1>types DEF RunRefused, Save, Reload, DecisionFails, Rpush, RpushBreaks, Die
    <2>3. enqueue[c] # NoRun => Applies(c)
      BY <1>now DEF Approving
    <2> QED
      BY <2>1, <2>2, <2>3, <1>mover DEF InService, Outcome
  <1>still. ASSUME at' = at, enqueue' = enqueue, decision' = decision PROVE Approving'
    BY <1>still, <1>now DEF Approving
  <1> QED
    BY <1>service, <1>read, <1>started, <1>rest, <1>still DEF Next, Route, Quiet, DeletePipeline

-----------------------------------------------------------------------------
(* Its push *)

\* Without a fault the creator pushes the run, and nobody else does.
LEMMA NextPushedOnce ==
    ASSUME TypeOK, OneKey, OneRow, Creation, PushedOnce, [Next]_vars
    PROVE  PushedOnce'
  <1>types. /\ at \in [Callers -> InService \cup Outcome \cup RouteLabel]
            /\ enqueue \in [Callers -> Ids \cup {NoRun}]
            /\ pushed \in [Ids -> Nat]
            /\ faults \in Nat
    BY CreateRunAssumption DEF TypeOK, ServiceTypeOK
  <1>created. Creation
    OBVIOUS
  <1>queued. PushedOnce
    OBVIOUS
  <1>CheckPipeline. ASSUME NEW c \in Callers, CheckPipeline(c), UNCHANGED <<put, status, scheduled, pushed>>
                    PROVE  PushedOnce'
    BY <1>CheckPipeline DEF CheckPipeline, PushedOnce, InFlight, Creator
  <1>Lookup. ASSUME NEW c \in Callers, Lookup(c), UNCHANGED <<put, status, scheduled, pushed>>
             PROVE  PushedOnce'
    BY <1>Lookup, <1>types DEF Lookup, HandOut, PushedOnce, InFlight, Creator
  <1>Insert. ASSUME NEW c \in Callers, Insert(c), UNCHANGED <<put, status, scheduled, pushed>>
             PROVE  PushedOnce'
    <2>1. CASE pipeline /\ SameKey(c) = {}
      <3>1. next = 1 /\ \A d \in Callers : d # c => ~Creator(d)
        BY <2>1, FirstInsert, <1>created DEF Creation
      <3>2. at' = [at EXCEPT ![c] = "refresh"] /\ next' = 2 /\ UNCHANGED <<faults, pushed, enqueue>>
        BY <1>Insert, <2>1, <3>1 DEF Insert, AddRow
      <3>3. InFlight(c)'
        BY <3>2, <1>types DEF InFlight, Creator
      <3>4. \A id \in Ids : faults = 0 => pushed[id] = 0
        BY <3>1, <1>queued DEF PushedOnce
      <3>5. faults' = faults /\ pushed' = pushed
        BY <3>2
      <3>6. \A id \in Ids : faults' = 0 => pushed'[id] = 0
        BY <3>4, <3>5
      <3> QED
        BY <3>3, <3>6, <3>2 DEF PushedOnce
    <2>2. CASE ~(pipeline /\ SameKey(c) = {})
      BY <1>Insert, <2>2, <1>types, <1>queued DEF Insert, PushedOnce, InFlight, Creator
    <2> QED
      BY <2>1, <2>2
  <1>Refresh. ASSUME NEW c \in Callers, Refresh(c), UNCHANGED <<put, status, scheduled, pushed>>
              PROVE  PushedOnce'
    BY <1>Refresh, <1>types DEF Refresh, PushedOnce, InFlight, Creator, Creation, HoldsWell, OneRow
  <1>Reread. ASSUME NEW c \in Callers, Reread(c), UNCHANGED <<put, status, scheduled, pushed>>
             PROVE  PushedOnce'
    BY <1>Reread, <1>types DEF Reread, HandOut, PushedOnce, InFlight, Creator
  <1>DatabaseFails. ASSUME NEW c \in Callers, DatabaseFails(c), UNCHANGED <<put, status, scheduled, pushed>>
                    PROVE  PushedOnce'
    BY <1>DatabaseFails, <1>types DEF DatabaseFails, PushedOnce
  <1>Read. ASSUME NEW c \in Callers, Read(c)
           PROVE  PushedOnce'
    BY <1>Read, <1>types DEF Read, Act, PushedOnce, InFlight, Creator, Creation, HoldsWell
  <1>RunStarted. ASSUME NEW c \in Callers, RunStarted(c)
                 PROVE  PushedOnce'
    <2>1. at' = [at EXCEPT ![c] = "save"] /\ at[c] \in {"created", "replayed"}
      BY <1>RunStarted DEF RunStarted
    <2>2. enqueue' = [enqueue EXCEPT ![c] = IF at[c] = "created" THEN run[c] ELSE NoRun]
      BY <1>RunStarted DEF RunStarted
    <2>3. InFlight(c)' <=> InFlight(c)
      <3>1. CASE at[c] = "created"
        <4>1. run[c] # NoRun
          BY <3>1, <1>created, FirstId DEF Creation, HoldsWell
        <4> QED
          BY <2>1, <2>2, <3>1, <4>1, <1>types DEF InFlight, Creator
      <3>2. CASE at[c] = "replayed"
        BY <2>1, <2>2, <3>2, <1>types, <1>created DEF InFlight, Creator, Creation, HoldsWell
      <3> QED
        BY <2>1, <3>1, <3>2
    <2>4. \A d \in Callers : InFlight(d)' <=> InFlight(d)
      BY <2>1, <2>2, <2>3, <1>types DEF InFlight, Creator
    <2> QED
      BY <1>RunStarted, <2>4, <1>queued DEF RunStarted, PushedOnce
  <1>RunRefused. ASSUME NEW c \in Callers, RunRefused(c)
                 PROVE  PushedOnce'
    BY <1>RunRefused, <1>types DEF RunRefused, PushedOnce, InFlight, Creator, Creation, HoldsWell
  <1>Save. ASSUME NEW c \in Callers, Save(c)
           PROVE  PushedOnce'
    BY <1>Save, <1>types DEF Save, PushedOnce, InFlight, Creator
  <1>Reload. ASSUME NEW c \in Callers, Reload(c)
             PROVE  PushedOnce'
    BY <1>Reload, <1>types DEF Reload, PushedOnce, InFlight, Creator
  <1>DecisionFails. ASSUME NEW c \in Callers, DecisionFails(c)
                    PROVE  PushedOnce'
    BY <1>DecisionFails, <1>types DEF DecisionFails, PushedOnce, InFlight, Creator, OneRow
  <1>Rpush. ASSUME NEW c \in Callers, Rpush(c)
            PROVE  PushedOnce'
    <2>1. /\ enqueue[c] = 1
          /\ Creator(c) /\ InFlight(c)
          /\ next = 2
      BY <1>Rpush, <1>created, CreateRunAssumption DEF Rpush, Creation, Creator, HoldsWell, InFlight
    <2>2. /\ at' = [at EXCEPT ![c] = "answered"]
          /\ pushed' = [pushed EXCEPT ![1] = @ + 1]
          /\ UNCHANGED <<faults, next, enqueue, rows>>
      BY <1>Rpush, <2>1 DEF Rpush, Push
    <2>3. \A d \in Callers : ~InFlight(d)'
      BY <2>1, <2>2, <1>types, <1>created DEF Creation, InFlight, Creator
    <2>4. \A id \in Ids : faults = 0 => pushed[id] = 0
      BY <2>1, <1>queued DEF PushedOnce
    <2>5. \A id \in Ids : faults = 0 => pushed'[id] <= 1
      BY <2>2, <2>4, <1>types
    <2>6. faults' = faults /\ next' = 2
      BY <2>1, <2>2
    <2> QED
      BY <2>3, <2>5, <2>6 DEF PushedOnce
  <1>RpushBreaks. ASSUME NEW c \in Callers, RpushBreaks(c)
                  PROVE  PushedOnce'
    BY <1>RpushBreaks, <1>types DEF RpushBreaks, PushedOnce
  <1>Die. ASSUME NEW c \in Callers, Die(c)
          PROVE  PushedOnce'
    BY <1>Die, <1>types DEF Die, PushedOnce
  <1>DeletePipeline. ASSUME DeletePipeline
                     PROVE  PushedOnce'
    BY <1>DeletePipeline DEF DeletePipeline, PushedOnce, InFlight, Creator
  <1>stutter. ASSUME UNCHANGED vars
              PROVE  PushedOnce'
    BY <1>stutter DEF PushedOnce, InFlight, Creator
  <1> QED
    BY <1>CheckPipeline, <1>Lookup, <1>Insert, <1>Refresh, <1>Reread, <1>DatabaseFails, <1>Read,
       <1>RunStarted, <1>RunRefused, <1>Save, <1>Reload, <1>DecisionFails, <1>Rpush, <1>RpushBreaks, <1>Die,
       <1>DeletePipeline, <1>stutter DEF Next, Route, StartRun, ServiceStep, Quiet

\* Who had the push before him does it, or gets an error, or dies.
LEMMA NextAccounted ==
    ASSUME TypeOK, OneKey, OneRow, Creation, Approving, Accounted, [Next]_vars
    PROVE  Accounted'
  <1>types. /\ at \in [Callers -> InService \cup Outcome \cup RouteLabel]
            /\ enqueue \in [Callers -> Ids \cup {NoRun}]
            /\ answer \in [Callers -> {0, 200, 400, 404, 409, 500}]
            /\ pushed \in [Ids -> Nat]
            /\ run \in [Callers -> Ids \cup {NoRun}]
    BY DEF TypeOK, ServiceTypeOK
  <1>created. Creation
    OBVIOUS
  <1>accounted. Accounted
    OBVIOUS
  \* It is enough to follow the request that moves.
  <1>mover. ASSUME NEW c \in Callers, rows' = rows, decision' = decision, pushed' = pushed,
                   InFlight(c) \/ Warned(c) => InFlight(c)' \/ Warned(c)',
                   \A d \in Callers : d # c => at'[d] = at[d] /\ enqueue'[d] = enqueue[d] /\ answer'[d] = answer[d]
            PROVE  Accounted'
    <2>1. \A d \in Callers : d # c => (InFlight(d)' <=> InFlight(d)) /\ (Warned(d)' <=> Warned(d))
      BY <1>mover DEF InFlight, Warned, Creator
    <2> QED
      BY <1>mover, <2>1, <1>accounted DEF Accounted
  <1>CheckPipeline. ASSUME NEW c \in Callers, CheckPipeline(c), UNCHANGED <<put, status, scheduled, pushed>>
                    PROVE  Accounted'
    <2>1. InFlight(c) \/ Warned(c) => InFlight(c)' \/ Warned(c)'
      BY <1>CheckPipeline, <1>types DEF CheckPipeline, InFlight, Warned, Creator
    <2> QED
      BY <1>CheckPipeline, <2>1, <1>mover, <1>types DEF CheckPipeline
  <1>Lookup. ASSUME NEW c \in Callers, Lookup(c), UNCHANGED <<put, status, scheduled, pushed>>
             PROVE  Accounted'
    <2>1. InFlight(c) \/ Warned(c) => InFlight(c)' \/ Warned(c)'
      BY <1>Lookup, <1>types DEF Lookup, HandOut, InFlight, Warned, Creator
    <2> QED
      BY <1>Lookup, <2>1, <1>mover, <1>types DEF Lookup, HandOut
  <1>Insert. ASSUME NEW c \in Callers, Insert(c), UNCHANGED <<put, status, scheduled, pushed>>
             PROVE  Accounted'
    <2>1. CASE pipeline /\ SameKey(c) = {}
      <3>1. at' = [at EXCEPT ![c] = "refresh"]
        BY <1>Insert, <2>1 DEF Insert, AddRow
      <3>2. InFlight(c)'
        BY <3>1, <1>types DEF InFlight, Creator
      <3> QED
        BY <3>2 DEF Accounted
    <2>2. CASE ~(pipeline /\ SameKey(c) = {})
      <3>1. InFlight(c) \/ Warned(c) => InFlight(c)' \/ Warned(c)'
        BY <1>Insert, <2>2, <1>types DEF Insert, InFlight, Warned, Creator
      <3> QED
        BY <1>Insert, <2>2, <3>1, <1>mover, <1>types DEF Insert
    <2> QED
      BY <2>1, <2>2
  <1>Refresh. ASSUME NEW c \in Callers, Refresh(c), UNCHANGED <<put, status, scheduled, pushed>>
              PROVE  Accounted'
    <2>1. Applies(c)
      BY <1>Refresh DEF Refresh, Approving, InService
    <2>2. InFlight(c) \/ Warned(c) => InFlight(c)' \/ Warned(c)'
      BY <1>Refresh, <2>1, <1>types DEF Refresh, InFlight, Warned, Creator
    <2> QED
      BY <1>Refresh, <2>2, <1>mover, <1>types DEF Refresh
  <1>Reread. ASSUME NEW c \in Callers, Reread(c), UNCHANGED <<put, status, scheduled, pushed>>
             PROVE  Accounted'
    <2>1. InFlight(c) \/ Warned(c) => InFlight(c)' \/ Warned(c)'
      BY <1>Reread, <1>types DEF Reread, HandOut, InFlight, Warned, Creator
    <2> QED
      BY <1>Reread, <2>1, <1>mover, <1>types DEF Reread, HandOut
  <1>DatabaseFails. ASSUME NEW c \in Callers, DatabaseFails(c), UNCHANGED <<put, status, scheduled, pushed>>
                    PROVE  Accounted'
    <2>1. Applies(c)
      BY <1>DatabaseFails DEF DatabaseFails, Approving
    <2>2. Warned(c)'
      BY <1>DatabaseFails, <2>1, <1>types DEF DatabaseFails, Warned
    <2> QED
      BY <1>DatabaseFails, <2>2, <1>mover, <1>types DEF DatabaseFails
  <1>Read. ASSUME NEW c \in Callers, Read(c)
           PROVE  Accounted'
    <2>1. ~InFlight(c) /\ ~Warned(c)
      BY <1>Read, <1>created DEF Read, Creation, HoldsWell, InFlight, Warned, Creator
    <2> QED
      BY <1>Read, <2>1, <1>mover, <1>types DEF Read
  <1>RunStarted. ASSUME NEW c \in Callers, RunStarted(c)
                 PROVE  Accounted'
    <2>1. at' = [at EXCEPT ![c] = "save"] /\ at[c] \in {"created", "replayed"}
      BY <1>RunStarted DEF RunStarted
    <2>2. enqueue' = [enqueue EXCEPT ![c] = IF at[c] = "created" THEN run[c] ELSE NoRun]
      BY <1>RunStarted DEF RunStarted
    <2>3. InFlight(c) \/ Warned(c) => InFlight(c)'
      <3>1. CASE at[c] = "created"
        <4>1. run[c] # NoRun
          BY <3>1, <1>created, FirstId DEF Creation, HoldsWell
        <4> QED
          BY <2>1, <2>2, <3>1, <4>1, <1>types DEF InFlight, Creator
      <3>2. CASE at[c] = "replayed"
        BY <3>2, <1>created DEF InFlight, Warned, Creator, Creation, HoldsWell
      <3> QED
        BY <2>1, <3>1, <3>2
    <2> QED
      BY <1>RunStarted, <2>3, <1>mover, <1>types DEF RunStarted
  <1>RunRefused. ASSUME NEW c \in Callers, RunRefused(c)
                 PROVE  Accounted'
    <2>1. ~InFlight(c)
      BY <1>RunRefused, <1>created DEF RunRefused, Creation, HoldsWell, InFlight, Creator
    <2>2. Warned(c) => Warned(c)'
      BY <1>RunRefused, <1>types DEF RunRefused, Warned
    <2> QED
      BY <1>RunRefused, <2>1, <2>2, <1>mover, <1>types DEF RunRefused
  <1>Save. ASSUME NEW c \in Callers, Save(c)
           PROVE  Accounted'
    <2>1. InFlight(c) \/ Warned(c) => InFlight(c)' \/ Warned(c)'
      BY <1>Save, <1>types DEF Save, InFlight, Warned, Creator
    <2> QED
      BY <1>Save, <2>1, <1>mover, <1>types DEF Save
  <1>Reload. ASSUME NEW c \in Callers, Reload(c)
             PROVE  Accounted'
    <2>1. InFlight(c) \/ Warned(c) => InFlight(c)' \/ Warned(c)'
      BY <1>Reload, <1>types DEF Reload, InFlight, Warned, Creator
    <2> QED
      BY <1>Reload, <2>1, <1>mover, <1>types DEF Reload
  <1>DecisionFails. ASSUME NEW c \in Callers, DecisionFails(c)
                    PROVE  Accounted'
    <2>1. InFlight(c) => Applies(c)
      BY <1>DecisionFails DEF DecisionFails, Approving, InFlight, Creator
    <2>2. InFlight(c) \/ Warned(c) => Warned(c)'
      BY <1>DecisionFails, <2>1, <1>types DEF DecisionFails, Warned
    <2> QED
      BY <1>DecisionFails, <2>2, <1>mover, <1>types DEF DecisionFails
  <1>Rpush. ASSUME NEW c \in Callers, Rpush(c)
            PROVE  Accounted'
    <2>1. enqueue[c] = 1 /\ 1 \in Ids
      BY <1>Rpush, <1>created, FirstId DEF Rpush, Creation, HoldsWell
    <2>2. pushed'[1] >= 1
      BY <1>Rpush, <2>1, <1>types DEF Rpush, Push
    <2> QED
      BY <2>2 DEF Accounted
  <1>RpushBreaks. ASSUME NEW c \in Callers, RpushBreaks(c)
                  PROVE  Accounted'
    <2>1. enqueue[c] = 1 /\ 1 \in Ids /\ Applies(c)
      BY <1>RpushBreaks, <1>created, FirstId, CreateRunAssumption DEF RpushBreaks, Creation, HoldsWell, Approving
    <2>2. CASE Push(enqueue[c], 2)
      <3>1. pushed'[1] >= 1
        BY <2>1, <2>2, <1>types DEF Push
      <3> QED
        BY <3>1 DEF Accounted
    <2>3. CASE Answer(c, 500)
      <3>1. Warned(c)'
        BY <1>RpushBreaks, <2>1, <2>3, <1>types DEF RpushBreaks, Warned
      <3> QED
        BY <3>1 DEF Accounted
    <2> QED
      BY <1>RpushBreaks, <2>2, <2>3 DEF RpushBreaks
  <1>Die. ASSUME NEW c \in Callers, Die(c)
          PROVE  Accounted'
    <2>1. InFlight(c) => Applies(c)
      BY DEF Approving, InFlight, Creator, InService, Outcome
    <2>2. InFlight(c) \/ Warned(c) => Warned(c)'
      BY <1>Die, <2>1, <1>types DEF Die, Warned
    <2> QED
      BY <1>Die, <2>2, <1>mover, <1>types DEF Die
  <1>DeletePipeline. ASSUME DeletePipeline
                     PROVE  Accounted'
    BY <1>DeletePipeline DEF DeletePipeline, Accounted
  <1>stutter. ASSUME UNCHANGED vars
              PROVE  Accounted'
    BY <1>stutter, <1>accounted DEF Accounted, InFlight, Warned, Creator
  <1> QED
    BY <1>CheckPipeline, <1>Lookup, <1>Insert, <1>Refresh, <1>Reread, <1>DatabaseFails, <1>Read,
       <1>RunStarted, <1>RunRefused, <1>Save, <1>Reload, <1>DecisionFails, <1>Rpush, <1>RpushBreaks, <1>Die,
       <1>DeletePipeline, <1>stutter DEF Next, Route, StartRun, ServiceStep, Quiet

-----------------------------------------------------------------------------
(* The decision *)

\* An approved retry is committed by a request that had its run from the table.
LEMMA NextApplied ==
    ASSUME TypeOK, OneKey, OneRow, AppliedHasRun, [Next]_vars
    PROVE  AppliedHasRun'
  <1>types. at \in [Callers -> InService \cup Outcome \cup RouteLabel]
    BY DEF TypeOK, ServiceTypeOK
  <1>row. \A c \in Callers : SameKey(c) = rows
    BY OneKeyRow
  <1>CheckPipeline. ASSUME NEW c \in Callers, CheckPipeline(c), UNCHANGED <<put, status, scheduled, pushed>>
                    PROVE  AppliedHasRun'
    BY <1>CheckPipeline DEF CheckPipeline, AppliedHasRun
  <1>Lookup. ASSUME NEW c \in Callers, Lookup(c), UNCHANGED <<put, status, scheduled, pushed>>
             PROVE  AppliedHasRun'
    BY <1>Lookup, <1>types DEF Lookup, HandOut, SameKey, AppliedHasRun
  <1>Insert. ASSUME NEW c \in Callers, Insert(c), UNCHANGED <<put, status, scheduled, pushed>>
             PROVE  AppliedHasRun'
    BY <1>Insert DEF Insert, AddRow, SameKey, AppliedHasRun
  <1>Refresh. ASSUME NEW c \in Callers, Refresh(c), UNCHANGED <<put, status, scheduled, pushed>>
              PROVE  AppliedHasRun'
    BY <1>Refresh, <1>types DEF Refresh, AppliedHasRun
  <1>Reread. ASSUME NEW c \in Callers, Reread(c), UNCHANGED <<put, status, scheduled, pushed>>
             PROVE  AppliedHasRun'
    BY <1>Reread, <1>types DEF Reread, HandOut, SameKey, AppliedHasRun
  <1>DatabaseFails. ASSUME NEW c \in Callers, DatabaseFails(c), UNCHANGED <<put, status, scheduled, pushed>>
                    PROVE  AppliedHasRun'
    BY <1>DatabaseFails DEF DatabaseFails, AppliedHasRun
  <1>Read. ASSUME NEW c \in Callers, Read(c)
           PROVE  AppliedHasRun'
    BY <1>Read, <1>types DEF Read, Act, AppliedHasRun
  <1>RunStarted. ASSUME NEW c \in Callers, RunStarted(c)
                 PROVE  AppliedHasRun'
    BY <1>RunStarted DEF RunStarted, AppliedHasRun
  <1>RunRefused. ASSUME NEW c \in Callers, RunRefused(c)
                 PROVE  AppliedHasRun'
    BY <1>RunRefused, <1>types DEF RunRefused, AppliedHasRun
  <1>Save. ASSUME NEW c \in Callers, Save(c)
           PROVE  AppliedHasRun'
    BY <1>Save, <1>types DEF Save, AppliedHasRun
  <1>Reload. ASSUME NEW c \in Callers, Reload(c)
             PROVE  AppliedHasRun'
    BY <1>Reload, <1>types DEF Reload, AppliedHasRun
  <1>DecisionFails. ASSUME NEW c \in Callers, DecisionFails(c)
                    PROVE  AppliedHasRun'
    BY <1>DecisionFails DEF DecisionFails, AppliedHasRun
  <1>Rpush. ASSUME NEW c \in Callers, Rpush(c)
            PROVE  AppliedHasRun'
    BY <1>Rpush DEF Rpush, AppliedHasRun
  <1>RpushBreaks. ASSUME NEW c \in Callers, RpushBreaks(c)
                  PROVE  AppliedHasRun'
    BY <1>RpushBreaks, <1>types DEF RpushBreaks, AppliedHasRun
  <1>Die. ASSUME NEW c \in Callers, Die(c)
          PROVE  AppliedHasRun'
    BY <1>Die DEF Die, AppliedHasRun
  <1>DeletePipeline. ASSUME DeletePipeline
                     PROVE  AppliedHasRun'
    BY <1>DeletePipeline DEF DeletePipeline, AppliedHasRun
  <1>stutter. ASSUME UNCHANGED vars
              PROVE  AppliedHasRun'
    BY <1>stutter DEF AppliedHasRun
  <1> QED
    BY <1>CheckPipeline, <1>Lookup, <1>Insert, <1>Refresh, <1>Reread, <1>DatabaseFails, <1>Read,
       <1>RunStarted, <1>RunRefused, <1>Save, <1>Reload, <1>DecisionFails, <1>Rpush, <1>RpushBreaks, <1>Die,
       <1>DeletePipeline, <1>stutter DEF Next, Route, StartRun, ServiceStep, Quiet

-----------------------------------------------------------------------------
(* The theorems *)

\* The initial states have the invariant.
LEMMA InitIInv == ASSUME Init PROVE IInv
  <1>1. MaxRuns \in Nat /\ 1 \in 1..MaxRuns + 1 /\ 0 \in 0..MaxFaults
    BY CallersCount, CreateRunAssumption
  <1>2. TypeOK
    BY <1>1 DEF Init, ServiceInit, TypeOK, ServiceTypeOK, Status, RouteLabel
  <1>3. OneKey
    BY DEF Init, OneKey
  <1>4. OneRow
    BY DEF Init, ServiceInit, OneRow
  <1>5. Creation /\ Approving
    BY DEF Init, ServiceInit, Creation, Creator, HoldsWell, Approving, InService, Outcome
  <1>6. PushedOnce /\ Accounted
    BY DEF Init, ServiceInit, PushedOnce, Accounted, InFlight, Creator
  <1>7. AppliedHasRun
    BY DEF Init, ServiceInit, AppliedHasRun
  <1> QED
    BY <1>2, <1>3, <1>4, <1>5, <1>6, <1>7 DEF IInv

\* Every step keeps it.
LEMMA NextIInv == ASSUME IInv, [Next]_vars PROVE IInv'
  BY NextTypes, NextOneKey, NextOneRow, NextCreation, NextApproving, NextPushedOnce, NextAccounted, NextApplied DEF IInv

\* The invariant holds throughout.
LEMMA IInvAlways == Spec => []IInv
  BY InitIInv, NextIInv, PTL DEF Spec

\* The approval of a recommendation stays well typed for any number of
\* requests: the id sequence moves once, whatever the interleaving.
THEOREM ApprovalTypes == Spec => []TypeOK
  <1>1. IInv => TypeOK
    BY DEF IInv
  <1> QED
    BY <1>1, IInvAlways, PTL

\* However many approvals of a retry race, fail or are repeated
\* (services/agent_recommendations.py:82), one run is created, by one of them.
THEOREM OneRetryRunAlways == Spec => []OneRetryRun
  <1>1. ASSUME IInv PROVE OneRetryRun
    <2>1. Cardinality(rows) <= 1
      <3>1. CASE rows = {}
        BY <3>1, FS_EmptySet
      <3>2. CASE rows # {}
        <4>1. PICK row \in rows : TRUE
          BY <3>2
        <4>2. rows = {row}
          BY <1>1, <4>1 DEF IInv, OneRow
        <4>3. Cardinality(rows) = 1
          BY <4>2, FS_Singleton
        <4> QED
          BY <4>3
      <3> QED
        BY <3>1, <3>2
    <2>2. \A c, d \in Callers : enqueue[c] # NoRun /\ enqueue[d] # NoRun => c = d
      BY <1>1 DEF IInv, Creation, Creator
    <2>3. faults = 0 => \A id \in Ids : pushed[id] <= 1
      BY <1>1 DEF IInv, PushedOnce
    <2> QED
      BY <2>1, <2>2, <2>3 DEF OneRetryRun
  <1> QED
    BY <1>1, IInvAlways, PTL

\* The rows, the requests and the one retry run between them, for any number of
\* requests and faults.
THEOREM RetrySoundAlways == Spec => []RetrySound
  <1>1. TypeOK /\ OneRetryRun => RetrySound
    BY DEF RetrySound
  <1> QED
    BY <1>1, ApprovalTypes, OneRetryRunAlways, PTL

\* When all requests are over, the run of an approved retry is on the list, unless one of
\* those who approved it was answered 500 or died (routes/agent_recommendations.py:85-93).
THEOREM AppliedIsQueuedAlways == Spec => []AppliedIsQueued
  <1>1. ASSUME IInv PROVE AppliedIsQueued
    <2>1. SUFFICES ASSUME pipeline, AllOver, status = "applied", action = "retry"
                   PROVE  /\ rows # {}
                          /\ \A row \in rows :
                                \/ pushed[row.id] >= 1
                                \/ \E c \in Callers : Applies(c) /\ (answer[c] = 500 \/ at[c] = "gone")
      BY DEF AppliedIsQueued
    <2>2. rows # {} /\ \A row \in rows : row.id = 1
      BY <1>1, <2>1 DEF IInv, AppliedHasRun, OneRow
    <2>3. \A c \in Callers : ~InFlight(c) /\ at[c] # "dberror"
      BY <2>1 DEF AllOver, InFlight
    <2>4. pushed[1] >= 1 \/ \E c \in Callers : Warned(c)
      BY <1>1, <2>2, <2>3 DEF IInv, Accounted
    <2> QED
      BY <2>2, <2>3, <2>4 DEF Warned
  <1> QED
    BY <1>1, IInvAlways, PTL

\* A schedule is paused by the commit that applies the recommendation
\* (services/agent_recommendations.py:112-117), in every behaviour.
THEOREM PauseWithDecisionAlways == Spec => PauseWithDecision
  <1>save. ASSUME TypeOK, NEW c \in Callers, Route(c) \/ Die(c), scheduled' # scheduled
          PROVE  status' = "applied"
    <2>1. Save(c)
      BY <1>save
      DEF Route, Read, StartRun, RunStarted, RunRefused, Reload, DecisionFails, Rpush, RpushBreaks, Die
    <2> QED
      BY <1>save, <2>1 DEF Save, TypeOK
  <1>1. ASSUME TypeOK, [Next]_vars PROVE [scheduled' # scheduled => status' = "applied"]_vars
    BY <1>1, <1>save DEF Next, DeletePipeline, Quiet
  <1> QED
    BY <1>1, ApprovalTypes, PTL DEF Spec, PauseWithDecision
=============================================================================
