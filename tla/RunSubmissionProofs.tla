------------------------- MODULE RunSubmissionProofs -------------------------
(***************************************************************************)
(* Proofs about RunSubmission for any number of requests, keys and faults. *)
(* The properties speak of answers; IInv speaks of every request that      *)
(* holds a run, whether it is answered or not, and of the table's rows.    *)
(***************************************************************************)
EXTENDS RunSubmission, FiniteSetTheorems, TLAPS

-----------------------------------------------------------------------------
(* The inductive invariant *)

\* The requests whose INSERT is behind them, or will not come.
Past == {c \in Callers : at[c] \notin {"check", "lookup", "insert"}}

\* The id sequence moved at most once for each of them.
IdsBounded == next - 1 <= Cardinality(Past)

\* What the unique constraint and the cascade make of the table.
RowsSound == /\ \A row \in rows : row.id < next
             /\ \A p, q \in rows : p.id = q.id => p = q
             /\ \A p, q \in rows : p.key = q.key /\ p.key # NoKey => p = q
             /\ ~pipeline => rows = {}

WithRun == {"refresh", "created", "replayed", "push"}

\* A run is held by requests that will be answered with it, and its row is
\* there for as long as the pipeline is.
HoldsWell(c) ==
    /\ run[c] # NoRun => run[c] < next /\ at[c] \in WithRun \cup {"answered"}
    /\ run[c] # NoRun /\ pipeline => [id |-> run[c], key |-> key[c]] \in rows
    /\ at[c] \in WithRun \/ Got(c) => run[c] # NoRun
    /\ answer[c] # 0 => at[c] = "answered"

Holding == \A c \in Callers : HoldsWell(c)

\* Who holds a run of a key holds the same one; a run without a key is nobody
\* else's.
HoldersAgree ==
    \A c, d \in Callers :
        run[c] # NoRun /\ run[d] # NoRun =>
            /\ key[c] = key[d] /\ key[c] # NoKey => run[c] = run[d]
            /\ c # d /\ key[c] = NoKey => run[c] # run[d]

InFlight(c) == at[c] \in {"refresh", "created", "push"}

Creator(c) == InFlight(c) \/ answer[c] = 201

\* A run has one creator, even after its row is gone.
CreatorsApart ==
    \A c, d \in Callers : c # d /\ Creator(c) /\ Creator(d) => run[c] # run[d]

\* Without a fault a run is pushed once its creator is through, not before.
Queued ==
    faults = 0 =>
        /\ \A id \in Ids : pushed[id] <= 1
        /\ \A id \in Ids : id >= next => pushed[id] = 0
        /\ \A c \in Callers : InFlight(c) => pushed[run[c]] = 0
        /\ \A row \in rows : \/ pushed[row.id] = 1
                             \/ \E c \in Callers : InFlight(c) /\ run[c] = row.id

\* Without a fault only the deletion of the pipeline makes a request fail, and
\* who lost the race finds the winner's row.
UnharmedFor(c) == /\ at[c] \notin {"missing", "integrity", "dberror", "gone"}
                  /\ at[c] = "reread" => SameKey(c) # {}
                  /\ answer[c] \in {0, 200, 201}

Unharmed == faults = 0 /\ pipeline => \A c \in Callers : UnharmedFor(c)

IInv == /\ TypeOK
        /\ IdsBounded
        /\ RowsSound
        /\ Holding
        /\ HoldersAgree
        /\ CreatorsApart
        /\ Queued
        /\ Unharmed

-----------------------------------------------------------------------------
(* Type correctness *)

USE DEF Goto, Fault, Answer, serviceVars, vars, WithRun, InFlight, Creator, Got

\* The number of callers, and what the sequence can have reached.
LEMMA CallersCount ==
    /\ MaxRuns \in Nat
    /\ Cardinality(Past) \in Nat
    /\ Cardinality(Past) <= MaxRuns
  BY CreateRunAssumption, FS_Subset, FS_CardinalityType DEF Past, MaxRuns

\* A caller that is at its INSERT leaves room for one more id.
LEMMA RoomForOne ==
    ASSUME NEW c \in Callers, c \notin Past
    PROVE  Cardinality(Past) + 1 <= MaxRuns
  <1>1. IsFiniteSet(Past) /\ IsFiniteSet(Past \cup {c})
    BY CreateRunAssumption, FS_Subset, FS_AddElement DEF Past
  <1>2. Cardinality(Past \cup {c}) = Cardinality(Past) + 1
    BY <1>1, FS_AddElement
  <1>3. Cardinality(Past \cup {c}) <= Cardinality(Callers)
    BY CreateRunAssumption, FS_Subset DEF Past
  <1> QED
    BY <1>2, <1>3 DEF MaxRuns

\* The ways a step changes who holds which run.
Grants(c) ==
    /\ at[c] = "insert"
    /\ pipeline
    /\ SameKey(c) = {}
    /\ AddRow(c)
    /\ UNCHANGED <<pipeline, key, faults, pushed, answer>>

HandsOut(c) ==
    /\ at[c] \in {"lookup", "reread"}
    /\ HandOut(c)
    /\ UNCHANGED <<pipeline, rows, next, key, faults, pushed, answer>>

\* Steps of a caller that keep the rows; it may lose its run.
Keeps(c) ==
    /\ UNCHANGED <<pipeline, rows, next, key>>
    /\ run' = run \/ run' = [run EXCEPT ![c] = NoRun]

\* A row hands out an id of a run.
LEMMA RowIds == ASSUME TypeOK, NEW row \in rows PROVE row.id \in Ids
  BY DEF TypeOK, ServiceTypeOK, Row

\* A caller's new label is a label.
LEMMA Relabelled ==
    ASSUME TypeOK, NEW c \in Callers, NEW l \in InService \cup Outcome \cup RouteLabel, Goto(c, l)
    PROVE  at' \in [Callers -> InService \cup Outcome \cup RouteLabel]
  BY DEF TypeOK, ServiceTypeOK

\* A push leaves counters.
LEMMA PushType ==
    ASSUME TypeOK, NEW id, NEW n \in Nat, Push(id, n)
    PROVE  pushed' \in [Ids -> Nat]
  <1>1. pushed \in [Ids -> Nat]
    BY DEF TypeOK, ServiceTypeOK
  <1>2. \A i \in Ids : pushed'[i] \in Nat
    <2> SUFFICES ASSUME NEW i \in Ids PROVE pushed'[i] \in Nat
      OBVIOUS
    <2>1. CASE i = id
      BY <1>1, <2>1 DEF Push
    <2>2. CASE i # id
      BY <1>1, <2>2 DEF Push
    <2> QED
      BY <2>1, <2>2
  <1> QED
    BY <1>1, <1>2 DEF Push

\* Every step leaves each variable in its set.
LEMMA NextTypes ==
    ASSUME TypeOK, IdsBounded, [Next]_vars
    PROVE  TypeOK'
  <1>types. TypeOK
    OBVIOUS
  <1>bound. MaxFaults \in Nat /\ MaxRuns \in Nat
    BY CreateRunAssumption, CallersCount
  <1>CheckPipeline. ASSUME NEW c \in Callers, CheckPipeline(c) /\ UNCHANGED <<pushed, answer>>
                    PROVE  TypeOK'
    BY <1>CheckPipeline, <1>types, <1>bound DEF CheckPipeline, TypeOK, ServiceTypeOK, InService, Outcome, RouteLabel
  <1>Lookup. ASSUME NEW c \in Callers, Lookup(c) /\ UNCHANGED <<pushed, answer>> PROVE TypeOK'
    <2>1. at' \in [Callers -> InService \cup Outcome \cup RouteLabel]
      BY <1>Lookup, Relabelled DEF Lookup, InService, Outcome, RouteLabel, HandOut
    <2>2. run' \in [Callers -> Ids \cup {NoRun}]
      BY <1>Lookup, <1>types, RowIds DEF Lookup, HandOut, SameKey, TypeOK, ServiceTypeOK
    <2> QED
      BY <1>Lookup, <2>1, <2>2, <1>types DEF Lookup, TypeOK, ServiceTypeOK
  <1>Insert. ASSUME NEW c \in Callers, Insert(c) /\ UNCHANGED <<pushed, answer>> PROVE TypeOK'
    <2>1. next <= MaxRuns
      BY <1>Insert, RoomForOne, CallersCount DEF IdsBounded, Past, Insert, TypeOK, ServiceTypeOK
    <2>2. CASE pipeline /\ SameKey(c) = {}
      <3>1. AddRow(c) /\ UNCHANGED <<pipeline, key, faults, pushed, answer>>
        BY <1>Insert, <2>2 DEF Insert
      <3>2. next \in Ids /\ next + 1 \in 1..MaxRuns + 1
        BY <2>1, <1>types, <1>bound DEF Ids, TypeOK, ServiceTypeOK
      <3>3. [id |-> next, key |-> key[c]] \in Row
        BY <3>2, <1>types DEF Row, TypeOK, ServiceTypeOK
      <3>4. at' \in [Callers -> InService \cup Outcome \cup RouteLabel]
        BY <3>1, Relabelled DEF AddRow, InService
      <3> QED
        BY <3>1, <3>2, <3>3, <3>4, <1>types DEF AddRow, TypeOK, ServiceTypeOK
    <2>3. CASE ~(pipeline /\ SameKey(c) = {})
      BY <1>Insert, <2>3, <1>types DEF Insert, TypeOK, ServiceTypeOK, InService, Outcome
    <2> QED
      BY <2>2, <2>3
  <1>Refresh. ASSUME NEW c \in Callers, Refresh(c) /\ UNCHANGED <<pushed, answer>>
              PROVE  TypeOK'
    <2>1. at' \in [Callers -> InService \cup Outcome \cup RouteLabel]
      BY <1>Refresh, Relabelled DEF Refresh, InService, Outcome, RouteLabel, HandOut
    <2> QED
      BY <1>Refresh, <2>1, <1>types DEF Refresh, TypeOK, ServiceTypeOK
  <1>Reread. ASSUME NEW c \in Callers, Reread(c) /\ UNCHANGED <<pushed, answer>> PROVE TypeOK'
    <2>1. at' \in [Callers -> InService \cup Outcome \cup RouteLabel]
      BY <1>Reread, Relabelled DEF Reread, InService, Outcome, RouteLabel, HandOut
    <2>2. run' \in [Callers -> Ids \cup {NoRun}]
      BY <1>Reread, <1>types, RowIds DEF Reread, HandOut, SameKey, TypeOK, ServiceTypeOK
    <2> QED
      BY <1>Reread, <2>1, <2>2, <1>types DEF Reread, TypeOK, ServiceTypeOK
  <1>DatabaseFails. ASSUME NEW c \in Callers, DatabaseFails(c) /\ UNCHANGED <<pushed, answer>>
                    PROVE  TypeOK'
    BY <1>DatabaseFails, <1>types, <1>bound DEF DatabaseFails, TypeOK, ServiceTypeOK, InService, Outcome, RouteLabel
  <1>Created. ASSUME NEW c \in Callers, Created(c) PROVE TypeOK'
    BY <1>Created, <1>types, <1>bound DEF Created, TypeOK, ServiceTypeOK, InService, Outcome, RouteLabel
  <1>Replayed. ASSUME NEW c \in Callers, Replayed(c) PROVE TypeOK'
    BY <1>Replayed, <1>types, <1>bound DEF Replayed, TypeOK, ServiceTypeOK, InService, Outcome, RouteLabel
  <1>Refused. ASSUME NEW c \in Callers, Refused(c) PROVE TypeOK'
    <2>1. at' \in [Callers -> InService \cup Outcome \cup RouteLabel]
      BY <1>Refused, Relabelled DEF Refused, InService, Outcome, RouteLabel, HandOut
    <2>2. answer' \in [Callers -> {0, 200, 201, 404, 409, 500}]
      BY <1>Refused, <1>types DEF Refused, TypeOK, ServiceTypeOK
    <2> QED
      BY <1>Refused, <2>1, <2>2, <1>types DEF Refused, TypeOK, ServiceTypeOK
  <1>Rpush. ASSUME NEW c \in Callers, Rpush(c) PROVE TypeOK'
    <2>1. at' \in [Callers -> InService \cup Outcome \cup RouteLabel]
      BY <1>Rpush, Relabelled DEF Rpush, InService, Outcome, RouteLabel, HandOut
    <2>2. pushed' \in [Ids -> Nat]
      BY <1>Rpush, <1>types, PushType DEF Rpush
    <2> QED
      BY <1>Rpush, <2>1, <2>2, <1>types DEF Rpush, TypeOK, ServiceTypeOK
  <1>RpushBreaks. ASSUME NEW c \in Callers, RpushBreaks(c) PROVE TypeOK'
    <2>1. at' \in [Callers -> InService \cup Outcome \cup RouteLabel]
      BY <1>RpushBreaks, Relabelled DEF RpushBreaks, InService, Outcome, RouteLabel, HandOut
    <2>2. \E n \in Nat : Push(run[c], n)
      BY <1>RpushBreaks DEF RpushBreaks
    <2>3. pushed' \in [Ids -> Nat]
      BY <2>2, <1>types, PushType
    <2>4. answer' \in [Callers -> {0, 200, 201, 404, 409, 500}] /\ run' \in [Callers -> Ids \cup {NoRun}]
      BY <1>RpushBreaks, <1>types DEF RpushBreaks, TypeOK, ServiceTypeOK
    <2> QED
      BY <1>RpushBreaks, <2>1, <2>3, <2>4, <1>types, <1>bound DEF RpushBreaks, TypeOK, ServiceTypeOK
  <1>Die. ASSUME NEW c \in Callers, Die(c) PROVE TypeOK'
    BY <1>Die, <1>types, <1>bound DEF Die, TypeOK, ServiceTypeOK, InService, Outcome, RouteLabel
  <1>DeletePipeline. ASSUME DeletePipeline PROVE TypeOK'
    BY <1>DeletePipeline, <1>types, <1>bound DEF DeletePipeline, TypeOK, ServiceTypeOK, InService, Outcome, RouteLabel
  <1>stutter. ASSUME UNCHANGED vars PROVE TypeOK'
    BY <1>stutter, <1>types, <1>bound DEF vars, TypeOK, ServiceTypeOK, InService, Outcome, RouteLabel
  <1> QED
    BY <1>CheckPipeline, <1>Lookup, <1>Insert, <1>Refresh, <1>Reread, <1>DatabaseFails,
       <1>Created, <1>Replayed, <1>Refused, <1>Rpush, <1>RpushBreaks, <1>Die,
       <1>DeletePipeline, <1>stutter DEF Next, Route, Call, ServiceStep, Quiet

-----------------------------------------------------------------------------
(* The id sequence *)

PastStep ==
    \/ next' = next /\ Past \subseteq Past'
    \/ \E c \in Callers \ Past : next' = next + 1 /\ Past' = Past \cup {c}

\* The sequence moves when a caller gets past its INSERT, once for each.
LEMMA PastSteps ==
    ASSUME TypeOK, [Next]_vars
    PROVE  PastStep
  <1>types. at \in [Callers -> InService \cup Outcome \cup RouteLabel]
    BY DEF TypeOK, ServiceTypeOK
  <1>CheckPipeline. ASSUME NEW c \in Callers, CheckPipeline(c) /\ UNCHANGED <<pushed, answer>>
                    PROVE  PastStep
    BY <1>CheckPipeline, <1>types DEF CheckPipeline, PastStep, Past, HandOut
  <1>Lookup. ASSUME NEW c \in Callers, Lookup(c) /\ UNCHANGED <<pushed, answer>> PROVE PastStep
    BY <1>Lookup, <1>types DEF Lookup, PastStep, Past, HandOut
  <1>Insert. ASSUME NEW c \in Callers, Insert(c) /\ UNCHANGED <<pushed, answer>> PROVE PastStep
    <2>1. CASE pipeline /\ SameKey(c) = {}
      <3>1. next' = next + 1 /\ Past' = Past \cup {c} /\ c \notin Past
        BY <1>Insert, <2>1, <1>types DEF Insert, AddRow, Past
      <3> QED
        BY <3>1 DEF PastStep
    <2>2. CASE ~(pipeline /\ SameKey(c) = {})
      BY <1>Insert, <2>2, <1>types DEF Insert, PastStep, Past
    <2> QED
      BY <2>1, <2>2
  <1>Refresh. ASSUME NEW c \in Callers, Refresh(c) /\ UNCHANGED <<pushed, answer>>
              PROVE  PastStep
    BY <1>Refresh, <1>types DEF Refresh, PastStep, Past, HandOut
  <1>Reread. ASSUME NEW c \in Callers, Reread(c) /\ UNCHANGED <<pushed, answer>> PROVE PastStep
    BY <1>Reread, <1>types DEF Reread, PastStep, Past, HandOut
  <1>DatabaseFails. ASSUME NEW c \in Callers, DatabaseFails(c) /\ UNCHANGED <<pushed, answer>>
                    PROVE  PastStep
    BY <1>DatabaseFails, <1>types DEF DatabaseFails, PastStep, Past, HandOut
  <1>Created. ASSUME NEW c \in Callers, Created(c) PROVE PastStep
    BY <1>Created, <1>types DEF Created, PastStep, Past, HandOut
  <1>Replayed. ASSUME NEW c \in Callers, Replayed(c) PROVE PastStep
    BY <1>Replayed, <1>types DEF Replayed, PastStep, Past, HandOut
  <1>Refused. ASSUME NEW c \in Callers, Refused(c) PROVE PastStep
    BY <1>Refused, <1>types DEF Refused, PastStep, Past, HandOut
  <1>Rpush. ASSUME NEW c \in Callers, Rpush(c) PROVE PastStep
    BY <1>Rpush, <1>types DEF Rpush, PastStep, Past, HandOut
  <1>RpushBreaks. ASSUME NEW c \in Callers, RpushBreaks(c) PROVE PastStep
    BY <1>RpushBreaks, <1>types DEF RpushBreaks, PastStep, Past, HandOut
  <1>Die. ASSUME NEW c \in Callers, Die(c) PROVE PastStep
    BY <1>Die, <1>types DEF Die, PastStep, Past, HandOut
  <1>DeletePipeline. ASSUME DeletePipeline PROVE PastStep
    BY <1>DeletePipeline, <1>types DEF DeletePipeline, PastStep, Past, HandOut
  <1>stutter. ASSUME UNCHANGED vars PROVE PastStep
    BY <1>stutter, <1>types DEF vars, PastStep, Past, HandOut
  <1> QED
    BY <1>CheckPipeline, <1>Lookup, <1>Insert, <1>Refresh, <1>Reread, <1>DatabaseFails,
       <1>Created, <1>Replayed, <1>Refused, <1>Rpush, <1>RpushBreaks, <1>Die,
       <1>DeletePipeline, <1>stutter DEF Next, Route, Call, ServiceStep, Quiet

\* The bound on the sequence is kept.
LEMMA IdsStayBounded ==
    ASSUME TypeOK, IdsBounded, [Next]_vars
    PROVE  IdsBounded'
  <1>1. IsFiniteSet(Past) /\ IsFiniteSet(Past')
    BY CreateRunAssumption, FS_Subset DEF Past
  <1>2. next \in Nat /\ Cardinality(Past) \in Nat /\ Cardinality(Past') \in Nat
    BY <1>1, FS_CardinalityType, CallersCount DEF TypeOK, ServiceTypeOK
  <1>3. CASE next' = next /\ Past \subseteq Past'
    <2>1. Cardinality(Past) <= Cardinality(Past')
      BY <1>1, <1>3, FS_Subset
    <2> QED
      BY <2>1, <1>2, <1>3 DEF IdsBounded
  <1>4. CASE \E c \in Callers \ Past : next' = next + 1 /\ Past' = Past \cup {c}
    <2>1. Cardinality(Past') = Cardinality(Past) + 1
      BY <1>1, <1>4, FS_AddElement
    <2> QED
      BY <2>1, <1>2, <1>4 DEF IdsBounded
  <1> QED
    BY <1>3, <1>4, PastSteps DEF PastStep

-----------------------------------------------------------------------------
(* Rows and those who hold them *)

Shape == \/ \E c \in Callers : Grants(c) \/ HandsOut(c) \/ Keeps(c)
         \/ DeletePipeline
         \/ UNCHANGED vars

\* Every step is one of these.
LEMMA Shapes ==
    ASSUME TypeOK, [Next]_vars
    PROVE  Shape
  <1>CheckPipeline. ASSUME NEW c \in Callers, CheckPipeline(c) /\ UNCHANGED <<pushed, answer>>
                    PROVE  Shape
    BY <1>CheckPipeline DEF CheckPipeline, Shape, Grants, HandsOut, Keeps
  <1>Lookup. ASSUME NEW c \in Callers, Lookup(c) /\ UNCHANGED <<pushed, answer>> PROVE Shape
    BY <1>Lookup DEF Lookup, Shape, Grants, HandsOut, Keeps
  <1>Insert. ASSUME NEW c \in Callers, Insert(c) /\ UNCHANGED <<pushed, answer>> PROVE Shape
    BY <1>Insert DEF Insert, Shape, Grants, Keeps
  <1>Refresh. ASSUME NEW c \in Callers, Refresh(c) /\ UNCHANGED <<pushed, answer>> PROVE Shape
    BY <1>Refresh DEF Refresh, Shape, Grants, HandsOut, Keeps
  <1>Reread. ASSUME NEW c \in Callers, Reread(c) /\ UNCHANGED <<pushed, answer>> PROVE Shape
    BY <1>Reread DEF Reread, Shape, Grants, HandsOut, Keeps
  <1>DatabaseFails. ASSUME NEW c \in Callers, DatabaseFails(c) /\ UNCHANGED <<pushed, answer>>
                    PROVE  Shape
    BY <1>DatabaseFails DEF DatabaseFails, Shape, Grants, HandsOut, Keeps
  <1>Created. ASSUME NEW c \in Callers, Created(c) PROVE Shape
    BY <1>Created DEF Created, Shape, Grants, HandsOut, Keeps
  <1>Replayed. ASSUME NEW c \in Callers, Replayed(c) PROVE Shape
    BY <1>Replayed DEF Replayed, Shape, Grants, HandsOut, Keeps
  <1>Refused. ASSUME NEW c \in Callers, Refused(c) PROVE Shape
    BY <1>Refused DEF Refused, Shape, Grants, HandsOut, Keeps
  <1>Rpush. ASSUME NEW c \in Callers, Rpush(c) PROVE Shape
    BY <1>Rpush DEF Rpush, Shape, Grants, HandsOut, Keeps
  <1>RpushBreaks. ASSUME NEW c \in Callers, RpushBreaks(c) PROVE Shape
    BY <1>RpushBreaks DEF RpushBreaks, Shape, Grants, HandsOut, Keeps
  <1>Die. ASSUME NEW c \in Callers, Die(c) PROVE Shape
    BY <1>Die DEF Die, Shape, Grants, HandsOut, Keeps
  <1>DeletePipeline. ASSUME DeletePipeline PROVE Shape
    BY <1>DeletePipeline DEF Shape
  <1>stutter. ASSUME UNCHANGED vars PROVE Shape
    BY <1>stutter DEF Shape
  <1> QED
    BY <1>CheckPipeline, <1>Lookup, <1>Insert, <1>Refresh, <1>Reread, <1>DatabaseFails,
       <1>Created, <1>Replayed, <1>Refused, <1>Rpush, <1>RpushBreaks, <1>Die,
       <1>DeletePipeline, <1>stutter DEF Next, Route, Call, ServiceStep, Quiet

\* The fields of what the steps below argue about.
LEMMA Fields ==
    ASSUME TypeOK
    PROVE  /\ next \in Nat
           /\ run \in [Callers -> Nat \cup {NoRun}]
           /\ key \in [Callers -> Keys \cup {NoKey}]
           /\ \A row \in rows : /\ row.id \in Nat
                                /\ row = [id |-> row.id, key |-> row.key]
  <1>1. Ids \subseteq Nat
    BY CallersCount DEF Ids
  <1>2. next \in Nat
    BY CallersCount DEF TypeOK, ServiceTypeOK
  <1>3. run \in [Callers -> Nat \cup {NoRun}] /\ key \in [Callers -> Keys \cup {NoKey}]
    <2>1. run \in [Callers -> Ids \cup {NoRun}] /\ key \in [Callers -> Keys \cup {NoKey}]
      BY DEF TypeOK, ServiceTypeOK
    <2>2. \A c \in Callers : run[c] \in Nat \cup {NoRun}
      BY <1>1, <2>1
    <2> QED
      BY <2>1, <2>2
  <1>4. ASSUME NEW row \in rows
        PROVE  row.id \in Nat /\ row = [id |-> row.id, key |-> row.key]
    <2>1. row \in Row
      BY DEF TypeOK, ServiceTypeOK
    <2> QED
      BY <2>1, <1>1 DEF Row
  <1> QED
    BY <1>2, <1>3, <1>4

\* What holding a run means.
LEMMA Held ==
    ASSUME TypeOK, Holding, NEW c \in Callers, run[c] # NoRun
    PROVE  /\ run[c] \in Nat
           /\ run[c] < next
           /\ at[c] \in WithRun \cup {"answered"}
           /\ pipeline => \E q \in rows : q.id = run[c] /\ q.key = key[c]
  <1>1. run[c] \in Nat
    BY Fields
  <1>2. run[c] < next /\ at[c] \in WithRun \cup {"answered"}
    BY DEF Holding, HoldsWell
  <1>3. pipeline => [id |-> run[c], key |-> key[c]] \in rows
    BY DEF Holding, HoldsWell
  <1> QED
    BY <1>1, <1>2, <1>3

\* The table keeps its constraints.
LEMMA RowsStaySound ==
    ASSUME TypeOK, RowsSound, [Next]_vars
    PROVE  RowsSound'
  <1>Grants. ASSUME NEW c \in Callers, Grants(c) PROVE RowsSound'
    <2>1. rows' = rows \cup {[id |-> next, key |-> key[c]]} /\ next' = next + 1 /\ pipeline'
      BY <1>Grants DEF Grants, AddRow
    <2>2. \A row \in rows' : row.id < next'
      BY <2>1, Fields DEF RowsSound
    <2>3. \A p, q \in rows' : p.id = q.id => p = q
      BY <2>1, Fields DEF RowsSound
    <2>4. \A row \in rows : row.key = key[c] => key[c] = NoKey
      BY <1>Grants DEF Grants, SameKey
    <2>5. \A p, q \in rows' : p.key = q.key /\ p.key # NoKey => p = q
      BY <2>1, <2>4 DEF RowsSound
    <2> QED
      BY <2>1, <2>2, <2>3, <2>5 DEF RowsSound
  <1>HandsOut. ASSUME NEW c \in Callers, HandsOut(c) PROVE RowsSound'
    BY <1>HandsOut DEF HandsOut, RowsSound
  <1>Keeps. ASSUME NEW c \in Callers, Keeps(c) PROVE RowsSound'
    BY <1>Keeps DEF Keeps, RowsSound
  <1>DeletePipeline. ASSUME DeletePipeline PROVE RowsSound'
    BY <1>DeletePipeline DEF DeletePipeline, RowsSound
  <1>stutter. ASSUME UNCHANGED vars PROVE RowsSound'
    BY <1>stutter DEF RowsSound
  <1> QED
    BY Shapes, <1>Grants, <1>HandsOut, <1>Keeps, <1>DeletePipeline, <1>stutter DEF Shape

\* Nobody is given a second run of a key, or somebody else's run.
LEMMA HoldersStillAgree ==
    ASSUME TypeOK, RowsSound, Holding, HoldersAgree, [Next]_vars
    PROVE  HoldersAgree'
  <1>Grants. ASSUME NEW c \in Callers, Grants(c) PROVE HoldersAgree'
    <2>1. run' = [run EXCEPT ![c] = next] /\ key' = key /\ next # NoRun
      BY <1>Grants, Fields, CreateRunAssumption DEF Grants, AddRow
    <2>2. \A d \in Callers : run[d] # NoRun => run[d] # next
      BY Fields, Held
    <2>3. \A d \in Callers : run[d] # NoRun /\ key[d] = key[c] => key[c] = NoKey
      <3> SUFFICES ASSUME NEW d \in Callers, run[d] # NoRun, key[d] = key[c]
                   PROVE  key[c] = NoKey
        OBVIOUS
      <3>1. PICK q \in rows : q.key = key[d]
        BY <1>Grants, Held DEF Grants
      <3> QED
        BY <3>1, <1>Grants DEF Grants, SameKey
    <2> QED
      BY <2>1, <2>2, <2>3, Fields DEF HoldersAgree
  <1>HandsOut. ASSUME NEW c \in Callers, HandsOut(c) PROVE HoldersAgree'
    <2>1. PICK row \in rows : row.key = key[c] /\ key[c] # NoKey /\ run' = [run EXCEPT ![c] = row.id]
      BY <1>HandsOut DEF HandsOut, HandOut, SameKey
    <2>2. pipeline
      BY <2>1, TypeOK DEF RowsSound, TypeOK, ServiceTypeOK
    <2>3. \A d \in Callers : run[d] # NoRun => \E q \in rows : q.id = run[d] /\ q.key = key[d]
      BY <2>2, Held
    <2>4. \A d \in Callers : run[d] # NoRun => (run[d] = row.id <=> key[d] = key[c])
      BY <2>1, <2>3 DEF RowsSound
    <2> QED
      BY <2>1, <2>4, Fields, <1>HandsOut DEF HoldersAgree, HandsOut
  <1>Keeps. ASSUME NEW c \in Callers, Keeps(c) PROVE HoldersAgree'
    BY <1>Keeps, Fields DEF Keeps, HoldersAgree
  <1>DeletePipeline. ASSUME DeletePipeline PROVE HoldersAgree'
    BY <1>DeletePipeline DEF DeletePipeline, HoldersAgree
  <1>stutter. ASSUME UNCHANGED vars PROVE HoldersAgree'
    BY <1>stutter DEF HoldersAgree
  <1> QED
    BY Shapes, <1>Grants, <1>HandsOut, <1>Keeps, <1>DeletePipeline, <1>stutter DEF Shape

\* The functions a caller's step changes at one place.
LEMMA Functions ==
    ASSUME TypeOK
    PROVE  /\ at \in [Callers -> InService \cup Outcome \cup RouteLabel]
           /\ answer \in [Callers -> {0, 200, 201, 404, 409, 500}]
           /\ pushed \in [Ids -> Nat]
           /\ pipeline \in BOOLEAN
           /\ faults \in Nat
  BY CreateRunAssumption DEF TypeOK, ServiceTypeOK

\* A caller's claim to its run survives every step.
LEMMA HoldersStayWell ==
    ASSUME TypeOK, RowsSound, Holding, NEW d \in Callers, [Next]_vars
    PROVE  HoldsWell(d)'
  <1>facts. /\ HoldsWell(d)
            /\ at \in [Callers -> InService \cup Outcome \cup RouteLabel]
            /\ answer \in [Callers -> {0, 200, 201, 404, 409, 500}]
            /\ next \in Nat /\ NoRun \notin Nat
            /\ run \in [Callers -> Nat \cup {NoRun}]
    BY Functions, Fields, CreateRunAssumption DEF Holding
  <1>handed. ASSUME NEW c \in Callers, HandsOut(c) PROVE HoldsWell(d)'
    <2>1. PICK row \in rows : row.key = key[c] /\ run' = [run EXCEPT ![c] = row.id]
      BY <1>handed DEF HandsOut, HandOut, SameKey
    <2>2. row = [id |-> row.id, key |-> key[c]] /\ row.id \in Nat /\ row.id < next
      BY <2>1, Fields DEF RowsSound
    <2>3. at' = [at EXCEPT ![c] = "replayed"] /\ at[c] # "answered"
      BY <1>handed DEF HandsOut, HandOut
    <2>4. UNCHANGED <<pipeline, rows, next, key, answer>>
      BY <1>handed DEF HandsOut
    <2>5. CASE d = c
      BY <2>1, <2>2, <2>3, <2>4, <2>5, <1>facts DEF HoldsWell
    <2>6. CASE d # c
      BY <2>1, <2>3, <2>4, <2>6, <1>facts DEF HoldsWell
    <2> QED
      BY <2>5, <2>6
  <1>CheckPipeline. ASSUME NEW c \in Callers, CheckPipeline(c) /\ UNCHANGED <<pushed, answer>>
                    PROVE  HoldsWell(d)'
    BY <1>CheckPipeline, <1>facts DEF CheckPipeline, HoldsWell
  <1>Lookup. ASSUME NEW c \in Callers, Lookup(c) /\ UNCHANGED <<pushed, answer>>
             PROVE  HoldsWell(d)'
    <2>1. CASE HandsOut(c)
      BY <2>1, <1>handed
    <2>2. CASE SameKey(c) = {} /\ run' = run
      BY <1>Lookup, <2>2, <1>facts DEF Lookup, HandOut, HoldsWell
    <2> QED
      BY <1>Lookup, <2>1, <2>2 DEF Lookup, HandsOut, HandOut
  <1>Insert. ASSUME NEW c \in Callers, Insert(c) /\ UNCHANGED <<pushed, answer>>
             PROVE  HoldsWell(d)'
    <2>1. CASE Grants(c)
      <3>1. /\ rows' = rows \cup {[id |-> next, key |-> key[c]]}
            /\ next' = next + 1 /\ key' = key /\ answer' = answer
            /\ at[c] = "insert" /\ at' = [at EXCEPT ![c] = "refresh"]
            /\ run' = [run EXCEPT ![c] = next] /\ pipeline' = pipeline
        BY <2>1 DEF Grants, AddRow
      <3>2. CASE d = c
        BY <3>1, <3>2, <1>facts DEF HoldsWell
      <3>3. CASE d # c
        BY <3>1, <3>3, <1>facts DEF HoldsWell
      <3> QED
        BY <3>2, <3>3
    <2>2. CASE ~(pipeline /\ SameKey(c) = {})
      BY <1>Insert, <2>2, <1>facts DEF Insert, HoldsWell
    <2> QED
      BY <1>Insert, <2>1, <2>2 DEF Insert, Grants
  <1>Refresh. ASSUME NEW c \in Callers, Refresh(c) /\ UNCHANGED <<pushed, answer>>
              PROVE  HoldsWell(d)'
    BY <1>Refresh, <1>facts DEF Refresh, HoldsWell
  <1>Reread. ASSUME NEW c \in Callers, Reread(c) /\ UNCHANGED <<pushed, answer>>
             PROVE  HoldsWell(d)'
    <2>1. CASE HandsOut(c)
      BY <2>1, <1>handed
    <2>2. CASE SameKey(c) = {} /\ run' = run
      BY <1>Reread, <2>2, <1>facts DEF Reread, HandOut, HoldsWell
    <2> QED
      BY <1>Reread, <2>1, <2>2 DEF Reread, HandsOut, HandOut
  <1>DatabaseFails. ASSUME NEW c \in Callers, DatabaseFails(c) /\ UNCHANGED <<pushed, answer>>
                    PROVE  HoldsWell(d)'
    BY <1>DatabaseFails, <1>facts DEF DatabaseFails, InService, HoldsWell
  <1>Created. ASSUME NEW c \in Callers, Created(c) PROVE HoldsWell(d)'
    BY <1>Created, <1>facts DEF Created, HoldsWell
  <1>Replayed. ASSUME NEW c \in Callers, Replayed(c) PROVE HoldsWell(d)'
    BY <1>Replayed, <1>facts DEF Replayed, HoldsWell
  <1>Refused. ASSUME NEW c \in Callers, Refused(c) PROVE HoldsWell(d)'
    BY <1>Refused, <1>facts DEF Refused, HoldsWell
  <1>Rpush. ASSUME NEW c \in Callers, Rpush(c) PROVE HoldsWell(d)'
    BY <1>Rpush, <1>facts DEF Rpush, HoldsWell
  <1>RpushBreaks. ASSUME NEW c \in Callers, RpushBreaks(c) PROVE HoldsWell(d)'
    BY <1>RpushBreaks, <1>facts DEF RpushBreaks, HoldsWell
  <1>Die. ASSUME NEW c \in Callers, Die(c) PROVE HoldsWell(d)'
    BY <1>Die, <1>facts DEF Die, HoldsWell
  <1>DeletePipeline. ASSUME DeletePipeline PROVE HoldsWell(d)'
    BY <1>DeletePipeline, <1>facts DEF DeletePipeline, HoldsWell
  <1>stutter. ASSUME UNCHANGED vars PROVE HoldsWell(d)'
    BY <1>stutter, <1>facts DEF vars, HoldsWell
  <1> QED
    BY <1>CheckPipeline, <1>Lookup, <1>Insert, <1>Refresh, <1>Reread, <1>DatabaseFails,
       <1>Created, <1>Replayed, <1>Refused, <1>Rpush, <1>RpushBreaks, <1>Die,
       <1>DeletePipeline, <1>stutter DEF Next, Route, Call, ServiceStep, Quiet

-----------------------------------------------------------------------------
(* Creators *)

Inserts(c) ==
    /\ at[c] = "insert" /\ at'[c] = "refresh" /\ run'[c] = next
    /\ \A d \in Callers : d # c => at'[d] = at[d] /\ run'[d] = run[d]

\* A caller becomes a creator by its INSERT, and keeps its run as long as it is one.
LEMMA NoNewCreator ==
    ASSUME TypeOK, Holding, NEW d \in Callers, Creator(d)', [Next]_vars
    PROVE  Inserts(d) \/ (Creator(d) /\ run'[d] = run[d])
  <1>facts. /\ at \in [Callers -> InService \cup Outcome \cup RouteLabel]
            /\ answer \in [Callers -> {0, 200, 201, 404, 409, 500}]
            /\ run \in [Callers -> Nat \cup {NoRun}]
            /\ answer[d] # 0 => at[d] = "answered"
    BY Functions, Fields DEF Holding, HoldsWell
  <1>CheckPipeline. ASSUME NEW c \in Callers, CheckPipeline(c) /\ UNCHANGED <<pushed, answer>>
                    PROVE  Inserts(d) \/ (Creator(d) /\ run'[d] = run[d])
    BY <1>CheckPipeline, <1>facts DEF CheckPipeline, HandOut
  <1>Lookup. ASSUME NEW c \in Callers, Lookup(c) /\ UNCHANGED <<pushed, answer>>
             PROVE  Inserts(d) \/ (Creator(d) /\ run'[d] = run[d])
    BY <1>Lookup, <1>facts DEF Lookup, HandOut
  <1>Insert. ASSUME NEW c \in Callers, Insert(c) /\ UNCHANGED <<pushed, answer>>
             PROVE  Inserts(d) \/ (Creator(d) /\ run'[d] = run[d])
    <2>1. CASE Grants(c)
      <3>1. Inserts(c)
        BY <2>1, <1>facts DEF Grants, AddRow, Inserts
      <3>2. CASE d = c
        BY <3>1, <3>2 DEF Inserts
      <3>3. CASE d # c
        BY <2>1, <3>3, <1>facts DEF Grants, AddRow
      <3> QED
        BY <3>2, <3>3
    <2>2. CASE ~(pipeline /\ SameKey(c) = {})
      BY <1>Insert, <2>2, <1>facts DEF Insert
    <2> QED
      BY <1>Insert, <2>1, <2>2 DEF Insert, Grants
  <1>Refresh. ASSUME NEW c \in Callers, Refresh(c) /\ UNCHANGED <<pushed, answer>>
              PROVE  Inserts(d) \/ (Creator(d) /\ run'[d] = run[d])
    BY <1>Refresh, <1>facts DEF Refresh, HandOut
  <1>Reread. ASSUME NEW c \in Callers, Reread(c) /\ UNCHANGED <<pushed, answer>>
             PROVE  Inserts(d) \/ (Creator(d) /\ run'[d] = run[d])
    BY <1>Reread, <1>facts DEF Reread, HandOut
  <1>DatabaseFails. ASSUME NEW c \in Callers, DatabaseFails(c) /\ UNCHANGED <<pushed, answer>>
                    PROVE  Inserts(d) \/ (Creator(d) /\ run'[d] = run[d])
    BY <1>DatabaseFails, <1>facts DEF DatabaseFails, InService
  <1>Created. ASSUME NEW c \in Callers, Created(c)
              PROVE  Inserts(d) \/ (Creator(d) /\ run'[d] = run[d])
    BY <1>Created, <1>facts DEF Created, HandOut
  <1>Replayed. ASSUME NEW c \in Callers, Replayed(c)
               PROVE  Inserts(d) \/ (Creator(d) /\ run'[d] = run[d])
    BY <1>Replayed, <1>facts DEF Replayed, HandOut
  <1>Refused. ASSUME NEW c \in Callers, Refused(c)
              PROVE  Inserts(d) \/ (Creator(d) /\ run'[d] = run[d])
    BY <1>Refused, <1>facts DEF Refused, HandOut
  <1>Rpush. ASSUME NEW c \in Callers, Rpush(c)
            PROVE  Inserts(d) \/ (Creator(d) /\ run'[d] = run[d])
    BY <1>Rpush, <1>facts DEF Rpush, HandOut
  <1>RpushBreaks. ASSUME NEW c \in Callers, RpushBreaks(c)
                  PROVE  Inserts(d) \/ (Creator(d) /\ run'[d] = run[d])
    BY <1>RpushBreaks, <1>facts DEF RpushBreaks, HandOut
  <1>Die. ASSUME NEW c \in Callers, Die(c) PROVE Inserts(d) \/ (Creator(d) /\ run'[d] = run[d])
    BY <1>Die, <1>facts DEF Die, HandOut
  <1>DeletePipeline. ASSUME DeletePipeline PROVE Inserts(d) \/ (Creator(d) /\ run'[d] = run[d])
    BY <1>DeletePipeline, <1>facts DEF DeletePipeline, HandOut
  <1>stutter. ASSUME UNCHANGED vars PROVE Inserts(d) \/ (Creator(d) /\ run'[d] = run[d])
    BY <1>stutter, <1>facts DEF vars, HandOut
  <1> QED
    BY <1>CheckPipeline, <1>Lookup, <1>Insert, <1>Refresh, <1>Reread, <1>DatabaseFails,
       <1>Created, <1>Replayed, <1>Refused, <1>Rpush, <1>RpushBreaks, <1>Die,
       <1>DeletePipeline, <1>stutter DEF Next, Route, Call, ServiceStep, Quiet

\* No second caller becomes the creator of a run.
LEMMA CreatorsStayApart ==
    ASSUME TypeOK, Holding, CreatorsApart, [Next]_vars
    PROVE  CreatorsApart'
  <1> SUFFICES ASSUME NEW c \in Callers, NEW d \in Callers, c # d, Creator(c)', Creator(d)'
               PROVE  run'[c] # run'[d]
    BY DEF CreatorsApart
  <1>1. ASSUME NEW x \in Callers, Creator(x)
        PROVE  run[x] # NoRun /\ run[x] # next
    <2>1. run[x] # NoRun
      BY <1>1 DEF Holding, HoldsWell
    <2> QED
      BY <2>1, Held, Fields
  <1>2. ASSUME NEW x \in Callers, NEW y \in Callers, x # y, Inserts(x)
        PROVE  run'[x] = next /\ run'[y] = run[y] /\ ~Inserts(y)
    BY <1>2, Functions, Fields DEF Inserts
  <1>3. Inserts(c) \/ (Creator(c) /\ run'[c] = run[c])
    BY NoNewCreator
  <1>4. Inserts(d) \/ (Creator(d) /\ run'[d] = run[d])
    BY NoNewCreator
  <1> QED
    BY <1>1, <1>2, <1>3, <1>4 DEF CreatorsApart

-----------------------------------------------------------------------------
(* Each run is pushed once *)

\* A step that touches neither the list nor a run in flight.
LEMMA SameFlight ==
    ASSUME Queued, faults' = 0 => faults = 0, rows' \subseteq rows, UNCHANGED <<next, pushed>>,
           \A c \in Callers : InFlight(c)' <=> InFlight(c),
           \A c \in Callers : InFlight(c) => run'[c] = run[c]
    PROVE  Queued'
  <1> SUFFICES ASSUME faults = 0
               PROVE  Queued'
    BY DEF Queued
  <1>1. \A c \in Callers : InFlight(c)' => pushed'[run'[c]] = 0
    BY DEF Queued
  <1>2. \A row \in rows' : \/ pushed'[row.id] = 1
                           \/ \E c \in Callers : InFlight(c)' /\ run'[c] = row.id
    BY DEF Queued
  <1> QED
    BY <1>1, <1>2 DEF Queued

\* Creating a run puts it in flight, pushing it lands it.
LEMMA RunsStayQueued ==
    ASSUME TypeOK, IdsBounded, RowsSound, Holding, CreatorsApart, Queued, [Next]_vars
    PROVE  Queued'
  <1>facts. /\ at \in [Callers -> InService \cup Outcome \cup RouteLabel]
            /\ pushed \in [Ids -> Nat]
            /\ run \in [Callers -> Nat \cup {NoRun}]
            /\ faults \in Nat /\ next \in Nat
    BY Functions, Fields
  <1>room. ASSUME NEW c \in Callers, at[c] = "insert" PROVE next \in Ids
    BY <1>room, RoomForOne, CallersCount DEF IdsBounded, Past, Ids, TypeOK, ServiceTypeOK
  <1>held. \A d \in Callers : InFlight(d) => /\ run[d] \in Nat
                                             /\ run[d] # next
    <2> SUFFICES ASSUME NEW d \in Callers, InFlight(d)
                 PROVE  run[d] \in Nat /\ run[d] # next
      OBVIOUS
    <2>1. run[d] # NoRun
      BY DEF Holding, HoldsWell
    <2> QED
      BY <2>1, Held, <1>facts
  <1>CheckPipeline. ASSUME NEW c \in Callers, CheckPipeline(c) /\ UNCHANGED <<pushed, answer>>
                    PROVE  Queued'
    <2>1. \A d \in Callers : InFlight(d)' <=> InFlight(d)
      BY <1>CheckPipeline, <1>facts DEF CheckPipeline, HandOut
    <2>2. \A d \in Callers : InFlight(d) => run'[d] = run[d]
      BY <1>CheckPipeline, <1>facts DEF CheckPipeline, HandOut
    <2> QED
      BY <1>CheckPipeline, <2>1, <2>2, SameFlight DEF CheckPipeline
  <1>Lookup. ASSUME NEW c \in Callers, Lookup(c) /\ UNCHANGED <<pushed, answer>> PROVE Queued'
    <2>1. \A d \in Callers : InFlight(d)' <=> InFlight(d)
      BY <1>Lookup, <1>facts DEF Lookup, HandOut
    <2>2. \A d \in Callers : InFlight(d) => run'[d] = run[d]
      BY <1>Lookup, <1>facts DEF Lookup, HandOut
    <2> QED
      BY <1>Lookup, <2>1, <2>2, SameFlight DEF Lookup
  <1>Insert. ASSUME NEW c \in Callers, Insert(c) /\ UNCHANGED <<pushed, answer>> PROVE Queued'
    <2> SUFFICES ASSUME faults = 0 PROVE Queued'
      BY <1>Insert DEF Insert, Queued
    <2>1. CASE Grants(c)
      <3>1. /\ rows' = rows \cup {[id |-> next, key |-> key[c]]} /\ next' = next + 1
            /\ pushed' = pushed /\ faults' = faults /\ next \in Ids
            /\ run' = [run EXCEPT ![c] = next] /\ at' = [at EXCEPT ![c] = "refresh"]
            /\ at[c] = "insert"
        BY <2>1, <1>room DEF Grants, AddRow
      <3>2. InFlight(c)' /\ run'[c] = next /\ \A d \in Callers : d # c => (InFlight(d)' <=> InFlight(d)) /\ run'[d] = run[d]
        BY <3>1, <1>facts
      <3>3. \A id \in Ids : id >= next' => pushed'[id] = 0
        BY <3>1, <1>facts, CallersCount DEF Queued, Ids
      <3>4. \A d \in Callers : InFlight(d)' => pushed'[run'[d]] = 0
        BY <3>1, <3>2, <1>facts DEF Queued, Ids
      <3>5. \A row \in rows' : \/ pushed'[row.id] = 1
                               \/ \E d \in Callers : InFlight(d)' /\ run'[d] = row.id
        <4> SUFFICES ASSUME NEW row \in rows'
                     PROVE  \/ pushed'[row.id] = 1
                            \/ \E d \in Callers : InFlight(d)' /\ run'[d] = row.id
          OBVIOUS
        <4>1. CASE row \in rows
          BY <4>1, <3>1, <3>2 DEF Queued
        <4>2. CASE row.id = next
          BY <4>2, <3>2
        <4> QED
          BY <4>1, <4>2, <3>1
      <3> QED
        BY <3>1, <3>3, <3>4, <3>5 DEF Queued
    <2>2. CASE ~(pipeline /\ SameKey(c) = {})
      <3>1. \A d \in Callers : (InFlight(d)' <=> InFlight(d)) /\ run'[d] = run[d]
        BY <1>Insert, <2>2, <1>facts DEF Insert
      <3> QED
        BY <1>Insert, <2>2, <3>1, SameFlight DEF Insert
    <2> QED
      BY <1>Insert, <2>1, <2>2 DEF Insert, Grants
  <1>Refresh. ASSUME NEW c \in Callers, Refresh(c) /\ UNCHANGED <<pushed, answer>>
              PROVE  Queued'
    <2>1. CASE \E row \in rows : row.id = run[c]
      <3>1. \A d \in Callers : (InFlight(d)' <=> InFlight(d)) /\ run'[d] = run[d]
        BY <1>Refresh, <2>1, <1>facts DEF Refresh
      <3> QED
        BY <1>Refresh, <3>1, SameFlight DEF Refresh
    <2>2. CASE ~\E row \in rows : row.id = run[c]
      <3>1. \A d \in Callers : InFlight(d)' <=> InFlight(d) /\ d # c
        BY <1>Refresh, <2>2, <1>facts DEF Refresh
      <3>2. \A d \in Callers : InFlight(d)' => run'[d] = run[d]
        BY <1>Refresh, <2>2, <1>facts DEF Refresh
      <3>3. UNCHANGED <<rows, next, pushed, faults>>
        BY <1>Refresh DEF Refresh
      <3>4. \A d \in Callers : faults = 0 /\ InFlight(d)' => pushed'[run'[d]] = 0
        BY <3>1, <3>2, <3>3 DEF Queued
      <3>5. \A row \in rows' : faults = 0 => \/ pushed'[row.id] = 1
                                              \/ \E d \in Callers : InFlight(d)' /\ run'[d] = row.id
        BY <2>2, <3>1, <3>2, <3>3 DEF Queued
      <3> QED
        BY <3>3, <3>4, <3>5 DEF Queued
    <2> QED
      BY <2>1, <2>2
  <1>Reread. ASSUME NEW c \in Callers, Reread(c) /\ UNCHANGED <<pushed, answer>> PROVE Queued'
    <2>1. \A d \in Callers : InFlight(d)' <=> InFlight(d)
      BY <1>Reread, <1>facts DEF Reread, HandOut
    <2>2. \A d \in Callers : InFlight(d) => run'[d] = run[d]
      BY <1>Reread, <1>facts DEF Reread, HandOut
    <2> QED
      BY <1>Reread, <2>1, <2>2, SameFlight DEF Reread
  <1>DatabaseFails. ASSUME NEW c \in Callers, DatabaseFails(c) /\ UNCHANGED <<pushed, answer>>
                    PROVE  Queued'
    <2>1. faults' # 0
      BY <1>DatabaseFails, <1>facts DEF DatabaseFails
    <2> QED
      BY <2>1 DEF Queued
  <1>Created. ASSUME NEW c \in Callers, Created(c) PROVE Queued'
    <2>1. \A d \in Callers : InFlight(d)' <=> InFlight(d)
      BY <1>Created, <1>facts DEF Created, HandOut
    <2>2. \A d \in Callers : InFlight(d) => run'[d] = run[d]
      BY <1>Created, <1>facts DEF Created, HandOut
    <2> QED
      BY <1>Created, <2>1, <2>2, SameFlight DEF Created
  <1>Replayed. ASSUME NEW c \in Callers, Replayed(c) PROVE Queued'
    <2>1. \A d \in Callers : InFlight(d)' <=> InFlight(d)
      BY <1>Replayed, <1>facts DEF Replayed, HandOut
    <2>2. \A d \in Callers : InFlight(d) => run'[d] = run[d]
      BY <1>Replayed, <1>facts DEF Replayed, HandOut
    <2> QED
      BY <1>Replayed, <2>1, <2>2, SameFlight DEF Replayed
  <1>Refused. ASSUME NEW c \in Callers, Refused(c) PROVE Queued'
    <2>1. \A d \in Callers : InFlight(d)' <=> InFlight(d)
      BY <1>Refused, <1>facts DEF Refused, HandOut
    <2>2. \A d \in Callers : InFlight(d) => run'[d] = run[d]
      BY <1>Refused, <1>facts DEF Refused, HandOut
    <2> QED
      BY <1>Refused, <2>1, <2>2, SameFlight DEF Refused
  <1>Rpush. ASSUME NEW c \in Callers, Rpush(c) PROVE Queued'
    <2> SUFFICES ASSUME faults = 0 PROVE Queued'
      BY <1>Rpush DEF Rpush, Queued
    <2>1. /\ at[c] = "push" /\ at' = [at EXCEPT ![c] = "answered"]
          /\ pushed' = [pushed EXCEPT ![run[c]] = pushed[run[c]] + 1]
          /\ UNCHANGED <<rows, next, run, faults>>
      BY <1>Rpush DEF Rpush, Push
    <2>2. run[c] \in Ids /\ run[c] < next /\ pushed[run[c]] = 0
      <3>1. run[c] # NoRun
        BY <2>1 DEF Holding, HoldsWell
      <3> QED
        BY <2>1, <3>1, Held DEF Queued, TypeOK, ServiceTypeOK
    <2>3. pushed'[run[c]] = 1 /\ \A id \in Ids : id # run[c] => pushed'[id] = pushed[id]
      BY <2>1, <2>2, <1>facts, CallersCount DEF Ids
    <2>4. \A d \in Callers : InFlight(d)' <=> InFlight(d) /\ d # c
      BY <2>1, <1>facts
    <2>5. \A d \in Callers : InFlight(d) /\ d # c => run[d] # run[c] /\ run[d] \in Ids
      BY <2>1, Functions, <1>held, CreateRunAssumption DEF CreatorsApart, TypeOK, ServiceTypeOK
    <2>6. \A id \in Ids : /\ pushed'[id] <= 1
                          /\ id >= next' => pushed'[id] = 0
      BY <2>1, <2>2, <2>3, <1>facts, CallersCount DEF Queued, Ids
    <2>7. \A d \in Callers : InFlight(d)' => pushed'[run'[d]] = 0
      BY <2>1, <2>3, <2>4, <2>5 DEF Queued
    <2>8. \A row \in rows' : \/ pushed'[row.id] = 1
                             \/ \E d \in Callers : InFlight(d)' /\ run'[d] = row.id
      <3> SUFFICES ASSUME NEW row \in rows, row.id # run[c]
                   PROVE  \/ pushed'[row.id] = 1
                          \/ \E d \in Callers : InFlight(d)' /\ run'[d] = row.id
        BY <2>1, <2>3
      <3>1. pushed'[row.id] = pushed[row.id]
        BY <2>3, RowIds
      <3>2. pushed[row.id] = 1 \/ \E d \in Callers : InFlight(d) /\ run[d] = row.id
        BY DEF Queued
      <3> QED
        BY <3>1, <3>2, <2>1, <2>4
    <2> QED
      BY <2>1, <2>6, <2>7, <2>8 DEF Queued
  <1>RpushBreaks. ASSUME NEW c \in Callers, RpushBreaks(c) PROVE Queued'
    <2>1. faults' # 0
      BY <1>RpushBreaks, <1>facts DEF RpushBreaks
    <2> QED
      BY <2>1 DEF Queued
  <1>Die. ASSUME NEW c \in Callers, Die(c) PROVE Queued'
    <2>1. faults' # 0
      BY <1>Die, <1>facts DEF Die
    <2> QED
      BY <2>1 DEF Queued
  <1>DeletePipeline. ASSUME DeletePipeline PROVE Queued'
    BY <1>DeletePipeline, SameFlight DEF DeletePipeline
  <1>stutter. ASSUME UNCHANGED vars PROVE Queued'
    BY <1>stutter, SameFlight DEF Queued
  <1> QED
    BY <1>CheckPipeline, <1>Lookup, <1>Insert, <1>Refresh, <1>Reread, <1>DatabaseFails,
       <1>Created, <1>Replayed, <1>Refused, <1>Rpush, <1>RpushBreaks, <1>Die,
       <1>DeletePipeline, <1>stutter DEF Next, Route, Call, ServiceStep, Quiet
-----------------------------------------------------------------------------
(* Races do no harm *)

\* Only a fault or the deletion of the pipeline leads a caller to an error.
LEMMA NobodyIsHarmed ==
    ASSUME TypeOK, RowsSound, Holding, Unharmed, NEW d \in Callers, faults' = 0, pipeline', [Next]_vars
    PROVE  UnharmedFor(d)'
  <1>facts. /\ at \in [Callers -> InService \cup Outcome \cup RouteLabel]
            /\ answer \in [Callers -> {0, 200, 201, 404, 409, 500}]
            /\ faults \in Nat
    BY Functions
  <1>unharmed. ASSUME NEW c \in Callers, faults = 0, pipeline PROVE UnharmedFor(c)
    BY <1>unharmed DEF Unharmed
  <1>CheckPipeline. ASSUME NEW c \in Callers, CheckPipeline(c) /\ UNCHANGED <<pushed, answer>>
                    PROVE  UnharmedFor(d)'
    <2>1. UnharmedFor(c) /\ UnharmedFor(d)
      BY <1>CheckPipeline, <1>unharmed DEF CheckPipeline
    <2> QED
      BY <1>CheckPipeline, <2>1, <1>facts DEF CheckPipeline, UnharmedFor, SameKey, HandOut
  <1>Lookup. ASSUME NEW c \in Callers, Lookup(c) /\ UNCHANGED <<pushed, answer>>
             PROVE  UnharmedFor(d)'
    <2>1. UnharmedFor(c) /\ UnharmedFor(d)
      BY <1>Lookup, <1>unharmed DEF Lookup
    <2> QED
      BY <1>Lookup, <2>1, <1>facts DEF Lookup, UnharmedFor, SameKey, HandOut
  <1>Insert. ASSUME NEW c \in Callers, Insert(c) /\ UNCHANGED <<pushed, answer>>
             PROVE  UnharmedFor(d)'
    <2>1. UnharmedFor(c) /\ UnharmedFor(d) /\ pipeline
      BY <1>Insert, <1>unharmed DEF Insert
    <2>2. CASE SameKey(c) = {}
      <3>1. rows \subseteq rows' /\ key' = key /\ answer' = answer /\ at' = [at EXCEPT ![c] = "refresh"]
        BY <1>Insert, <2>1, <2>2 DEF Insert, AddRow
      <3>2. SameKey(d) \subseteq SameKey(d)'
        BY <3>1 DEF SameKey
      <3> QED
        BY <2>1, <3>1, <3>2, <1>facts DEF UnharmedFor
    <2>3. CASE SameKey(c) # {}
      <3>1. key[c] # NoKey
        BY <2>3 DEF SameKey
      <3>2. rows' = rows /\ key' = key /\ answer' = answer /\ at' = [at EXCEPT ![c] = "reread"]
        BY <1>Insert, <2>3, <3>1 DEF Insert
      <3>3. SameKey(c)' = SameKey(c) /\ SameKey(d)' = SameKey(d)
        BY <3>2 DEF SameKey
      <3>4. CASE d = c
        BY <3>4, <2>1, <2>3, <3>2, <3>3, <1>facts DEF UnharmedFor
      <3>5. CASE d # c
        BY <3>5, <2>1, <3>2, <3>3, <1>facts DEF UnharmedFor
      <3> QED
        BY <3>4, <3>5
    <2> QED
      BY <2>2, <2>3
  <1>Refresh. ASSUME NEW c \in Callers, Refresh(c) /\ UNCHANGED <<pushed, answer>>
              PROVE  UnharmedFor(d)'
    <2>1. UnharmedFor(d) /\ pipeline
      BY <1>Refresh, <1>unharmed DEF Refresh
    <2>2. \E row \in rows : row.id = run[c]
      <3>1. run[c] # NoRun
        BY <1>Refresh DEF Refresh, Holding, HoldsWell
      <3> QED
        BY <2>1, <3>1, Held
    <2> QED
      BY <1>Refresh, <2>1, <2>2, <1>facts DEF Refresh, UnharmedFor, SameKey
  <1>Reread. ASSUME NEW c \in Callers, Reread(c) /\ UNCHANGED <<pushed, answer>>
             PROVE  UnharmedFor(d)'
    <2>1. UnharmedFor(c) /\ UnharmedFor(d)
      BY <1>Reread, <1>unharmed DEF Reread
    <2> QED
      BY <1>Reread, <2>1, <1>facts DEF Reread, UnharmedFor, SameKey, HandOut
  <1>DatabaseFails. ASSUME NEW c \in Callers, DatabaseFails(c) /\ UNCHANGED <<pushed, answer>>
                    PROVE  UnharmedFor(d)'
    <2>1. faults' # 0
      BY <1>DatabaseFails, <1>facts DEF DatabaseFails
    <2> QED
      BY <2>1
  <1>Created. ASSUME NEW c \in Callers, Created(c) PROVE UnharmedFor(d)'
    <2>1. UnharmedFor(c) /\ UnharmedFor(d)
      BY <1>Created, <1>unharmed DEF Created
    <2> QED
      BY <1>Created, <2>1, <1>facts DEF Created, UnharmedFor, SameKey, HandOut
  <1>Replayed. ASSUME NEW c \in Callers, Replayed(c) PROVE UnharmedFor(d)'
    <2>1. UnharmedFor(c) /\ UnharmedFor(d)
      BY <1>Replayed, <1>unharmed DEF Replayed
    <2> QED
      BY <1>Replayed, <2>1, <1>facts DEF Replayed, UnharmedFor, SameKey, HandOut
  <1>Refused. ASSUME NEW c \in Callers, Refused(c) PROVE UnharmedFor(d)'
    <2>1. UnharmedFor(c) /\ UnharmedFor(d)
      BY <1>Refused, <1>unharmed DEF Refused
    <2> QED
      BY <1>Refused, <2>1, <1>facts DEF Refused, UnharmedFor, SameKey, HandOut
  <1>Rpush. ASSUME NEW c \in Callers, Rpush(c) PROVE UnharmedFor(d)'
    <2>1. UnharmedFor(c) /\ UnharmedFor(d)
      BY <1>Rpush, <1>unharmed DEF Rpush
    <2> QED
      BY <1>Rpush, <2>1, <1>facts DEF Rpush, UnharmedFor, SameKey, HandOut
  <1>RpushBreaks. ASSUME NEW c \in Callers, RpushBreaks(c) PROVE UnharmedFor(d)'
    <2>1. faults' # 0
      BY <1>RpushBreaks, <1>facts DEF RpushBreaks
    <2> QED
      BY <2>1
  <1>Die. ASSUME NEW c \in Callers, Die(c) PROVE UnharmedFor(d)'
    <2>1. faults' # 0
      BY <1>Die, <1>facts DEF Die
    <2> QED
      BY <2>1
  <1>DeletePipeline. ASSUME DeletePipeline PROVE UnharmedFor(d)'
    BY <1>DeletePipeline DEF DeletePipeline
  <1>stutter. ASSUME UNCHANGED vars PROVE UnharmedFor(d)'
    BY <1>stutter, <1>unharmed DEF UnharmedFor, SameKey
  <1> QED
    BY <1>CheckPipeline, <1>Lookup, <1>Insert, <1>Refresh, <1>Reread, <1>DatabaseFails,
       <1>Created, <1>Replayed, <1>Refused, <1>Rpush, <1>RpushBreaks, <1>Die,
       <1>DeletePipeline, <1>stutter DEF Next, Route, Call, ServiceStep, Quiet

-----------------------------------------------------------------------------
(* The invariant, and what follows from it *)

\* The invariant holds at the start.
LEMMA InitInvariant == Init => IInv
  <1> SUFFICES ASSUME Init PROVE IInv
    OBVIOUS
  <1> USE CreateRunAssumption DEF Init, ServiceInit
  <1>1. TypeOK
    BY CallersCount DEF TypeOK, ServiceTypeOK, InService, RouteLabel, Ids
  <1>2. IdsBounded
    BY CallersCount DEF IdsBounded
  <1>3. RowsSound /\ Holding /\ HoldersAgree /\ CreatorsApart
    BY DEF RowsSound, Holding, HoldsWell, HoldersAgree, CreatorsApart
  <1>4. Queued /\ Unharmed
    BY DEF Queued, Unharmed, UnharmedFor
  <1> QED
    BY <1>1, <1>2, <1>3, <1>4 DEF IInv

\* Every step keeps the invariant.
LEMMA NextInvariant == IInv /\ [Next]_vars => IInv'
  <1> SUFFICES ASSUME IInv, [Next]_vars PROVE IInv'
    OBVIOUS
  <1>1. TypeOK' /\ IdsBounded'
    BY NextTypes, IdsStayBounded DEF IInv
  <1>2. RowsSound' /\ HoldersAgree' /\ CreatorsApart' /\ Queued'
    BY RowsStaySound, HoldersStillAgree, CreatorsStayApart, RunsStayQueued DEF IInv
  <1>3. Holding'
    BY HoldersStayWell DEF IInv, Holding
  <1>4. Unharmed'
    BY NobodyIsHarmed DEF IInv, Unharmed
  <1> QED
    BY <1>1, <1>2, <1>3, <1>4 DEF IInv

\* The invariant holds in every reachable state.
LEMMA Invariance == Spec => []IInv
  BY InitInvariant, NextInvariant, PTL DEF Spec

\* The properties are cases of the invariant.
LEMMA Consequences ==
    IInv => TypeOK /\ SameKeySameRun /\ OneCreator /\ QueuedOnce /\ RaceIsInvisible
  <1> SUFFICES ASSUME IInv
               PROVE  TypeOK /\ SameKeySameRun /\ OneCreator /\ QueuedOnce /\ RaceIsInvisible
    OBVIOUS
  <1>1. \A c \in Callers : Got(c) => run[c] # NoRun
    BY DEF IInv, Holding, HoldsWell
  <1>2. SameKeySameRun
    BY <1>1 DEF IInv, HoldersAgree, SameKeySameRun
  <1>3. OneCreator
    BY <1>1 DEF IInv, HoldersAgree, CreatorsApart, OneCreator
  <1>4. QueuedOnce
    BY DEF IInv, Queued, QueuedOnce, AllOver
  <1>5. RaceIsInvisible
    BY DEF IInv, Unharmed, UnharmedFor, RaceIsInvisible
  <1> QED
    BY <1>2, <1>3, <1>4, <1>5 DEF IInv

\* The service and its route stay well typed; in particular the id sequence
\* never goes beyond the number of requests.
THEOREM SubmissionTypes == Spec => []TypeOK
  BY Invariance, Consequences, PTL

\* Requests with one idempotency key that succeed are given the same run, also
\* when the pipeline is deleted under them.
THEOREM SameKeySameRunAlways == Spec => []SameKeySameRun
  BY Invariance, Consequences, PTL

\* A run has one request that was told it created it.
THEOREM OneCreatorAlways == Spec => []OneCreator
  BY Invariance, Consequences, PTL

\* Without a fault each run is pushed to the list once.
THEOREM QueuedOnceAlways == Spec => []QueuedOnce
  BY Invariance, Consequences, PTL

\* Without a fault and a deletion the race is invisible to the callers.
THEOREM RaceIsInvisibleAlways == Spec => []RaceIsInvisible
  BY Invariance, Consequences, PTL

-----------------------------------------------------------------------------
(* Refinement *)

\* OutcomeOf, by the label alone while there is no answer.
Phase(c) ==
    IF at[c] \in {"check", "lookup", "insert", "reread"} THEN "pending"
    ELSE IF at[c] \in {"refresh", "created", "push"} THEN "created"
    ELSE IF at[c] = "replayed" THEN "replayed"
    ELSE IF answer[c] = 201 THEN "created"
    ELSE IF answer[c] = 200 THEN "replayed"
    ELSE "failed"

\* The cases of OutcomeOf exclude each other: an answer is only there at the
\* end of a request.
LEMMA OutcomePhase == TypeOK /\ Holding => \A c \in Callers : OutcomeOf(c) = Phase(c)
  <1> SUFFICES ASSUME TypeOK, Holding, NEW c \in Callers PROVE OutcomeOf(c) = Phase(c)
    OBVIOUS
  <1>1. at[c] # "answered" => answer[c] = 0
    BY DEF Holding, HoldsWell
  <1>2. CASE at[c] \in {"check", "lookup", "insert", "reread"}
    BY <1>1, <1>2 DEF OutcomeOf, Phase, InService
  <1>3. CASE at[c] \in {"refresh", "created", "push"}
    BY <1>1, <1>3 DEF OutcomeOf, Phase, InService
  <1>4. CASE at[c] = "replayed"
    BY <1>1, <1>4 DEF OutcomeOf, Phase, InService
  <1>5. CASE at[c] = "answered" \/ at[c] \in {"missing", "integrity", "dberror", "gone"}
    BY <1>1, <1>5 DEF OutcomeOf, Phase, InService
  <1> QED
    BY <1>2, <1>3, <1>4, <1>5, Functions DEF InService, Outcome, RouteLabel

\* What a request's step is to AtomicSubmit.
Only(c) == \A d \in Callers : d # c => Phase(d)' = Phase(d)

Stays(c) == /\ Only(c) /\ Phase(c)' = Phase(c)
            /\ UNCHANGED <<rows, next, key, run>>

Loses(c) == /\ Only(c) /\ Phase(c) # "failed" /\ Phase(c)' = "failed"
            /\ run'[c] = NoRun /\ \A d \in Callers : d # c => run'[d] = run[d]
            /\ UNCHANGED <<rows, next, key>>

Creates(c) == Only(c) /\ Phase(c) = "pending" /\ Phase(c)' = "created" /\ Grants(c)

Replays(c) == Only(c) /\ Phase(c) = "pending" /\ Phase(c)' = "replayed" /\ HandsOut(c)

AtomicStep == \/ \E c \in Callers : Stays(c) \/ Loses(c) \/ Creates(c) \/ Replays(c)
              \/ DeletePipeline
              \/ UNCHANGED vars

\* Every step is one of these.
LEMMA EveryStepIsAtomic ==
    ASSUME TypeOK, Holding, [Next]_vars
    PROVE  AtomicStep
  <1>facts. /\ at \in [Callers -> InService \cup Outcome \cup RouteLabel]
            /\ answer \in [Callers -> {0, 200, 201, 404, 409, 500}]
            /\ run \in [Callers -> Nat \cup {NoRun}]
            /\ \A c \in Callers : at[c] \notin WithRun \cup {"answered"} => run[c] = NoRun
            /\ \A c \in Callers : at[c] # "answered" => answer[c] = 0
    BY Functions, Fields DEF Holding, HoldsWell
  <1>CheckPipeline. ASSUME NEW c \in Callers, CheckPipeline(c) /\ UNCHANGED <<pushed, answer>>
                    PROVE  AtomicStep
    <2>1. CASE pipeline
      <3>a. Only(c)
        BY <1>CheckPipeline, <2>1, <1>facts DEF CheckPipeline, Only, Phase
      <3>b. Phase(c)' = Phase(c) /\ UNCHANGED <<rows, next, key, run>>
        BY <1>CheckPipeline, <2>1, <1>facts DEF CheckPipeline, Phase
      <3> QED
        BY <3>a, <3>b DEF AtomicStep, Stays
    <2>2. CASE ~(pipeline)
      <3>a. Only(c)
        BY <1>CheckPipeline, <2>2, <1>facts DEF CheckPipeline, Only, Phase
      <3>b. Phase(c) # "failed" /\ Phase(c)' = "failed" /\ UNCHANGED <<rows, next, key>>
        BY <1>CheckPipeline, <2>2, <1>facts DEF CheckPipeline, Phase
      <3>c. run'[c] = NoRun /\ \A d \in Callers : d # c => run'[d] = run[d]
        BY <1>CheckPipeline, <2>2, <1>facts DEF CheckPipeline
      <3> QED
        BY <3>a, <3>b, <3>c DEF AtomicStep, Loses
    <2> QED
      BY <2>1, <2>2
  <1>Lookup. ASSUME NEW c \in Callers, Lookup(c) /\ UNCHANGED <<pushed, answer>>
             PROVE  AtomicStep
    <2>1. CASE HandsOut(c)
      <3>a. Only(c)
        BY <1>Lookup, <2>1, <1>facts DEF Lookup, Only, Phase, HandsOut, HandOut
      <3>b. Phase(c) = "pending" /\ Phase(c)' = "replayed"
        BY <1>Lookup, <2>1, <1>facts DEF Lookup, Phase, HandsOut, HandOut
      <3> QED
        BY <3>a, <3>b, <2>1 DEF AtomicStep, Replays
    <2>2. CASE ~(HandsOut(c))
      <3>a. Only(c)
        BY <1>Lookup, <2>2, <1>facts DEF Lookup, Only, Phase, HandsOut, HandOut
      <3>b. Phase(c)' = Phase(c) /\ UNCHANGED <<rows, next, key, run>>
        BY <1>Lookup, <2>2, <1>facts DEF Lookup, Phase, HandsOut, HandOut
      <3> QED
        BY <3>a, <3>b DEF AtomicStep, Stays
    <2> QED
      BY <2>1, <2>2
  <1>Insert. ASSUME NEW c \in Callers, Insert(c) /\ UNCHANGED <<pushed, answer>>
             PROVE  AtomicStep
    <2>1. CASE Grants(c)
      <3>1. Creates(c)
        BY <2>1, <1>facts DEF Grants, AddRow, Creates, Only, Phase
      <3> QED
        BY <3>1 DEF AtomicStep
    <2>2. CASE ~(pipeline /\ SameKey(c) = {})
      <3>1. CASE key[c] = NoKey
        <4>a. Only(c)
          BY <1>Insert, <2>2, <3>1, <1>facts DEF Insert, Only, Phase
        <4>b. Phase(c) # "failed" /\ Phase(c)' = "failed" /\ UNCHANGED <<rows, next, key>>
          BY <1>Insert, <2>2, <3>1, <1>facts DEF Insert, Phase
        <4>c. run'[c] = NoRun /\ \A d \in Callers : d # c => run'[d] = run[d]
          BY <1>Insert, <2>2, <3>1, <1>facts DEF Insert
        <4> QED
          BY <4>a, <4>b, <4>c DEF AtomicStep, Loses
      <3>2. CASE ~(key[c] = NoKey)
        <4>a. Only(c)
          BY <1>Insert, <2>2, <3>2, <1>facts DEF Insert, Only, Phase
        <4>b. Phase(c)' = Phase(c) /\ UNCHANGED <<rows, next, key, run>>
          BY <1>Insert, <2>2, <3>2, <1>facts DEF Insert, Phase
        <4> QED
          BY <4>a, <4>b DEF AtomicStep, Stays
      <3> QED
        BY <3>1, <3>2
    <2> QED
      BY <1>Insert, <2>1, <2>2 DEF Insert, Grants
  <1>Refresh. ASSUME NEW c \in Callers, Refresh(c) /\ UNCHANGED <<pushed, answer>>
              PROVE  AtomicStep
    <2>1. CASE \E row \in rows : row.id = run[c]
      <3>a. Only(c)
        BY <1>Refresh, <2>1, <1>facts DEF Refresh, Only, Phase
      <3>b. Phase(c)' = Phase(c) /\ UNCHANGED <<rows, next, key, run>>
        BY <1>Refresh, <2>1, <1>facts DEF Refresh, Phase
      <3> QED
        BY <3>a, <3>b DEF AtomicStep, Stays
    <2>2. CASE ~(\E row \in rows : row.id = run[c])
      <3>a. Only(c)
        BY <1>Refresh, <2>2, <1>facts DEF Refresh, Only, Phase
      <3>b. Phase(c) # "failed" /\ Phase(c)' = "failed" /\ UNCHANGED <<rows, next, key>>
        BY <1>Refresh, <2>2, <1>facts DEF Refresh, Phase
      <3>c. run'[c] = NoRun /\ \A d \in Callers : d # c => run'[d] = run[d]
        BY <1>Refresh, <2>2, <1>facts DEF Refresh
      <3> QED
        BY <3>a, <3>b, <3>c DEF AtomicStep, Loses
    <2> QED
      BY <2>1, <2>2
  <1>Reread. ASSUME NEW c \in Callers, Reread(c) /\ UNCHANGED <<pushed, answer>>
             PROVE  AtomicStep
    <2>1. CASE HandsOut(c)
      <3>a. Only(c)
        BY <1>Reread, <2>1, <1>facts DEF Reread, Only, Phase, HandsOut, HandOut
      <3>b. Phase(c) = "pending" /\ Phase(c)' = "replayed"
        BY <1>Reread, <2>1, <1>facts DEF Reread, Phase, HandsOut, HandOut
      <3> QED
        BY <3>a, <3>b, <2>1 DEF AtomicStep, Replays
    <2>2. CASE ~(HandsOut(c))
      <3>a. Only(c)
        BY <1>Reread, <2>2, <1>facts DEF Reread, Only, Phase, HandsOut, HandOut
      <3>b. Phase(c) # "failed" /\ Phase(c)' = "failed" /\ UNCHANGED <<rows, next, key>>
        BY <1>Reread, <2>2, <1>facts DEF Reread, Phase, HandsOut, HandOut
      <3>c. run'[c] = NoRun /\ \A d \in Callers : d # c => run'[d] = run[d]
        BY <1>Reread, <2>2, <1>facts DEF Reread, HandsOut, HandOut
      <3> QED
        BY <3>a, <3>b, <3>c DEF AtomicStep, Loses
    <2> QED
      BY <2>1, <2>2
  <1>DatabaseFails. ASSUME NEW c \in Callers, DatabaseFails(c) /\ UNCHANGED <<pushed, answer>>
                    PROVE  AtomicStep
    <2>a. Only(c)
      BY <1>DatabaseFails, <1>facts DEF DatabaseFails, Only, Phase, InService
    <2>b. Phase(c) # "failed" /\ Phase(c)' = "failed" /\ UNCHANGED <<rows, next, key>>
      BY <1>DatabaseFails, <1>facts DEF DatabaseFails, Phase, InService
    <2>c. run'[c] = NoRun /\ \A d \in Callers : d # c => run'[d] = run[d]
      BY <1>DatabaseFails, <1>facts DEF DatabaseFails, InService
    <2> QED
      BY <2>a, <2>b, <2>c DEF AtomicStep, Loses
  <1>Created. ASSUME NEW c \in Callers, Created(c) PROVE AtomicStep
    <2>a. Only(c)
      BY <1>Created, <1>facts DEF Created, Only, Phase
    <2>b. Phase(c)' = Phase(c) /\ UNCHANGED <<rows, next, key, run>>
      BY <1>Created, <1>facts DEF Created, Phase
    <2> QED
      BY <2>a, <2>b DEF AtomicStep, Stays
  <1>Replayed. ASSUME NEW c \in Callers, Replayed(c) PROVE AtomicStep
    <2>a. Only(c)
      BY <1>Replayed, <1>facts DEF Replayed, Only, Phase
    <2>b. Phase(c)' = Phase(c) /\ UNCHANGED <<rows, next, key, run>>
      BY <1>Replayed, <1>facts DEF Replayed, Phase
    <2> QED
      BY <2>a, <2>b DEF AtomicStep, Stays
  <1>Refused. ASSUME NEW c \in Callers, Refused(c) PROVE AtomicStep
    <2>a. Only(c)
      BY <1>Refused, <1>facts DEF Refused, Only, Phase
    <2>b. Phase(c)' = Phase(c) /\ UNCHANGED <<rows, next, key, run>>
      BY <1>Refused, <1>facts DEF Refused, Phase
    <2> QED
      BY <2>a, <2>b DEF AtomicStep, Stays
  <1>Rpush. ASSUME NEW c \in Callers, Rpush(c) PROVE AtomicStep
    <2>a. Only(c)
      BY <1>Rpush, <1>facts DEF Rpush, Only, Phase
    <2>b. Phase(c)' = Phase(c) /\ UNCHANGED <<rows, next, key, run>>
      BY <1>Rpush, <1>facts DEF Rpush, Phase
    <2> QED
      BY <2>a, <2>b DEF AtomicStep, Stays
  <1>RpushBreaks. ASSUME NEW c \in Callers, RpushBreaks(c) PROVE AtomicStep
    <2>1. CASE run' = run /\ answer'[c] = 201
      <3>a. Only(c)
        BY <1>RpushBreaks, <2>1, <1>facts DEF RpushBreaks, Only, Phase
      <3>b. Phase(c)' = Phase(c) /\ UNCHANGED <<rows, next, key, run>>
        BY <1>RpushBreaks, <2>1, <1>facts DEF RpushBreaks, Phase
      <3> QED
        BY <3>a, <3>b DEF AtomicStep, Stays
    <2>2. CASE ~(run' = run /\ answer'[c] = 201)
      <3>a. Only(c)
        BY <1>RpushBreaks, <2>2, <1>facts DEF RpushBreaks, Only, Phase
      <3>b. Phase(c) # "failed" /\ Phase(c)' = "failed" /\ UNCHANGED <<rows, next, key>>
        BY <1>RpushBreaks, <2>2, <1>facts DEF RpushBreaks, Phase
      <3>c. run'[c] = NoRun /\ \A d \in Callers : d # c => run'[d] = run[d]
        BY <1>RpushBreaks, <2>2, <1>facts DEF RpushBreaks
      <3> QED
        BY <3>a, <3>b, <3>c DEF AtomicStep, Loses
    <2> QED
      BY <2>1, <2>2
  <1>Die. ASSUME NEW c \in Callers, Die(c) PROVE AtomicStep
    <2>1. CASE at[c] \in {"missing", "integrity", "dberror"}
      <3>a. Only(c)
        BY <1>Die, <2>1, <1>facts DEF Die, Only, Phase, InService, Outcome, RouteLabel
      <3>b. Phase(c)' = Phase(c) /\ UNCHANGED <<rows, next, key, run>>
        BY <1>Die, <2>1, <1>facts DEF Die, Phase, InService, Outcome, RouteLabel
      <3> QED
        BY <3>a, <3>b DEF AtomicStep, Stays
    <2>2. CASE ~(at[c] \in {"missing", "integrity", "dberror"})
      <3>a. Only(c)
        BY <1>Die, <2>2, <1>facts DEF Die, Only, Phase, InService, Outcome, RouteLabel
      <3>b. Phase(c) # "failed" /\ Phase(c)' = "failed" /\ UNCHANGED <<rows, next, key>>
        BY <1>Die, <2>2, <1>facts DEF Die, Phase, InService, Outcome, RouteLabel
      <3>c. run'[c] = NoRun /\ \A d \in Callers : d # c => run'[d] = run[d]
        BY <1>Die, <2>2, <1>facts DEF Die, InService, Outcome, RouteLabel
      <3> QED
        BY <3>a, <3>b, <3>c DEF AtomicStep, Loses
    <2> QED
      BY <2>1, <2>2
  <1>DeletePipeline. ASSUME DeletePipeline PROVE AtomicStep
    BY <1>DeletePipeline DEF AtomicStep
  <1>stutter. ASSUME UNCHANGED vars PROVE AtomicStep
    BY <1>stutter DEF AtomicStep
  <1> QED
    BY <1>CheckPipeline, <1>Lookup, <1>Insert, <1>Refresh, <1>Reread, <1>DatabaseFails,
       <1>Created, <1>Replayed, <1>Refused, <1>Rpush, <1>RpushBreaks, <1>Die,
       <1>DeletePipeline, <1>stutter DEF Next, Route, Call, ServiceStep, Quiet

\* The outcomes AtomicSubmit sees.
Outcomes == [c \in Callers |-> OutcomeOf(c)]

\* Under the invariant every step is a step of AtomicSubmit, or none.
LEMMA AtomicNext == IInv /\ IInv' /\ [Next]_vars => [Atomic!Next]_(Atomic!vars)
  <1> SUFFICES ASSUME IInv, IInv', [Next]_vars
               PROVE  Atomic!Next \/ UNCHANGED <<rows, next, key, Outcomes, run>>
    BY DEF Atomic!vars, Outcomes
  <1>phase. \A c \in Callers : OutcomeOf(c) = Phase(c)
    BY OutcomePhase DEF IInv
  <1>phase2. \A c \in Callers : OutcomeOf(c)' = Phase(c)'
    <2>1. (TypeOK /\ Holding => \A c \in Callers : OutcomeOf(c) = Phase(c))'
      BY OutcomePhase, PTL
    <2> QED
      BY <2>1 DEF IInv
  <1>runs. run \in [Callers -> Ids \cup {NoRun}] /\ run' \in [Callers -> Ids \cup {NoRun}]
    BY DEF IInv, TypeOK, ServiceTypeOK, Ids, MaxRuns
  <1>finish. ASSUME NEW c \in Callers, NEW o, Only(c), Phase(c)' = o
             PROVE  Outcomes' = [Outcomes EXCEPT ![c] = o]
    BY <1>finish, <1>phase, <1>phase2 DEF Outcomes, Only
  <1>Stays. ASSUME NEW c \in Callers, Stays(c)
            PROVE  UNCHANGED <<rows, next, key, Outcomes, run>>
    <2>1. \A d \in Callers : OutcomeOf(d)' = OutcomeOf(d)
      BY <1>Stays, <1>phase, <1>phase2 DEF Stays, Only
    <2> QED
      BY <2>1, <1>Stays DEF Stays, Outcomes
  <1>Loses. ASSUME NEW c \in Callers, Loses(c) PROVE Atomic!FailAlone(c)
    <2>1. Outcomes' = [Outcomes EXCEPT ![c] = "failed"]
      BY <1>Loses, <1>finish DEF Loses
    <2>2. Outcomes[c] \in {"pending", "created", "replayed"}
      BY <1>Loses, <1>phase DEF Loses, Outcomes, Phase
    <2>3. run' = [run EXCEPT ![c] = NoRun]
      BY <1>Loses, <1>runs DEF Loses
    <2> QED
      BY <2>1, <2>2, <2>3, <1>Loses DEF Loses, Outcomes, Atomic!FailAlone, Atomic!Finish
  <1>Creates. ASSUME NEW c \in Callers, Creates(c) PROVE Atomic!CreateAlone(c)
    <2>1. Outcomes' = [Outcomes EXCEPT ![c] = "created"]
      BY <1>Creates, <1>finish DEF Creates
    <2>2. Outcomes[c] = "pending"
      BY <1>Creates, <1>phase DEF Creates, Outcomes
    <2> QED
      BY <2>1, <2>2, <1>Creates
      DEF Creates, Grants, AddRow, SameKey, Outcomes, Atomic!CreateAlone, Atomic!Finish, Atomic!SameKey
  <1>Replays. ASSUME NEW c \in Callers, Replays(c) PROVE Atomic!ReplayAlone(c)
    <2>1. Outcomes' = [Outcomes EXCEPT ![c] = "replayed"]
      BY <1>Replays, <1>finish DEF Replays
    <2>2. Outcomes[c] = "pending"
      BY <1>Replays, <1>phase DEF Replays, Outcomes
    <2> QED
      BY <2>1, <2>2, <1>Replays
      DEF Replays, HandsOut, HandOut, SameKey, Outcomes, Atomic!ReplayAlone, Atomic!Finish, Atomic!SameKey
  <1>DeletePipeline. ASSUME DeletePipeline PROVE Atomic!RunsDeleted
    <2>1. \A c \in Callers : OutcomeOf(c)' = OutcomeOf(c)
      BY <1>DeletePipeline DEF DeletePipeline, OutcomeOf
    <2> QED
      BY <2>1, <1>DeletePipeline DEF DeletePipeline, Atomic!RunsDeleted
  <1>stutter. ASSUME UNCHANGED vars PROVE UNCHANGED <<rows, next, key, Outcomes, run>>
    BY <1>stutter DEF Outcomes, OutcomeOf
  <1> QED
    <2>1. AtomicStep
      BY EveryStepIsAtomic DEF IInv
    <2> QED
      BY <2>1, <1>Stays, <1>Loses, <1>Creates, <1>Replays, <1>DeletePipeline, <1>stutter
      DEF AtomicStep, Atomic!Next

\* However the statements of the requests interleave, each request creates its
\* run, is handed one, or fails, in one step.
THEOREM ActsAtomicallyAlways == Spec => ActsAtomically
  <1>1. Init => Atomic!Init
    <2> SUFFICES ASSUME Init PROVE Atomic!Init
      OBVIOUS
    <2>1. \A c \in Callers : OutcomeOf(c) = "pending"
      BY DEF Init, ServiceInit, OutcomeOf, InService
    <2> QED
      BY <2>1 DEF Init, ServiceInit, Atomic!Init
  <1>2. IInv /\ IInv' /\ [Next]_vars => [Atomic!Next]_(Atomic!vars)
    BY AtomicNext
  <1> QED
    BY <1>1, <1>2, Invariance, PTL DEF Spec, ActsAtomically, Atomic!Spec
=============================================================================
