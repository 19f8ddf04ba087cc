-------------------------- MODULE MigrationsProofs --------------------------
(***************************************************************************)
(* The schema is sound and no migration fails, for every set of migrators, *)
(* of targets and of filled tables and every number of crashes.            *)
(***************************************************************************)
EXTENDS MigrationSteps, TLAPS

-----------------------------------------------------------------------------
(* Versions and statements *)

\* The versions are counted by naturals.
LEMMA NewestIsNat == Newest \in Nat
  BY DEF Newest, Revisions

\* A transaction runs a revision that fits, towards a version there is; unless
\* that one is asked for, the next revision leads on towards it.
LEMMA TowardFacts ==
    ASSUME NEW r, Underway(r)
    PROVE  /\ r.now # r.to /\ Fits(r.now, r.to)
           /\ Toward(r.now, r.to) \in 0..Newest
           /\ Toward(r.now, r.to) # r.to =>
                /\ Fits(Toward(r.now, r.to), r.to)
                /\ r.from < r.to => r.from <= Toward(r.now, r.to) /\ Toward(r.now, r.to) < r.to
                /\ r.from >= r.to => r.to < Toward(r.now, r.to) /\ Toward(r.now, r.to) <= r.from
  <1>1. r.now # r.to /\ r.now \in 0..Newest /\ r.to \in 0..Newest
    BY NewestIsNat DEF Underway
  <1>2. /\ Toward(r.now, r.to) \in 0..Newest
        /\ Toward(r.now, r.to) # r.to =>
             /\ r.from < r.to => r.from <= Toward(r.now, r.to) /\ Toward(r.now, r.to) < r.to
             /\ r.from >= r.to => r.to < Toward(r.now, r.to) /\ Toward(r.now, r.to) <= r.from
    BY NewestIsNat DEF Underway, Toward
  <1> QED
    BY <1>1, <1>2, StepsAssumption

\* With fewer rows, and with the extension there, a statement is no harder to
\* accept.
LEMMA AcceptsMore ==
    ASSUME NEW s, NEW S, NEW R, NEW Q, R \subseteq Q, NEW e, NEW f, e => f, Accepts(s, S, e, Q)
    PROVE  Accepts(s, S, f, R)
  BY DEF Accepts

\* The tables of the version a transaction started from are among those that
\* may have rows while it runs.
LEMMA RowsAreAllowed ==
    ASSUME NEW r, Underway(r)
    PROVE  DOMAIN SchemaOf(r.from) \subseteq MayHaveRows(r.now, r.to)
  <1>1. r.from \in 0..Newest /\ r.now \in 0..Newest /\ Newest \in 0..Newest
    BY NewestIsNat DEF Underway
  <1>2. CASE r.to > r.now
    <2>1. r.from \in 0..r.now
      BY <1>2, <1>1, NewestIsNat DEF Underway
    <2> QED
      BY <1>2, <2>1, <1>1, SchemasAssumption DEF MayHaveRows, WellFormed
  <1>3. CASE ~(r.to > r.now)
    BY <1>3, <1>1, SchemasAssumption DEF MayHaveRows, WellFormed
  <1> QED
    BY <1>2, <1>3

\* Before its first statement nothing of a revision is done.
LEMMA AtTheStart ==
    ASSUME NEW v, NEW to, Fits(v, to), NEW ext \in BOOLEAN
    PROVE  PartDone(v, to, 0, Script(v, to), SchemaOf(v), ext)
  BY DEF Fits, PartDone, Vector

\* The next statement is accepted, and one more is done.
LEMMA OneMore ==
    ASSUME NEW v, NEW to, Fits(v, to), NEW k, NEW todo, NEW S, NEW ext, PartDone(v, to, k, todo, S, ext), todo # <<>>
    PROVE  /\ Accepts(Head(todo), S, ext, MayHaveRows(v, to))
           /\ k + 1 \in 0..Len(Script(v, to))
           /\ PartDone(v, to, k + 1, Tail(todo), Run(Head(todo), S), ext \/ Head(todo).op = "create_extension")
  <1> DEFINE script == Script(v, to)
             T == {script[i] : i \in 1..Len(script)}
  <1>1. /\ script \in Seq(T) /\ k \in 0..Len(script) /\ todo \in Seq(T) /\ Len(todo) = Len(script) - k
        /\ \A i \in 1..Len(todo) : todo[i] = script[k + i]
        /\ S = Path(v, to)[k] /\ ext \in BOOLEAN /\ (Vector(v, to, k) => ext)
    BY DEF Fits, PartDone
  <1> HIDE DEF T
  <1>2. Len(script) \in Nat /\ Len(todo) \in Nat /\ Len(todo) > 0
    BY <1>1
  <1>3. k + 1 \in 1..Len(script) /\ (k + 1) - 1 = k /\ Head(todo) = script[k + 1]
    BY <1>1, <1>2
  <1>4. /\ Accepts(script[k + 1], Path(v, to)[(k + 1) - 1], Vector(v, to, (k + 1) - 1), MayHaveRows(v, to))
        /\ Path(v, to)[k + 1] = Run(script[k + 1], Path(v, to)[(k + 1) - 1])
    BY <1>3 DEF Fits
  <1>5. Accepts(Head(todo), S, ext, MayHaveRows(v, to))
    BY <1>1, <1>3, <1>4, AcceptsMore
  <1>6. Run(Head(todo), S) = Path(v, to)[k + 1]
    BY <1>1, <1>3, <1>4
  <1>7. /\ Tail(todo) \in Seq(T) /\ Len(Tail(todo)) = Len(script) - (k + 1)
        /\ \A i \in 1..Len(Tail(todo)) : Tail(todo)[i] = script[(k + 1) + i]
    BY <1>1, <1>2
  <1>8. Vector(v, to, k + 1) => ext \/ Head(todo).op = "create_extension"
    BY <1>1, <1>2, <1>3 DEF Vector
  <1> QED
    BY <1>1, <1>2, <1>3, <1>5, <1>6, <1>7, <1>8 DEF PartDone, T

\* When nothing is left to do the schema is that of the next version.
LEMMA AtTheEnd ==
    ASSUME NEW v, NEW to, Fits(v, to), NEW k, NEW S, NEW ext, PartDone(v, to, k, <<>>, S, ext)
    PROVE  S = SchemaOf(Toward(v, to))
  <1>1. Len(Script(v, to)) \in Nat /\ k \in 0..Len(Script(v, to)) /\ Len(Script(v, to)) - k = 0
    BY DEF Fits, PartDone
  <1>2. k = Len(Script(v, to))
    BY <1>1
  <1> QED
    BY <1>2 DEF Fits, PartDone

-----------------------------------------------------------------------------
(* The steps *)

\* Nobody else holds a lock.
Alone(m) == \A n \in Migrators \ {m} : mig[n].locked = {}

\* The invariant is kept by a step of one migrator that leaves the committed
\* schema to be that of a version, and changes the version only while nobody
\* else holds a lock.
LEMMA Kept ==
    ASSUME IInv, NEW m \in Migrators, Placed(mig[m])', mig'[m].locked = {} \/ Alone(m),
           DOMAIN mig' = Migrators, \A n \in Migrators \ {m} : mig'[n] = mig[n],
           vector' \in BOOLEAN, version' \in 0..Newest, crashes' \in 0..MaxCrashes,
           rows' \subseteq Filled \cap DOMAIN tables', tables' = SchemaOf(version'),
           version' = version \/ Alone(m)
    PROVE  IInv'
  <1>1. \A n \in Migrators : Placed(mig[n])'
    <2> SUFFICES ASSUME NEW n \in Migrators \ {m}
                 PROVE  Placed(mig[n])'
      OBVIOUS
    <2>1. Placed(mig[n]) /\ mig'[n] = mig[n] /\ (version' = version \/ mig[n].locked = {})
      BY DEF IInv, Alone
    <2> QED
      BY <2>1 DEF Placed, Transaction
  <1>2. \A a, b \in Migrators : a # b => mig'[a].locked = {} \/ mig'[b].locked = {}
    BY DEF IInv, Alone
  <1> QED
    BY <1>1, <1>2 DEF IInv

\* What a migrator that is not blocked knows.
LEMMA AloneFacts ==
    ASSUME IInv, NEW m \in Migrators
    PROVE  /\ ~Blocked(m) => Alone(m)
           /\ mig[m].locked # {} => Alone(m)
           /\ IsMigrator(mig[m]) /\ mig[m].at \in {"idle", "migrating"}
           /\ mig[m].at = "migrating" => Transaction(mig[m])
           /\ mig[m] = [mig[m] EXCEPT !.at = mig[m].at]
  BY DEF IInv, Alone, Blocked, Placed, IsMigrator

\* A migrator that has rolled back is idle.
LEMMA RollbackKeeps ==
    ASSUME IInv, NEW m \in Migrators, Rollback(m, "idle"), crashes' \in 0..MaxCrashes
    PROVE  IInv'
  <1>1. mig'[m] = Idle /\ DOMAIN mig' = Migrators /\ \A n \in Migrators \ {m} : mig'[n] = mig[n]
    BY DEF Rollback, Idle, IInv
  <1>2. Placed(mig[m])' /\ mig'[m].locked = {}
    BY <1>1, NewestIsNat DEF Placed, IsMigrator, Idle
  <1>3. vector' \in BOOLEAN /\ version' \in 0..Newest /\ rows' \subseteq Filled \cap DOMAIN tables'
        /\ tables' = SchemaOf(version') /\ version' = version
    BY DEF Rollback, IInv
  <1> QED
    BY <1>1, <1>2, <1>3, Kept

\* A migrator that has planned its revisions holds no lock.
LEMMA ConnectKeeps ==
    ASSUME IInv, NEW m \in Migrators, Connect(m)
    PROVE  IInv'
  <1>1. PICK to \in Targets \ {version} :
          mig' = [mig EXCEPT ![m] = [Idle EXCEPT !.at = "migrating", !.from = version, !.now = version, !.to = to,
                                                 !.todo = Script(version, to)]]
    BY DEF Connect
  <1>2. /\ mig'[m] = [at |-> "migrating", from |-> version, to |-> to, now |-> version, work |-> NoTables,
                      ext |-> FALSE, todo |-> Script(version, to), locked |-> {}]
        /\ DOMAIN mig' = Migrators /\ \A n \in Migrators \ {m} : mig'[n] = mig[n]
    BY <1>1 DEF Idle, IInv
  <1>3. version \in 0..Newest /\ to \in 0..Newest /\ to # version
    BY <1>1, TargetsAssumption DEF IInv
  <1>4. Underway(mig'[m])
    BY <1>2, <1>3, NewestIsNat DEF Underway
  <1>5. Placed(mig[m])' /\ mig'[m].locked = {}
    BY <1>2, <1>3, <1>4 DEF Placed, Transaction, IsMigrator
  <1>6. UNCHANGED <<tables, vector, version, rows, crashes>>
    BY DEF Connect
  <1> QED
    BY <1>2, <1>5, <1>6, Kept DEF IInv

\* What the transaction of a migrator has done, before its first statement or
\* later: S is its view of the schema and ext of the extension.
LEMMA View ==
    ASSUME IInv, NEW m \in Migrators, mig[m].at = "migrating", mig[m].locked = {} => mig[m].from = version,
           NEW S, S = (IF mig[m].locked = {} THEN tables ELSE mig[m].work),
           NEW ext, ext = (IF mig[m].locked = {} THEN vector ELSE mig[m].ext)
    PROVE  /\ Underway(mig[m]) /\ mig[m].from = version /\ Fits(mig[m].now, mig[m].to)
           /\ rows \subseteq MayHaveRows(mig[m].now, mig[m].to)
           /\ \E k : PartDone(mig[m].now, mig[m].to, k, mig[m].todo, S, ext)
  <1>1. Transaction(mig[m])
    BY AloneFacts
  <1>2. Underway(mig[m]) /\ mig[m].from = version
    BY <1>1 DEF Transaction
  <1>3. Fits(mig[m].now, mig[m].to)
    BY <1>2, TowardFacts
  <1>4. rows \subseteq MayHaveRows(mig[m].now, mig[m].to)
    <2>1. rows \subseteq DOMAIN SchemaOf(mig[m].from)
      BY <1>2 DEF IInv
    <2> QED
      BY <2>1, <1>2, RowsAreAllowed
  <1>5. CASE mig[m].locked = {}
    <2>1. /\ mig[m].now = version /\ mig[m].todo = Script(mig[m].now, mig[m].to)
          /\ S = SchemaOf(mig[m].now) /\ ext \in BOOLEAN
      BY <1>1, <1>2, <1>5 DEF Transaction, IInv
    <2>2. PartDone(mig[m].now, mig[m].to, 0, mig[m].todo, S, ext)
      BY <2>1, <1>3, AtTheStart
    <2> QED
      BY <1>2, <1>3, <1>4, <2>2
  <1>6. CASE mig[m].locked # {}
    <2>1. \E k : PartDone(mig[m].now, mig[m].to, k, mig[m].todo, S, ext)
      BY <1>1, <1>6 DEF Transaction
    <2> QED
      BY <1>2, <1>3, <1>4, <2>1
  <1> QED
    BY <1>5, <1>6

\* The next statement is accepted, on the migrator's view of the schema.
LEMMA StatementKeeps ==
    ASSUME IInv, NEW m \in Migrators, Statement(m)
    PROVE  IInv'
  <1> DEFINE r == mig[m]
  <1>1. PICK s, S, ext :
          /\ s = Head(r.todo)
          /\ S = (IF r.locked = {} THEN tables ELSE r.work)
          /\ ext = (IF r.locked = {} THEN vector ELSE r.ext)
    OBVIOUS
  <1>2. /\ r.at = "migrating" /\ r.todo # <<>> /\ ~Blocked(m)
        /\ r.locked = {} => r.from = version
        /\ crashes' = crashes
    BY DEF Statement
  <1>3. /\ Underway(r) /\ r.from = version /\ Fits(r.now, r.to)
        /\ rows \subseteq MayHaveRows(r.now, r.to)
        /\ \E k : PartDone(r.now, r.to, k, r.todo, S, ext)
    BY <1>1, <1>2, View
  <1>4. PICK k : PartDone(r.now, r.to, k, r.todo, S, ext)
    BY <1>3
  <1>5. /\ Accepts(s, S, ext, MayHaveRows(r.now, r.to))
        /\ k + 1 \in 0..Len(Script(r.now, r.to))
        /\ PartDone(r.now, r.to, k + 1, Tail(r.todo), Run(s, S), ext \/ s.op = "create_extension")
    BY <1>1, <1>2, <1>3, <1>4, OneMore
  <1>6. Accepts(s, S, ext, rows)
    BY <1>3, <1>5, AcceptsMore
  <1>7. /\ mig' = [mig EXCEPT ![m].work = Run(s, S), ![m].ext = ext \/ s.op = "create_extension",
                              ![m].todo = Tail(@), ![m].locked = @ \cup {s.table}]
        /\ UNCHANGED <<tables, vector, version, rows>>
    BY <1>1, <1>6 DEF Statement
  <1>8. IsMigrator(r) /\ Alone(m)
    BY <1>2, AloneFacts
  <1>9. PICK view : view = (ext \/ s.op = "create_extension")
    OBVIOUS
  <1>10. /\ mig'[m] = [at |-> "migrating", from |-> r.from, to |-> r.to, now |-> r.now, work |-> Run(s, S),
                       ext |-> view, todo |-> Tail(r.todo), locked |-> r.locked \cup {s.table}]
         /\ DOMAIN mig' = Migrators /\ \A n \in Migrators \ {m} : mig'[n] = mig[n]
    BY <1>2, <1>7, <1>8, <1>9 DEF IsMigrator, IInv
  <1>11. Underway(mig'[m])
    BY <1>3, <1>10 DEF Underway
  <1>12. PartDone(mig'[m].now, mig'[m].to, k + 1, mig'[m].todo, mig'[m].work, mig'[m].ext)
         /\ k + 1 \in 0..Len(Script(mig'[m].now, mig'[m].to))
    BY <1>5, <1>9, <1>10
  <1>13. Placed(mig[m])'
    <2>1. mig'[m].at = "migrating" /\ mig'[m].locked = r.locked \cup {s.table} /\ mig'[m].from = version'
      <3>1. mig'[m].at = "migrating" /\ mig'[m].from = r.from /\ mig'[m].locked = r.locked \cup {s.table}
        BY <1>10
      <3> QED
        BY <3>1, <1>3, <1>7
    <2>2. IsMigrator(mig'[m]) /\ mig'[m].now \in 0..Newest
      BY <1>10, <1>11 DEF IsMigrator, Underway
    <2> QED
      BY <2>1, <2>2, <1>11, <1>12 DEF Placed, Transaction
  <1> QED
    BY <1>2, <1>7, <1>8, <1>10, <1>13, Kept DEF IInv

\* The revision is done: its schema is that of the next version, which is
\* committed or where the next revision starts.
LEMMA AdvanceKeeps ==
    ASSUME IInv, NEW m \in Migrators, Advance(m)
    PROVE  IInv'
  <1> DEFINE r == mig[m]
  <1>1. PICK v : v = Toward(r.now, r.to)
    OBVIOUS
  <1>2. /\ r.at = "migrating" /\ r.todo = <<>> /\ crashes' = crashes
        /\ \/ /\ v # r.to
              /\ mig' = [mig EXCEPT ![m].now = v, ![m].todo = Script(v, r.to)]
              /\ UNCHANGED <<tables, vector, version, rows>>
           \/ /\ v = r.to
              /\ tables' = r.work /\ vector' = r.ext /\ version' = v /\ rows' = rows \cap DOMAIN r.work
              /\ mig' = [mig EXCEPT ![m] = Idle]
    BY <1>1 DEF Advance, Toward
  <1>3. Transaction(r) /\ IsMigrator(r)
    BY <1>2, AloneFacts
  <1>4. Underway(r) /\ Fits(r.now, r.to)
    BY <1>3, TowardFacts DEF Transaction
  <1>5. r.locked # {}
    <2>1. r.locked = {} => Fits(r.now, r.to) /\ r.todo = Script(r.now, r.to)
      BY <1>3, <1>4 DEF Transaction
    <2>2. Script(r.now, r.to) # <<>>
      BY <1>4 DEF Fits
    <2> QED
      BY <2>1, <2>2, <1>2
  <1>6. PICK k : PartDone(r.now, r.to, k, <<>>, r.work, r.ext)
    BY <1>2, <1>3, <1>5 DEF Transaction
  <1>7. r.work = SchemaOf(v) /\ r.ext \in BOOLEAN /\ v \in 0..Newest /\ r.from = version /\ Alone(m)
    <2>1. r.work = SchemaOf(v)
      BY <1>1, <1>4, <1>6, AtTheEnd
    <2>2. r.ext \in BOOLEAN
      BY <1>6 DEF PartDone
    <2>3. v \in 0..Newest
      BY <1>1, <1>4, TowardFacts
    <2>4. r.from = version
      BY <1>3, <1>5 DEF Transaction
    <2> QED
      BY <2>1, <2>2, <2>3, <2>4, <1>5, AloneFacts
  <1>8. CASE v # r.to
    <2>1. /\ mig'[m] = [at |-> "migrating", from |-> r.from, to |-> r.to, now |-> v, work |-> r.work, ext |-> r.ext,
                        todo |-> Script(v, r.to), locked |-> r.locked]
          /\ DOMAIN mig' = Migrators /\ \A n \in Migrators \ {m} : mig'[n] = mig[n]
          /\ UNCHANGED <<tables, vector, version, rows>>
      BY <1>2, <1>3, <1>8 DEF IsMigrator, IInv
    <2>2. /\ Fits(v, r.to)
          /\ r.from < r.to => r.from <= v /\ v < r.to
          /\ r.from >= r.to => r.to < v /\ v <= r.from
      BY <1>1, <1>4, <1>8, TowardFacts
    <2>3. Underway(mig'[m])
      BY <2>1, <2>2, <1>4, <1>7 DEF Underway
    <2>4. PartDone(v, r.to, 0, Script(v, r.to), r.work, r.ext) /\ 0 \in 0..Len(Script(v, r.to))
      <3>1. PartDone(v, r.to, 0, Script(v, r.to), r.work, r.ext)
        BY <2>2, <1>7, AtTheStart
      <3> QED
        BY <3>1 DEF PartDone
    <2>5. Placed(mig[m])'
      <3>1. mig'[m].at = "migrating" /\ mig'[m].locked # {} /\ mig'[m].from = version' /\ mig'[m].now \in 0..Newest
        BY <2>1, <1>5, <1>7
      <3>2. IsMigrator(mig'[m])
        BY <2>1 DEF IsMigrator
      <3>3. \E i \in 0..Len(Script(mig'[m].now, mig'[m].to)) :
              PartDone(mig'[m].now, mig'[m].to, i, mig'[m].todo, mig'[m].work, mig'[m].ext)
        BY <2>1, <2>4
      <3> QED
        BY <2>3, <3>1, <3>2, <3>3 DEF Placed, Transaction
    <2> QED
      BY <2>1, <2>5, <1>2, <1>7, Kept DEF IInv
  <1>9. CASE v = r.to
    <2>1. /\ mig'[m] = Idle /\ DOMAIN mig' = Migrators /\ \A n \in Migrators \ {m} : mig'[n] = mig[n]
          /\ tables' = SchemaOf(v) /\ vector' \in BOOLEAN /\ version' = v /\ rows' = rows \cap DOMAIN tables'
      BY <1>2, <1>7, <1>9 DEF IInv
    <2>2. Placed(mig[m])' /\ mig'[m].locked = {}
      BY <2>1, NewestIsNat DEF Placed, IsMigrator, Idle
    <2>3. rows' \subseteq Filled \cap DOMAIN tables' /\ crashes' \in 0..MaxCrashes
      BY <2>1, <1>2 DEF IInv
    <2> QED
      BY <2>1, <2>2, <2>3, <1>7, Kept
  <1> QED
    BY <1>8, <1>9

\* A row inserted by the application leaves the schema and the migrators alone.
LEMMA InsertKeeps ==
    ASSUME IInv, NEW t \in Filled, Insert(t)
    PROVE  IInv'
  <1>1. UNCHANGED <<tables, vector, version, mig, crashes>> /\ rows' = rows \cup {t} /\ t \in DOMAIN tables
    BY DEF Insert
  <1>2. \A m \in Migrators : Placed(mig[m])'
    BY <1>1 DEF IInv, Placed, Transaction
  <1> QED
    BY <1>1, <1>2 DEF IInv

-----------------------------------------------------------------------------
(* The theorems *)

\* The empty database satisfies the invariant.
LEMMA InitIInv == Init => IInv
  <1> SUFFICES ASSUME Init
               PROVE  IInv
    OBVIOUS
  <1>1. tables = SchemaOf(0) /\ 0 \in 0..Newest /\ 0 \in 0..MaxCrashes
    BY NewestIsNat, EndsAssumption, CrashesAssumption DEF Init
  <1>2. DOMAIN mig = Migrators /\ \A m \in Migrators : mig[m] = Idle
    BY DEF Init
  <1>3. \A m \in Migrators : Placed(mig[m]) /\ mig[m].locked = {}
    BY <1>1, <1>2 DEF Placed, IsMigrator, Idle
  <1> QED
    BY <1>1, <1>2, <1>3 DEF Init, IInv

\* Every step keeps the invariant.
LEMMA NextIInv == IInv /\ [Next]_vars => IInv'
  <1> SUFFICES ASSUME IInv, [Next]_vars
               PROVE  IInv'
    OBVIOUS
  <1>1. ASSUME NEW m \in Migrators, Connect(m)
        PROVE  IInv'
    BY <1>1, ConnectKeeps
  <1>2. ASSUME NEW m \in Migrators, Lost(m)
        PROVE  IInv'
    BY <1>2, RollbackKeeps DEF Lost, IInv
  <1>3. ASSUME NEW m \in Migrators, Statement(m)
        PROVE  IInv'
    BY <1>3, StatementKeeps
  <1>4. ASSUME NEW m \in Migrators, Advance(m)
        PROVE  IInv'
    BY <1>4, AdvanceKeeps
  <1>5. ASSUME NEW m \in Migrators, Crash(m)
        PROVE  IInv'
    <2>1. Rollback(m, "idle") /\ crashes' \in 0..MaxCrashes
      BY <1>5, CrashesAssumption DEF Crash, IInv
    <2> QED
      BY <2>1, RollbackKeeps
  <1>6. ASSUME NEW t \in Filled, Insert(t)
        PROVE  IInv'
    BY <1>6, InsertKeeps
  <1>7. CASE UNCHANGED vars
    <2>1. \A m \in Migrators : Placed(mig[m])'
      BY <1>7 DEF IInv, Placed, Transaction, vars
    <2> QED
      BY <2>1, <1>7 DEF IInv, vars
  <1> QED
    BY <1>1, <1>2, <1>3, <1>4, <1>5, <1>6, <1>7 DEF Next

\* The committed schema is that of the recorded version at every moment, while
\* migrators race, die and roll back (alembic/env.py, run_migrations_online).
THEOREM Invariant == Spec => []IInv
  BY InitIInv, NextIInv, PTL DEF Spec

\* The schema is always that of a version, its tables are well formed, and the
\* newest version is what the models in control_plane/app/models declare.
THEOREM SchemaSoundAlways == Spec => []SchemaSound
  <1>1. IInv => SchemaSound
    <2> SUFFICES ASSUME IInv
                 PROVE  SchemaSound
      OBVIOUS
    <2>1. TypeOK
      <3>1. \A t \in DOMAIN tables : tables[t].null \cap tables[t].notnull = {}
        BY SchemasAssumption DEF IInv, WellFormed
      <3>2. \A m \in Migrators : mig[m].at \in {"idle", "migrating", "rejected"} /\ mig[m].now \in 0..Newest
        BY DEF IInv, Placed
      <3> QED
        BY <3>1, <3>2 DEF IInv, TypeOK
    <2>2. SchemaIsRevision /\ HeadMatchesModels
      BY EndsAssumption DEF IInv, SchemaIsRevision, HeadMatchesModels
    <2> QED
      BY <2>1, <2>2 DEF SchemaSound
  <1> QED
    BY <1>1, Invariant, PTL

\* No statement of a revision is rejected by PostgreSQL, whatever rows there
\* are and whoever else migrates or dies.
THEOREM NoMigrationFailsAlways == Spec => []NoMigrationFails
  <1>1. IInv => NoMigrationFails
    BY DEF IInv, Placed, NoMigrationFails
  <1> QED
    BY <1>1, Invariant, PTL
=============================================================================
