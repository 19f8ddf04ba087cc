--------------------------- MODULE MigrationSteps ---------------------------
(***************************************************************************)
(* What the statements of the revisions do one after the other, and the    *)
(* inductive invariant of Migrations that rests on it. The revisions take  *)
(* no parameter, so that the assumptions of this module are closed         *)
(* formulas: to evaluate them once, as TLC does, is to check them.         *)
(***************************************************************************)
EXTENDS Migrations

\* The version after v on the way to version to.
Toward(v, to) == IF to > v THEN v + 1 ELSE v - 1

\* The schemas that the revision from v towards to passes through.
Path(v, to) ==
    LET script == Script(v, to)
        after[k \in 0..Len(script)] == IF k = 0 THEN SchemaOf(v) ELSE Run(script[k], after[k - 1])
    IN  after

\* One of its first k statements has created the extension.
Vector(v, to, k) == \E i \in 1..k : Script(v, to)[i].op = "create_extension"

\* The tables that may have rows while it runs: those of the version, or
\* on the way down those of any version.
MayHaveRows(v, to) == IF to > v THEN DOMAIN SchemaOf(v) ELSE DOMAIN SchemaOf(Newest)

\* Each statement is accepted where the ones before it lead, and the last one
\* leads to the schema of the next version.
Fits(v, to) ==
    LET script == Script(v, to)
        n == Len(script)
    IN  /\ script \in Seq({script[i] : i \in 1..n}) /\ n > 0
        /\ Path(v, to)[0] = SchemaOf(v)
        /\ \A k \in 1..n :
             /\ Accepts(script[k], Path(v, to)[k - 1], Vector(v, to, k - 1), MayHaveRows(v, to))
             /\ Path(v, to)[k] = Run(script[k], Path(v, to)[k - 1])
        /\ Path(v, to)[n] = SchemaOf(Toward(v, to))

\* A nullable column is not a NOT NULL one, and a version has the tables of
\* the versions before it.
WellFormed(v) ==
    /\ \A t \in DOMAIN SchemaOf(v) : SchemaOf(v)[t].null \cap SchemaOf(v)[t].notnull = {}
    /\ \A u \in 0..v : DOMAIN SchemaOf(u) \subseteq DOMAIN SchemaOf(v)

ASSUME StepsAssumption == \A v, to \in 0..Newest : v # to => Fits(v, to)
ASSUME SchemasAssumption == \A v \in 0..Newest : WellFormed(v)
ASSUME EndsAssumption == SchemaOf(0) = NoTables /\ SchemaOf(Newest) = Declared

-----------------------------------------------------------------------------
(* The inductive invariant *)

IsMigrator(r) == r = [at |-> r.at, from |-> r.from, to |-> r.to, now |-> r.now, work |-> r.work, ext |-> r.ext,
                      todo |-> r.todo, locked |-> r.locked]

\* The version that a transaction has reached lies before its target.
Underway(r) == /\ r.from \in 0..Newest /\ r.to \in 0..Newest /\ r.now \in 0..Newest
               /\ r.from < r.to => r.from <= r.now /\ r.now < r.to
               /\ r.from >= r.to => r.to < r.now /\ r.now <= r.from

\* Of the revision from v towards to, all but the first k statements are left
\* to do, and S is the schema that those lead to.
PartDone(v, to, k, todo, S, ext) ==
    LET script == Script(v, to)
    IN  /\ k \in 0..Len(script)
        /\ todo \in Seq({script[i] : i \in 1..Len(script)}) /\ Len(todo) = Len(script) - k
        /\ \A i \in 1..Len(todo) : todo[i] = script[k + i]
        /\ S = Path(v, to)[k]
        /\ ext \in BOOLEAN /\ (Vector(v, to, k) => ext)

\* A transaction without a lock has done nothing, one with a lock works on a
\* copy of the version that is still the recorded one.
Transaction(r) ==
    /\ Underway(r)
    /\ r.locked = {} => r.now = r.from /\ r.todo = Script(r.from, r.to)
    /\ r.locked # {} => /\ r.from = version
                        /\ \E k \in 0..Len(Script(r.now, r.to)) : PartDone(r.now, r.to, k, r.todo, r.work, r.ext)

Placed(r) == /\ IsMigrator(r) /\ r.at \in {"idle", "migrating"} /\ r.now \in 0..Newest
             /\ r.at = "idle" => r.locked = {}
             /\ r.at = "migrating" => Transaction(r)

IInv == /\ vector \in BOOLEAN /\ version \in 0..Newest /\ crashes \in 0..MaxCrashes
        /\ rows \subseteq Filled \cap DOMAIN tables
        /\ tables = SchemaOf(version)
        /\ DOMAIN mig = Migrators
        /\ \A m \in Migrators : Placed(mig[m])
        /\ \A m, n \in Migrators : m # n => mig[m].locked = {} \/ mig[n].locked = {}
=============================================================================
