---------------------------- MODULE StepHandlers ----------------------------
(***************************************************************************)
(* The four kinds of step (worker/app/step_handlers.py), the loop that     *)
(* runs and retries them (worker/app/executor.py), and what the incident   *)
(* index says of the attempts they leave behind (agent/index_incident.py), *)
(* for runs of one pipeline that load into the same warehouse table.       *)
(*                                                                         *)
(* A file is a set of columns and numbered rows of integers or Null.       *)
(* A file name is the second of its timestamp and whether it is the        *)
(* "_transformed" one; the rest of the path is fixed by the run.           *)
(***************************************************************************)
EXTENDS Integers, Sequences, FiniteSets

CONSTANTS Runs,
          Plans,        \* the lists of steps a run may execute, in step_order
          Sources,      \* what the source_url may serve
          Null,         \* a missing value
          None,
          MaxSeconds    \* bound: how far the clock goes

VARIABLES second,       \* datetime.now(), in seconds
          plan,         \* run -> its steps
          at,           \* run -> where its executor is
          run_context,  \* run -> what its steps left for one another
          attempts,     \* run -> run_context["step_attempts"]
          files,        \* run -> file name -> csv, in data/runs/<run_id>
          table,        \* the files whose rows are in the warehouse table
          history       \* run -> what it fetched, and how it failed

vars == <<second, plan, at, run_context, attempts, files, table, history>>

-----------------------------------------------------------------------------
(* Files and configurations *)

Seconds == 0..MaxSeconds
Name == [second: Seconds, transformed: BOOLEAN]
IsCsv(f) == \A i \in DOMAIN f.rows : DOMAIN f.rows[i] = f.columns
Rows(f) == {f.rows[i] : i \in DOMAIN f.rows}
NoContext == [ingestion |-> None, validation |-> None, transformation |-> None, load |-> FALSE]

\* pd.read_csv fails without columns, and without the file.
Readable(f) == f # None /\ f.columns # {}

\* Required columns, columns without nulls, least number of rows.
Checks(config, f) ==
    /\ config.required_columns \subseteq f.columns
    /\ \A c \in config.non_null_columns \cap f.columns : \A i \in DOMAIN f.rows : f.rows[i][c] # Null
    /\ Cardinality(DOMAIN f.rows) >= config.min_rows

ops == {">", "<", "==", "!=", ">=", "<="}

\* A comparison with a missing value is false, but for "!=".
Holds(op, a, b) ==
    CASE a = Null -> op = "!="
      [] op = ">" -> a > b
      [] op = "<" -> a < b
      [] op = "==" -> a = b
      [] op = "!=" -> a # b
      [] op = ">=" -> a >= b
      [] op = "<=" -> a <= b

NewName(rename, c) == IF c \in DOMAIN rename THEN rename[c] ELSE c

\* The column that is called n after a renaming.
OldName(rename, f, n) == CHOOSE c \in f.columns : NewName(rename, c) = n

Rename(rename, f) ==
    LET columns == {NewName(rename, c) : c \in f.columns} IN
    [columns |-> columns,
     rows |-> [i \in DOMAIN f.rows |-> [n \in columns |-> f.rows[i][OldName(rename, f, n)]]]]

CanFilter(filter, f) == filter.column \in f.columns /\ filter.operator \in ops /\ filter.value \in Int

Passes(w, row) == Holds(w.operator, row[w.column], w.value)

\* The rows with these numbers.
Only(numbers, f) == [columns |-> f.columns, rows |-> [i \in numbers |-> f.rows[i]]]

\* Plausible bug: one filter is enough to keep a row.
Filter_AnyOf(filters, f) == Only({i \in DOMAIN f.rows : \E k \in DOMAIN filters : Passes(filters[k], f.rows[i])}, f)

Filter(filters, f) == Only({i \in DOMAIN f.rows : \A k \in DOMAIN filters : Passes(filters[k], f.rows[i])}, f)

\* Plausible bug: the rows keep the values of the dropped columns.
Drop_KeepsValues(columns, f) == [f EXCEPT !.columns = @ \ columns]

Drop(columns, f) ==
    [columns |-> f.columns \ columns,
     rows |-> [i \in DOMAIN f.rows |-> [c \in f.columns \ columns |-> f.rows[i][c]]]]

Types == {"ingestion", "validation", "transformation", "load"}
Errors == {"config", "fetch", "missing", "read", "check", "transform", "write"}

\* What a source serves is a table.
ASSUME SourcesAssumption ==
    \A f \in Sources : f = [columns |-> f.columns, rows |-> f.rows] /\ IsCsv(f)

\* The steps of a pipeline in their order. A negative base_delay is left out: the
\* configuration may hold one, and asyncio.sleep returns at once.
ASSUME PlansAssumption ==
    \A p \in Plans : /\ Len(p) \in Nat /\ DOMAIN p = 1..Len(p)
                     /\ \A i \in DOMAIN p : /\ p[i].step_type \in Types
                                            /\ p[i].max_retries \in Int /\ p[i].base_delay \in Nat

\* No renaming gives two columns of a file one name: pandas would keep both, and a
\* column is told by its name here.
ASSUME RenamingsAssumption ==
    \A p \in Plans : \A i \in DOMAIN p : p[i].step_type = "transformation" /\ p[i].config # None =>
        \A f \in Sources : \A c, d \in f.columns :
            NewName(p[i].config.rename_columns, c) = NewName(p[i].config.rename_columns, d) => c = d

ASSUME NoneAssumption == None \notin Name \cup Sources \cup Errors

ASSUME SecondsAssumption == MaxSeconds \in Nat

-----------------------------------------------------------------------------
(* The handlers: each is the set of results an attempt can have *)

Result(context, written, error) == [context |-> context, files |-> written, error |-> error]

Raise(r, error) == {Result(run_context[r], files[r], error)}

\* A fetch that succeeds is saved under the second it is saved in, over a file
\* of the same name.
run_ingestion(r, config) ==
    IF config = None \/ config.source_url = None THEN Raise(r, "config")
    ELSE LET name == [second |-> second, transformed |-> FALSE] IN
         Raise(r, "fetch") \cup
         {Result([run_context[r] EXCEPT !.ingestion = name], [files[r] EXCEPT ![name] = f], None) : f \in Sources}

run_validation(r, config) ==
    LET name == run_context[r].ingestion IN
    IF name = None THEN Raise(r, "missing")
    ELSE IF ~Readable(files[r][name]) THEN Raise(r, "read")
    ELSE IF config = None THEN Raise(r, "config")
    ELSE IF ~Checks(config, files[r][name]) THEN Raise(r, "check")
    ELSE {Result([run_context[r] EXCEPT !.validation = name], files[r], None)}

\* Rename first, filter next, and then drop.
Transform(config, f) == Drop(config.drop_columns, Filter(config.filter_rows, Rename(config.rename_columns, f)))

CanTransform(config, f) ==
    LET renamed == Rename(config.rename_columns, f) IN
    /\ \A k \in DOMAIN config.filter_rows : CanFilter(config.filter_rows[k], renamed)
    /\ config.drop_columns \subseteq renamed.columns

\* Plausible bug: the file is the one that was ingested last.
run_transformation_LatestFile(r, config) ==
    LET name == run_context[r].ingestion IN
    IF name = None THEN Raise(r, "missing")
    ELSE IF ~Readable(files[r][name]) THEN Raise(r, "read")
    ELSE IF config = None THEN Raise(r, "config")
    ELSE IF ~CanTransform(config, files[r][name]) THEN Raise(r, "transform")
    ELSE LET output == [name EXCEPT !.transformed = TRUE] IN
         {Result([run_context[r] EXCEPT !.transformation = output],
                 [files[r] EXCEPT ![output] = Transform(config, files[r][name])], None)}

\* The file is the validated one, not the output of an earlier transformation.
run_transformation(r, config) ==
    LET name == run_context[r].validation IN
    IF name = None THEN Raise(r, "missing")
    ELSE IF ~Readable(files[r][name]) THEN Raise(r, "read")
    ELSE IF config = None THEN Raise(r, "config")
    ELSE IF ~CanTransform(config, files[r][name]) THEN Raise(r, "transform")
    ELSE LET output == [name EXCEPT !.transformed = TRUE] IN
         {Result([run_context[r] EXCEPT !.transformation = output],
                 [files[r] EXCEPT ![output] = Transform(config, files[r][name])], None)}

-----------------------------------------------------------------------------
(* The executor's loop over the steps and their attempts *)

Step(r) == plan[r][at[r].step]
InLoop(r) == at[r].pc = "attempt" /\ at[r].step <= Len(plan[r])

\* The powers of two.
Power[n \in Nat] == IF n = 0 THEN 1 ELSE 2 * Power[n - 1]

\* Plausible bug: the delay does not depend on the attempt.
calculate_delay_Constant(strategy, base_delay, attempt) == {base_delay}

\* The jitter is any value of the interval; its ends and whole numbers stand for it.
calculate_delay(strategy, base_delay, attempt) ==
    LET calculated == base_delay * Power[attempt - 1] IN
    CASE strategy = "exponential_backoff" -> {calculated}
      [] strategy = "exponential_backoff_jitter" -> (calculated + calculated \div 2)..(2 * calculated)
      [] OTHER -> {base_delay}

Record(r, status, error, delay) ==
    attempts' = [attempts EXCEPT ![r] = Append(@,
        [step_order |-> at[r].step, step_type |-> Step(r).step_type, attempt |-> at[r].attempt,
         status |-> status, error |-> error, delay |-> delay])]

Goto(r, step, attempt) == at' = [at EXCEPT ![r] = [pc |-> "attempt", step |-> step, attempt |-> attempt, exists |-> FALSE]]

\* The run ends; cause is the step whose attempt failed, or 0.
Over(r, status, cause) ==
    /\ at' = [at EXCEPT ![r].pc = status]
    /\ history' = [history EXCEPT ![r].cause = cause]

\* The attempt is recorded and the next one follows; if the commit of the retry
\* fails, the step is expired and the run fails, with no record of that attempt.
Retry(r, error) ==
    /\ at[r].attempt <= Step(r).max_retries
    /\ \E delay \in calculate_delay(Step(r).strategy, Step(r).base_delay, at[r].attempt) :
          Record(r, "failed", error, delay)
    /\ \/ Goto(r, at[r].step, at[r].attempt + 1) /\ UNCHANGED history
       \/ Over(r, "failed", at[r].step)

GiveUp(r, error) ==
    /\ at[r].attempt = Step(r).max_retries + 1
    /\ Record(r, "failed", error, 0)
    /\ Over(r, "failed", at[r].step)

\* Plausible bug: the step after a failed one is run.
Fails_GoesOn(r, error) ==
    \/ Retry(r, error)
    \/ /\ at[r].attempt = Step(r).max_retries + 1
       /\ Record(r, "failed", error, 0)
       /\ Goto(r, at[r].step + 1, 1)
       /\ UNCHANGED history

Fails(r, error) == Retry(r, error) \/ GiveUp(r, error)

Succeeds(r) ==
    /\ Record(r, "success", None, 0)
    /\ Goto(r, at[r].step + 1, 1)

\* range(1, max_retries + 1 + 1) is empty: no attempt, no error.
SkipStep(r) ==
    /\ InLoop(r)
    /\ Step(r).max_retries < 0
    /\ Goto(r, at[r].step + 1, 1)
    /\ UNCHANGED <<second, plan, run_context, attempts, files, table, history>>

perform_step(r) ==
    CASE Step(r).step_type = "ingestion" -> run_ingestion(r, Step(r).config)
      [] Step(r).step_type = "validation" -> run_validation(r, Step(r).config)
      [] Step(r).step_type = "transformation" -> run_transformation(r, Step(r).config)

\* An attempt at a step that is not a load.
Attempt(r) ==
    /\ InLoop(r)
    /\ Step(r).step_type # "load"
    /\ Step(r).max_retries >= 0
    /\ \E result \in perform_step(r) :
          /\ run_context' = [run_context EXCEPT ![r] = result.context]
          /\ files' = [files EXCEPT ![r] = result.files]
          /\ IF result.error # None THEN Fails(r, result.error)
             ELSE /\ Succeeds(r)
                  /\ history' = IF Step(r).step_type # "ingestion" THEN history
                        ELSE LET name == result.context.ingestion IN
                             [history EXCEPT ![r].fetched = @ \cup {result.files[name]},
                                             ![r].clash = @ \/ files[r][name] \notin {None, result.files[name]}]
    /\ UNCHANGED <<second, plan, table>>

\* run_load reads its file, and to_sql looks whether the table exists ...
StartLoad(r) ==
    /\ InLoop(r)
    /\ Step(r).step_type = "load"
    /\ Step(r).max_retries >= 0
    /\ LET name == run_context[r].transformation IN
       IF name = None THEN Fails(r, "missing")
       ELSE IF ~Readable(files[r][name]) THEN Fails(r, "read")
       ELSE at' = [at EXCEPT ![r].pc = "load", ![r].exists = table # <<>>] /\ UNCHANGED <<attempts, history>>
    /\ UNCHANGED <<second, plan, run_context, files, table>>

\* Plausible bug: if_exists="append".
Replaced_Append(new) == Append(table, new)

\* if_exists="replace".
Replaced(new) == <<new>>

\* ... and drops, creates and fills it in one transaction. CREATE TABLE fails if
\* another run created it meanwhile; the database may fail before the commit,
\* or after it.
FinishLoad(r) ==
    /\ at[r].pc = "load"
    /\ LET new == [run |-> r, csv |-> files[r][run_context[r].transformation]]
           allowed == at[r].exists \/ table = <<>> IN
       \/ /\ allowed
          /\ table' = Replaced(new)
          /\ Succeeds(r)
          /\ run_context' = [run_context EXCEPT ![r].load = TRUE]
          /\ UNCHANGED history
       \/ /\ \/ UNCHANGED table
             \/ allowed /\ table' = Replaced(new)
          /\ Fails(r, "write")
          /\ UNCHANGED run_context
    /\ UNCHANGED <<second, plan, files>>

\* Every step is done; the commit of the success may still fail.
Finish(r) ==
    /\ at[r].pc = "attempt"
    /\ at[r].step > Len(plan[r])
    /\ Over(r, "success", 0) \/ Over(r, "failed", 0)
    /\ UNCHANGED <<second, plan, run_context, attempts, files, table>>

Tick ==
    /\ second < MaxSeconds
    /\ second' = second + 1
    /\ UNCHANGED <<plan, at, run_context, attempts, files, table, history>>

-----------------------------------------------------------------------------
(* What index_incident says of a failed run *)

\* The attempts that failed, by their place in the list.
FailedAttempts(r) == {i \in DOMAIN attempts[r] : attempts[r][i].status = "failed"}

\* Plausible bug: the attempts are searched from the first one on.
_extract_failed_step_FromTheFront(r) ==
    IF FailedAttempts(r) = {} THEN "unknown"
    ELSE attempts[r][CHOOSE i \in FailedAttempts(r) : \A j \in FailedAttempts(r) : j >= i].step_type

\* The type of the last attempt that failed.
_extract_failed_step(r) ==
    IF FailedAttempts(r) = {} THEN "unknown"
    ELSE attempts[r][CHOOSE i \in FailedAttempts(r) : \A j \in FailedAttempts(r) : j <= i].step_type

_summarize_attempt_pattern(r) ==
    LET n == Cardinality(FailedAttempts(r))
        errors == {attempts[r][i].error : i \in FailedAttempts(r)}
    IN  IF attempts[r] = <<>> THEN "no attempts recorded"
        ELSE IF n = 0 THEN "no failed attempts recorded"
        ELSE IF n = 1 THEN "failed on first attempt with no retries configured"
        ELSE IF Cardinality(errors) = 1 THEN "same error" ELSE "varying errors"

-----------------------------------------------------------------------------

Init ==
    /\ second = 0
    /\ plan \in [Runs -> Plans]
    /\ at = [r \in Runs |-> [pc |-> "attempt", step |-> 1, attempt |-> 1, exists |-> FALSE]]
    /\ run_context = [r \in Runs |-> NoContext]
    /\ attempts = [r \in Runs |-> <<>>]
    /\ files = [r \in Runs |-> [n \in Name |-> None]]
    /\ table = <<>>
    /\ history = [r \in Runs |-> [fetched |-> {}, clash |-> FALSE, cause |-> 0]]

Next ==
    \/ \E r \in Runs : SkipStep(r) \/ Attempt(r) \/ StartLoad(r) \/ FinishLoad(r) \/ Finish(r)
    \/ Tick

Spec == Init /\ [][Next]_vars

-----------------------------------------------------------------------------
(* Properties *)

TypeOK ==
    /\ second \in Seconds
    /\ plan \in [Runs -> Plans]
    /\ \A r \in Runs :
          /\ at[r].pc \in {"attempt", "load", "success", "failed"}
          /\ at[r].step \in 1..(Len(plan[r]) + 1)
          /\ at[r].attempt \in Nat \ {0}
          /\ run_context[r].load \in BOOLEAN
          /\ \A key \in {"ingestion", "validation", "transformation"} : run_context[r][key] \in Name \cup {None}
          /\ \A n \in Name : files[r][n] # None => IsCsv(files[r][n])
          /\ \A i \in DOMAIN attempts[r] : attempts[r][i].delay \in Nat
    /\ \A i \in DOMAIN table : table[i].run \in Runs /\ IsCsv(table[i].csv)

\* The attempts that succeeded, and the step of an attempt.
Succeeded(r) == {i \in DOMAIN attempts[r] : attempts[r][i].status = "success"}
StepOf(r, i) == plan[r][attempts[r][i].step_order]

\* The attempt i is the last one before l that was successful at a step of the type.
Latest(r, type, i, l) ==
    /\ i \in Succeeded(r) /\ i < l /\ StepOf(r, i).step_type = type
    /\ \A j \in Succeeded(r) : i < j /\ j < l => StepOf(r, j).step_type # type

\* The rows the configuration of a transformation keeps of f, told without an
\* order of operations: by the columns' old names.
Kept(config, f) ==
    LET old(n) == OldName(config.rename_columns, f, n)
        columns == {NewName(config.rename_columns, c) : c \in f.columns} \ config.drop_columns
        passing == {row \in Rows(f) : \A k \in DOMAIN config.filter_rows :
                      LET w == config.filter_rows[k] IN Holds(w.operator, row[old(w.column)], w.value)}
    IN {[n \in columns |-> row[old(n)]] : row \in passing}

\* Every row a reader of the table finds, whichever loads it is of.
TableRows == UNION {Rows(table[i].csv) : i \in DOMAIN table}

\* Whatever runs and retries meet at the table, its rows are those of its last load and
\* of no other, and that load's are what the run's last transformation before it makes
\* of a file the run fetched. That file passed the last validation before that
\* transformation - unless two of the run's ingestions fell in the same second: the
\* second one replaces the validated file, and its rows are loaded unvalidated.
LoadedWasValidated == table # <<>> =>
    LET r == table[Len(table)].run IN
    \E f \in history[r].fetched, v, t, l \in DOMAIN attempts[r] :
        /\ StepOf(r, l).step_type = "load"
        /\ Latest(r, "transformation", t, l) /\ Latest(r, "validation", v, t)
        /\ history[r].clash \/ Checks(StepOf(r, v).config, f)
        /\ TableRows = Kept(StepOf(r, t).config, f)

\* A run loads only after an ingestion, a validation and a transformation that
\* succeeded in this order, whatever the step_orders of the pipeline.
MisorderedNeverLoads == \A i \in DOMAIN table : LET r == table[i].run IN
    \E a, b, c \in Succeeded(r) :
        /\ a < b /\ b < c /\ StepOf(r, a).step_type = "ingestion"
        /\ StepOf(r, b).step_type = "validation" /\ StepOf(r, c).step_type = "transformation"

\* A run that succeeds ran each of its steps to the end, once and in their order, but
\* for those whose max_retries is negative.
SuccessMeansDone == \A r \in Runs : at[r].pc = "success" =>
    /\ \A k \in DOMAIN plan[r] :
          plan[r][k].max_retries >= 0 <=> \E i \in Succeeded(r) : attempts[r][i].step_order = k
    /\ \A i, j \in Succeeded(r) : i < j => attempts[r][i].step_order < attempts[r][j].step_order

\* Two attempts of a step with a backoff are further apart the later they are,
\* with any jitter.
BackoffGrows == \A r \in Runs : \A i \in 1..(Len(attempts[r]) - 1) :
    LET a == attempts[r][i]
        b == attempts[r][i + 1]
    IN /\ a.step_order = b.step_order
       /\ a.delay > 0 /\ b.delay > 0
       /\ plan[r][a.step_order].strategy \in {"exponential_backoff", "exponential_backoff_jitter"}
       => a.delay < b.delay

\* For a run that an attempt made fail, every attempt at that step is on record,
\* the incident index names that step, and it says "first attempt with no retries
\* configured" of a step that used up its retries only if it had none.
BlamesTheRightStep == \A r \in Runs : at[r].pc = "failed" /\ history[r].cause # 0 =>
    LET step == plan[r][history[r].cause] IN
    /\ _extract_failed_step(r) = step.step_type
    /\ Cardinality({i \in DOMAIN attempts[r] : attempts[r][i].step_order = history[r].cause}) = at[r].attempt
    /\ /\ _summarize_attempt_pattern(r) = "failed on first attempt with no retries configured"
       /\ at[r].attempt = step.max_retries + 1
       => step.max_retries = 0

\* A run does its steps in their order, all of them if it succeeds, and loads only
\* what came through the stages before the load.
StepsInOrder == TypeOK /\ MisorderedNeverLoads /\ SuccessMeansDone
=============================================================================
