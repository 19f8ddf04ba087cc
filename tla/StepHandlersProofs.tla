-------------------------- MODULE StepHandlersProofs --------------------------
(***************************************************************************)
(* Proofs about StepHandlers for any number of runs of one pipeline, any   *)
(* lists of steps, any tables a source may serve and any failures.         *)
(* The list of attempts is told first, then what the stages of a run know  *)
(* of their files, and last the warehouse table.                           *)
(***************************************************************************)
EXTENDS StepHandlers, DataInduction, FiniteSetTheorems, TLAPS

-----------------------------------------------------------------------------
(* The inductive invariant *)

AnAttempt == [step_order: Nat, step_type: Types, attempt: Nat \ {0},
              status: {"success", "failed"}, error: Errors \cup {None}, delay: Nat]

Place == [pc: {"attempt", "load", "success", "failed"}, step: Nat \ {0}, attempt: Nat \ {0}, exists: BOOLEAN]

Context == [ingestion: Name \cup {None}, validation: Name \cup {None}, transformation: Name \cup {None},
            load: BOOLEAN]

Past(fetched, clash, cause) == [fetched |-> fetched, clash |-> clash, cause |-> cause]

Shape == /\ second \in Seconds /\ plan \in [Runs -> Plans]
         /\ at \in [Runs -> Place] /\ attempts \in [Runs -> Seq(AnAttempt)] /\ run_context \in [Runs -> Context]
         /\ files = [r \in Runs |-> files[r]] /\ \A r \in Runs : files[r] = [n \in Name |-> files[r][n]]
         /\ history = [r \in Runs |-> history[r]]
         /\ \A r \in Runs : /\ history[r] = Past(history[r].fetched, history[r].clash, history[r].cause)
                            /\ history[r].clash \in BOOLEAN /\ history[r].cause \in Nat
                            /\ at[r].step <= Len(plan[r]) + 1

\* How many attempts at its present step a run has on its list.
Tried(r) == IF history[r].cause # 0 THEN at[r].attempt ELSE at[r].attempt - 1

\* An entry of the list is about a step of the plan, and a delay is one that
\* calculate_delay gives.
Told(r, i) ==
    LET a == attempts[r][i] IN
    /\ a.step_order \in 1..Len(plan[r]) /\ a.step_type = StepOf(r, i).step_type
    /\ a.delay > 0 => a.delay \in calculate_delay(StepOf(r, i).strategy, StepOf(r, i).base_delay, a.attempt)

\* The list ends with the attempts at the present step, numbered and failed.
Ending(r) ==
    LET n == Len(attempts[r]) IN
    /\ Tried(r) <= n
    /\ \A i \in 1..n : IF i > n - Tried(r)
                       THEN /\ attempts[r][i].step_order = at[r].step /\ attempts[r][i].status = "failed"
                            /\ attempts[r][i].attempt = i - (n - Tried(r))
                       ELSE attempts[r][i].step_order < at[r].step

\* It goes through the steps in their order: a success is the last attempt at its step.
Sorted(r) ==
    LET n == Len(attempts[r]) IN
    /\ \A i, j \in 1..n : i < j =>
          /\ attempts[r][i].step_order <= attempts[r][j].step_order
          /\ attempts[r][i].status = "success" => attempts[r][i].step_order < attempts[r][j].step_order
    /\ \A i \in 1..n : i + 1 \in 1..n /\ attempts[r][i].step_order = attempts[r][i + 1].step_order =>
          attempts[r][i + 1].attempt = attempts[r][i].attempt + 1

\* The steps behind a run are done, if they had an attempt.
Behind(r) ==
    \A k \in 1..at[r].step - 1 :
        plan[r][k].max_retries >= 0 <=> \E i \in Succeeded(r) : attempts[r][i].step_order = k

\* Where the executor is, and why it ended.
Going(r) ==
    /\ at[r].pc = "load" => at[r].step <= Len(plan[r]) /\ Step(r).step_type = "load" /\ Step(r).max_retries >= 0
    /\ at[r].pc = "success" => at[r].step = Len(plan[r]) + 1
    /\ history[r].cause # 0 => at[r].pc = "failed" /\ history[r].cause = at[r].step /\ at[r].step <= Len(plan[r])

Log(r) == (\A i \in 1..Len(attempts[r]) : Told(r, i)) /\ Ending(r) /\ Sorted(r) /\ Behind(r) /\ Going(r)

\* What a run's context names was made by stages that succeeded, in order.
Stages(r) ==
    LET c == run_context[r]
        type(i) == StepOf(r, i).step_type
    IN  /\ c.ingestion # None => \E a \in Succeeded(r) : type(a) = "ingestion"
        /\ c.validation # None => \E a, b \in Succeeded(r) :
              a < b /\ type(a) = "ingestion" /\ type(b) = "validation"
        /\ c.transformation # None => \E a, b, d \in Succeeded(r) :
              a < b /\ b < d /\ type(a) = "ingestion" /\ type(b) = "validation" /\ type(d) = "transformation"

\* Its files are tables; what is not the output of a transformation was fetched.
Stored(r) ==
    LET c == run_context[r] IN
    /\ history[r].fetched \subseteq Sources
    /\ \A n \in Name : files[r][n] # None => IsCsv(files[r][n])
    /\ \A n \in Name : ~n.transformed /\ files[r][n] # None => files[r][n] \in history[r].fetched
    /\ c.ingestion # None => ~c.ingestion.transformed
    /\ c.validation # None => ~c.validation.transformed /\ files[r][c.validation] # None
    /\ c.transformation # None => c.transformation.transformed
    /\ at[r].pc = "load" => c.transformation # None /\ files[r][c.transformation] # None

\* The place of the next attempt on the list.
NextPlace(r) == Len(attempts[r]) + 1

\* The validated file is the one that passed, and the transformed one is made of such
\* a file; a second ingestion that replaced it costs the run only the validation.
Passed(r) == run_context[r].validation # None =>
    \E v \in DOMAIN attempts[r] :
        /\ Latest(r, "validation", v, NextPlace(r))
        /\ history[r].clash \/ Checks(StepOf(r, v).config, files[r][run_context[r].validation])

MadeFrom(r, csv, t) ==
    \E f \in history[r].fetched, v \in DOMAIN attempts[r] :
        /\ Latest(r, "validation", v, t) /\ (history[r].clash \/ Checks(StepOf(r, v).config, f))
        /\ Rows(csv) = Kept(StepOf(r, t).config, f)

Made(r) == run_context[r].transformation # None =>
    \E t \in DOMAIN attempts[r] :
        /\ Latest(r, "transformation", t, NextPlace(r))
        /\ MadeFrom(r, files[r][run_context[r].transformation], t)

Data(r) == Stages(r) /\ Stored(r) /\ Passed(r) /\ Made(r)

\* A row of the warehouse table.
Loaded(x) ==
    LET r == x.run IN
    /\ x = [run |-> x.run, csv |-> x.csv] /\ r \in Runs /\ IsCsv(x.csv)
    /\ \E a, b, d \in Succeeded(r) :
          /\ a < b /\ b < d /\ StepOf(r, a).step_type = "ingestion"
          /\ StepOf(r, b).step_type = "validation" /\ StepOf(r, d).step_type = "transformation"
    /\ \E t, l \in DOMAIN attempts[r] :
          /\ StepOf(r, l).step_type = "load" /\ Latest(r, "transformation", t, l)
          /\ MadeFrom(r, x.csv, t)

Warehouse == table = <<>> \/ \E x : table = <<x>> /\ Loaded(x)

IInv == Shape /\ (\A r \in Runs : Log(r) /\ Data(r)) /\ Warehouse

-----------------------------------------------------------------------------
(* The powers of two *)

\* The recursive definition of Power defines a function.
LEMMA PowerDef == Power = [n \in Nat |-> IF n = 0 THEN 1 ELSE 2 * Power[n - 1]]
  <1> DEFINE Powers(f, k) == \A n \in 0..k : f[n] = IF n = 0 THEN 1 ELSE 2 * f[n - 1]
             Good == {k \in Nat : \E f : Powers(f, k)}
  <1>1. 0 \in Good
    <2>1. Powers([n \in 0..0 |-> 1], 0)
      OBVIOUS
    <2> QED
      BY <2>1
  <1>2. ASSUME NEW k \in Nat, k \in Good PROVE k + 1 \in Good
    <2>1. PICK f : Powers(f, k)
      BY <1>2
    <2> DEFINE g == [n \in 0..k + 1 |-> IF n = k + 1 THEN 2 * f[k] ELSE f[n]]
    <2>2. ASSUME NEW n \in 0..k + 1 PROVE g[n] = IF n = 0 THEN 1 ELSE 2 * g[n - 1]
      <3>1. CASE n = k + 1
        BY <3>1
      <3>2. CASE n # k + 1
        <4>1. n \in 0..k /\ (n # 0 => n - 1 \in 0..k + 1 /\ n - 1 # k + 1)
          BY <3>2
        <4>2. f[n] = IF n = 0 THEN 1 ELSE 2 * f[n - 1]
          BY <2>1, <4>1
        <4> QED
          BY <3>2, <4>1, <4>2
      <3> QED
        BY <3>1, <3>2
    <2>3. Powers(g, k + 1)
      BY <2>2
    <2> HIDE DEF g, Powers
    <2> QED
      BY <2>3
  <1>3. ASSUME NEW k \in Nat PROVE \E f : Powers(f, k)
    <2>1. \A j \in 0..k : j \in Good
      <3> HIDE DEF Good
      <3> QED
        BY <1>1, <1>2, Upwards
    <2> QED
      BY <2>1
  \* Two of them agree where both are given.
  <1>4. ASSUME NEW k \in Nat, NEW m \in Nat, NEW f, NEW g, Powers(f, k), Powers(g, m), k <= m
        PROVE  \A i \in 0..k : f[i] = g[i]
    <2> DEFINE Same == {i \in 0..k : f[i] = g[i]}
    <2>1. 0 \in Same
      BY <1>4
    <2>2. ASSUME NEW i \in Nat, i < k, i \in Same PROVE i + 1 \in Same
      <3>1. i + 1 \in 0..k /\ i + 1 \in 0..m /\ i + 1 # 0 /\ (i + 1) - 1 = i
        BY <1>4, <2>2
      <3>2. f[i + 1] = 2 * f[i] /\ g[i + 1] = 2 * g[i]
        BY <1>4, <3>1
      <3> QED
        BY <2>2, <3>1, <3>2
    <2>3. \A i \in 0..k : i \in Same
      <3> HIDE DEF Same
      <3> QED
        BY <2>1, <2>2, Upwards
    <2> QED
      BY <2>3
  <1> DEFINE Upto(n) == CHOOSE f : Powers(f, n)
             P == [n \in Nat |-> Upto(n)[n]]
  <1>5. ASSUME NEW n \in Nat PROVE P[n] = IF n = 0 THEN 1 ELSE 2 * P[n - 1]
    <2>1. Powers(Upto(n), n)
      BY <1>3
    <2>2. CASE n = 0
      BY <2>1, <2>2
    <2>3. CASE n # 0
      <3>1. n - 1 \in Nat /\ n - 1 \in 0..n - 1 /\ n \in 0..n /\ n - 1 <= n
        BY <2>3
      <3>2. Powers(Upto(n - 1), n - 1)
        BY <1>3, <3>1
      <3>3. Upto(n - 1)[n - 1] = Upto(n)[n - 1]
        <4> HIDE DEF Upto, Powers
        <4> QED
          BY <1>4, <2>1, <3>1, <3>2
      <3>4. Upto(n)[n] = 2 * Upto(n)[n - 1]
        BY <2>1, <2>3, <3>1
      <3> QED
        BY <2>3, <3>1, <3>3, <3>4
    <2> QED
      BY <2>2, <2>3
  <1>6. P = [n \in Nat |-> IF n = 0 THEN 1 ELSE 2 * P[n - 1]]
    BY <1>5
  <1> HIDE DEF P
  <1> QED
    BY <1>6 DEF Power

\* Each power is the double of the one before.
LEMMA PowerFacts == \A n \in Nat : Power[n] \in Nat \ {0} /\ Power[n + 1] = 2 * Power[n]
  <1>1. Power[0] = 1 /\ \A n \in Nat : Power[n + 1] = 2 * Power[n]
    BY PowerDef
  <1> DEFINE Good == {n \in Nat : Power[n] \in Nat \ {0}}
  <1>2. 0 \in Good
    BY <1>1
  <1>3. ASSUME NEW n \in Nat, n \in Good PROVE n + 1 \in Good
    BY <1>1, <1>3
  <1>4. ASSUME NEW n \in Nat PROVE n \in Good
    <2>1. \A k \in 0..n : k \in Good
      <3> HIDE DEF Good
      <3> QED
        BY <1>2, <1>3, Upwards
    <2> QED
      BY <2>1
  <1> QED
    BY <1>1, <1>4

\* A delay is a number, and with a backoff the next one is longer, with any jitter.
LEMMA DelayGrows ==
    ASSUME NEW strategy, NEW base \in Nat, NEW n \in Nat \ {0}
    PROVE  /\ calculate_delay(strategy, base, n) \subseteq Nat
           /\ \A x \in calculate_delay(strategy, base, n), y \in calculate_delay(strategy, base, n + 1) :
                 strategy \in {"exponential_backoff", "exponential_backoff_jitter"} /\ x > 0 => x < y
  <1> DEFINE p == Power[n - 1]
  <1>1. p \in Nat \ {0} /\ Power[(n + 1) - 1] = 2 * p
    BY PowerFacts
  <1> DEFINE c == base * p
  <1>2. c \in Nat /\ base * Power[(n + 1) - 1] = 2 * c
    BY <1>1
  <1>3. /\ calculate_delay(strategy, base, n) =
               CASE strategy = "exponential_backoff" -> {c}
                 [] strategy = "exponential_backoff_jitter" -> (c + c \div 2)..(2 * c)
                 [] OTHER -> {base}
        /\ calculate_delay(strategy, base, n + 1) =
               CASE strategy = "exponential_backoff" -> {2 * c}
                 [] strategy = "exponential_backoff_jitter" -> (2 * c + (2 * c) \div 2)..(2 * (2 * c))
                 [] OTHER -> {base}
    BY <1>2 DEF calculate_delay
  <1> HIDE DEF c
  <1>4. (2 * c) \div 2 = c /\ c \div 2 \in Nat
    BY <1>2
  <1>5. CASE strategy = "exponential_backoff"
    BY <1>2, <1>3, <1>5
  <1>6. CASE strategy = "exponential_backoff_jitter"
    BY <1>2, <1>3, <1>4, <1>6
  <1>7. CASE strategy \notin {"exponential_backoff", "exponential_backoff_jitter"}
    BY <1>3, <1>7
  <1> QED
    BY <1>5, <1>6, <1>7

-----------------------------------------------------------------------------
(* What the invariant says *)

\* The lists of attempts and of steps, as sequences.
LEMMA Lists ==
    ASSUME Shape, NEW r \in Runs
    PROVE  /\ Len(attempts[r]) \in Nat /\ DOMAIN attempts[r] = 1..Len(attempts[r])
           /\ \A i \in 1..Len(attempts[r]) : attempts[r][i] \in AnAttempt
           /\ plan[r] \in Plans /\ Len(plan[r]) \in Nat /\ DOMAIN plan[r] = 1..Len(plan[r])
           /\ \A k \in 1..Len(plan[r]) : /\ plan[r][k].step_type \in Types
                                         /\ plan[r][k].max_retries \in Int /\ plan[r][k].base_delay \in Nat
           /\ at[r] \in Place /\ at[r].step \in 1..Len(plan[r]) + 1
  <1>1. attempts[r] \in Seq(AnAttempt)
    BY DEF Shape
  <1>2. Len(attempts[r]) \in Nat /\ DOMAIN attempts[r] = 1..Len(attempts[r])
        /\ \A i \in 1..Len(attempts[r]) : attempts[r][i] \in AnAttempt
    BY <1>1
  <1>3. plan[r] \in Plans /\ at[r] \in Place /\ at[r].step <= Len(plan[r]) + 1
    BY DEF Shape
  <1>4. Len(plan[r]) \in Nat /\ DOMAIN plan[r] = 1..Len(plan[r])
        /\ \A k \in 1..Len(plan[r]) : /\ plan[r][k].step_type \in Types
                                      /\ plan[r][k].max_retries \in Int /\ plan[r][k].base_delay \in Nat
    BY <1>3, PlansAssumption
  <1>5. at[r].step \in 1..Len(plan[r]) + 1
    BY <1>3, <1>4 DEF Place
  <1> QED
    BY <1>2, <1>3, <1>4, <1>5

\* The list says which attempts of which steps there were.
LEMMA TypeSound == IInv => TypeOK
  <1> SUFFICES ASSUME IInv PROVE TypeOK
    OBVIOUS
  <1>1. ASSUME NEW r \in Runs
        PROVE  /\ at[r].pc \in {"attempt", "load", "success", "failed"}
               /\ at[r].step \in 1..(Len(plan[r]) + 1)
               /\ at[r].attempt \in Nat \ {0}
               /\ run_context[r].load \in BOOLEAN
               /\ \A key \in {"ingestion", "validation", "transformation"} : run_context[r][key] \in Name \cup {None}
               /\ \A n \in Name : files[r][n] # None => IsCsv(files[r][n])
               /\ \A i \in DOMAIN attempts[r] : attempts[r][i].delay \in Nat
    <2>1. at[r] \in Place /\ at[r].step \in 1..(Len(plan[r]) + 1)
          /\ \A i \in DOMAIN attempts[r] : attempts[r][i] \in AnAttempt
      BY Lists DEF IInv
    <2>2. run_context[r] \in Context
      BY DEF IInv, Shape
    <2>3. \A n \in Name : files[r][n] # None => IsCsv(files[r][n])
      BY DEF IInv, Data, Stored
    <2> QED
      BY <2>1, <2>2, <2>3 DEF Place, AnAttempt, Context
  <1>2. \A i \in DOMAIN table : table[i].run \in Runs /\ IsCsv(table[i].csv)
    BY DEF IInv, Warehouse, Loaded
  <1> QED
    BY <1>1, <1>2 DEF IInv, Shape, TypeOK

\* What is loaded came through the stages, from a file that was validated.
LEMMA LoadSound == IInv => MisorderedNeverLoads /\ LoadedWasValidated
  <1> SUFFICES ASSUME IInv PROVE MisorderedNeverLoads /\ LoadedWasValidated
    OBVIOUS
  <1>1. table = <<>> \/ \E x : table = <<x>> /\ Loaded(x)
    BY DEF IInv, Warehouse
  <1>2. \A i \in DOMAIN table : Loaded(table[i])
    BY <1>1
  <1>3. MisorderedNeverLoads
    BY <1>2 DEF MisorderedNeverLoads, Loaded
  <1>4. ASSUME NEW x, table = <<x>>, Loaded(x) PROVE LoadedWasValidated
    <2>1. table[Len(table)] = x /\ TableRows = Rows(x.csv)
      <3>1. DOMAIN table = {1} /\ table[1] = x /\ Len(table) = 1
        BY <1>4
      <3>2. {Rows(table[i].csv) : i \in DOMAIN table} = {Rows(x.csv)}
        BY <3>1
      <3> QED
        BY <3>1, <3>2 DEF TableRows
    <2>r. PICK r : r = x.run
      OBVIOUS
    <2>2. PICK t \in DOMAIN attempts[r], l \in DOMAIN attempts[r] :
             /\ StepOf(r, l).step_type = "load" /\ Latest(r, "transformation", t, l)
             /\ MadeFrom(r, x.csv, t)
      BY <1>4, <2>r DEF Loaded
    <2>3. PICK f \in history[r].fetched, v \in DOMAIN attempts[r] :
             /\ Latest(r, "validation", v, t) /\ (history[r].clash \/ Checks(StepOf(r, v).config, f))
             /\ Rows(x.csv) = Kept(StepOf(r, t).config, f)
      BY <2>2 DEF MadeFrom
    <2>4. TableRows = Kept(StepOf(r, t).config, f) /\ table[Len(table)].run = r
      BY <2>1, <2>r, <2>3
    <2> QED
      BY <2>2, <2>3, <2>4 DEF LoadedWasValidated
  <1>5. table = <<>> => LoadedWasValidated
    BY DEF LoadedWasValidated
  <1> QED
    BY <1>1, <1>3, <1>4, <1>5

\* A run that succeeded has its steps behind it.
LEMMA DoneSound == IInv => SuccessMeansDone
  <1> SUFFICES ASSUME IInv, NEW r \in Runs, at[r].pc = "success"
               PROVE  /\ \A k \in DOMAIN plan[r] :
                            plan[r][k].max_retries >= 0 <=> \E i \in Succeeded(r) : attempts[r][i].step_order = k
                      /\ \A i, j \in Succeeded(r) : i < j => attempts[r][i].step_order < attempts[r][j].step_order
    BY DEF SuccessMeansDone
  <1>0. Shape /\ Behind(r) /\ Going(r) /\ Sorted(r)
    BY DEF IInv, Log
  <1>1. DOMAIN plan[r] = 1..at[r].step - 1
    BY <1>0, Lists DEF Going
  <1>2. \A i, j \in Succeeded(r) : i < j => attempts[r][i].step_order < attempts[r][j].step_order
    BY <1>0, Lists DEF Sorted, Succeeded
  <1> QED
    BY <1>0, <1>1, <1>2 DEF Behind

\* Attempts of one step that follow one another are numbered so, and so are their delays.
LEMMA BackoffSound == IInv => BackoffGrows
  <1> SUFFICES ASSUME IInv, NEW r \in Runs, NEW i \in 1..(Len(attempts[r]) - 1),
                      attempts[r][i].step_order = attempts[r][i + 1].step_order,
                      attempts[r][i].delay > 0, attempts[r][i + 1].delay > 0,
                      StepOf(r, i).strategy \in {"exponential_backoff", "exponential_backoff_jitter"}
               PROVE  attempts[r][i].delay < attempts[r][i + 1].delay
    BY DEF BackoffGrows, StepOf
  <1>0. Shape /\ Sorted(r) /\ \A j \in 1..Len(attempts[r]) : Told(r, j)
    BY DEF IInv, Log
  <1>1. i \in 1..Len(attempts[r]) /\ i + 1 \in 1..Len(attempts[r])
    BY <1>0, Lists
  <1>2. StepOf(r, i + 1) = StepOf(r, i)
    BY DEF StepOf
  <1>3. /\ attempts[r][i].delay \in
               calculate_delay(StepOf(r, i).strategy, StepOf(r, i).base_delay, attempts[r][i].attempt)
        /\ attempts[r][i + 1].delay \in
               calculate_delay(StepOf(r, i).strategy, StepOf(r, i).base_delay, attempts[r][i + 1].attempt)
    BY <1>0, <1>1, <1>2 DEF Told
  <1>4. attempts[r][i + 1].attempt = attempts[r][i].attempt + 1
    BY <1>0, <1>1 DEF Sorted
  <1>5. attempts[r][i].attempt \in Nat \ {0} /\ StepOf(r, i).base_delay \in Nat
    BY <1>0, <1>1, Lists DEF Told, AnAttempt, StepOf
  <1> QED
    BY <1>3, <1>4, <1>5, DelayGrows

\* One attempt in all means no retry.
LEMMA NoRetries == \A m \in Int : 1 = m + 1 => m = 0
  OBVIOUS

\* The last attempt on the list of a run that an attempt made fail is the one.
LEMMA BlameSound == IInv => BlamesTheRightStep
  <1> SUFFICES ASSUME IInv, NEW r \in Runs, at[r].pc = "failed", history[r].cause # 0
               PROVE  LET step == plan[r][history[r].cause] IN
                      /\ _extract_failed_step(r) = step.step_type
                      /\ Cardinality({i \in DOMAIN attempts[r] : attempts[r][i].step_order = history[r].cause})
                            = at[r].attempt
                      /\ /\ _summarize_attempt_pattern(r) = "failed on first attempt with no retries configured"
                         /\ at[r].attempt = step.max_retries + 1
                         => step.max_retries = 0
    BY DEF BlamesTheRightStep
  <1> DEFINE n == Len(attempts[r])
             tried == at[r].attempt
  <1>0. Shape /\ Ending(r) /\ history[r].cause = at[r].step /\ \A i \in 1..n : Told(r, i)
    BY DEF IInv, Log, Going
  <1>1. n \in Nat /\ DOMAIN attempts[r] = 1..n /\ tried \in Nat \ {0} /\ tried <= n
    BY <1>0, Lists DEF Ending, Tried, Place
  <1>2. \A i \in 1..n : IF i > n - tried
                        THEN attempts[r][i].step_order = at[r].step /\ attempts[r][i].status = "failed"
                        ELSE attempts[r][i].step_order < at[r].step
    BY <1>0 DEF Ending, Tried
  <1>3. n \in FailedAttempts(r) /\ \A i \in FailedAttempts(r) : i <= n
    BY <1>1, <1>2 DEF FailedAttempts
  <1>4. _extract_failed_step(r) = plan[r][history[r].cause].step_type
    <2>1. (CHOOSE i \in FailedAttempts(r) : \A j \in FailedAttempts(r) : j <= i) = n
      <3>1. \A i \in FailedAttempts(r) : (\A j \in FailedAttempts(r) : j <= i) => i = n
        BY <1>1, <1>3 DEF FailedAttempts
      <3> HIDE DEF n
      <3> QED
        BY <1>3, <3>1
    <2>2. attempts[r][n].step_type = plan[r][history[r].cause].step_type
      <3>1. n \in 1..n /\ n > n - tried
        BY <1>1
      <3>2. attempts[r][n].step_order = at[r].step /\ Told(r, n)
        BY <1>0, <1>2, <3>1
      <3> HIDE DEF n
      <3> QED
        BY <1>0, <3>2 DEF Told, StepOf
    <2> HIDE DEF n
    <2> QED
      BY <2>1, <2>2, <1>3 DEF _extract_failed_step
  <1>5. Cardinality({i \in DOMAIN attempts[r] : attempts[r][i].step_order = history[r].cause}) = tried
    <2>1. {i \in DOMAIN attempts[r] : attempts[r][i].step_order = history[r].cause} = (n - tried + 1)..n
      <3>1. at[r].step \in Nat
        BY <1>0, Lists
      <3>2. \A i \in 1..n : attempts[r][i].step_order \in Nat
        BY <1>0, Lists DEF AnAttempt
      <3> QED
        BY <1>0, <1>1, <1>2, <3>1, <3>2
    <2>2. Cardinality((n - tried + 1)..n) = tried
      <3>1. n - tried + 1 \in Int /\ n \in Int /\ ~(n - tried + 1 > n) /\ n - (n - tried + 1) + 1 = tried
        BY <1>1
      <3> HIDE DEF n, tried
      <3> QED
        BY <3>1, FS_Interval
    <2> QED
      BY <2>1, <2>2
  <1>6. ASSUME _summarize_attempt_pattern(r) = "failed on first attempt with no retries configured"
        PROVE  tried = 1
    <2>1. Cardinality(FailedAttempts(r)) = 1
      BY <1>6 DEF _summarize_attempt_pattern
    <2>2. IsFiniteSet(FailedAttempts(r))
      <3>1. FailedAttempts(r) \subseteq 1..n /\ 1 \in Int /\ n \in Int
        BY <1>1 DEF FailedAttempts
      <3> HIDE DEF n
      <3> QED
        BY <3>1, FS_Interval, FS_Subset
    <2>3. \E i : FailedAttempts(r) = {i}
      BY <2>1, <2>2, FS_Singleton
    <2>4. tried # 1 => n - 1 \in FailedAttempts(r) /\ n - 1 # n
      BY <1>1, <1>2 DEF FailedAttempts
    <2> QED
      BY <2>3, <2>4, <1>3
  <1>7. plan[r][history[r].cause].max_retries \in Int
    BY <1>0, Lists DEF IInv, Log, Going
  <1>8. /\ _summarize_attempt_pattern(r) = "failed on first attempt with no retries configured"
        /\ at[r].attempt = plan[r][history[r].cause].max_retries + 1
        => plan[r][history[r].cause].max_retries = 0
    <2> SUFFICES ASSUME _summarize_attempt_pattern(r) = "failed on first attempt with no retries configured",
                        at[r].attempt = plan[r][history[r].cause].max_retries + 1
                 PROVE  plan[r][history[r].cause].max_retries = 0
      OBVIOUS
    <2>1. at[r].attempt = 1
      BY <1>6
    <2>2. 1 = plan[r][history[r].cause].max_retries + 1
      BY <2>1
    <2> QED
      BY <2>2, <1>7, NoRetries
  <1> QED
    BY <1>4, <1>5, <1>8

\* At the start nobody has done anything.
LEMMA InitInv == Init => IInv
  <1> SUFFICES ASSUME Init PROVE IInv
    OBVIOUS
  <1>1. \A r \in Runs : attempts[r] = <<>> /\ Len(attempts[r]) = 0 /\ DOMAIN attempts[r] = {}
    BY DEF Init
  <1>2. \A r \in Runs : Len(plan[r]) \in Nat
    BY PlansAssumption DEF Init
  <1>3. Shape
    <2>1. second \in Seconds /\ plan \in [Runs -> Plans]
      BY SecondsAssumption DEF Init, Seconds
    <2>2. at \in [Runs -> Place] /\ attempts \in [Runs -> Seq(AnAttempt)] /\ run_context \in [Runs -> Context]
      BY DEF Init, Place, Context, NoContext
    <2>3. files = [r \in Runs |-> files[r]] /\ \A r \in Runs : files[r] = [n \in Name |-> files[r][n]]
      BY DEF Init
    <2>4. /\ history = [r \in Runs |-> history[r]]
          /\ \A r \in Runs : /\ history[r] = Past(history[r].fetched, history[r].clash, history[r].cause)
                             /\ history[r].clash \in BOOLEAN /\ history[r].cause \in Nat
                             /\ at[r].step <= Len(plan[r]) + 1
      <3>1. history = [r \in Runs |-> Past({}, FALSE, 0)]
        BY DEF Init, Past
      <3>2. \A r \in Runs : at[r].step = 1
        BY DEF Init
      <3>3. \A r \in Runs : at[r].step <= Len(plan[r]) + 1
        BY <1>2, <3>2
      <3>4. \A r \in Runs : history[r] = Past({}, FALSE, 0)
        BY <3>1
      <3>5. Past({}, FALSE, 0).fetched = {} /\ Past({}, FALSE, 0).clash = FALSE /\ Past({}, FALSE, 0).cause = 0
        BY DEF Past
      <3>6. history = [r \in Runs |-> history[r]]
        BY <3>1
      <3>7. ASSUME NEW r \in Runs
            PROVE  /\ history[r] = Past(history[r].fetched, history[r].clash, history[r].cause)
                   /\ history[r].clash = FALSE /\ history[r].cause = 0
        BY <3>4, <3>5, Zenon
      <3>8. FALSE \in BOOLEAN /\ 0 \in Nat
        OBVIOUS
      <3> QED
        BY <3>3, <3>6, <3>7, <3>8, Zenon
    <2> QED
      BY <2>1, <2>2, <2>3, <2>4 DEF Shape
  <1>4. ASSUME NEW r \in Runs PROVE Log(r)
    <2>1. Tried(r) = 0 /\ at[r].step = 1 /\ at[r].pc = "attempt" /\ history[r].cause = 0
      BY DEF Init, Tried
    <2> QED
      BY <1>1, <2>1 DEF Log, Ending, Sorted, Behind, Going
  <1>5. ASSUME NEW r \in Runs PROVE Data(r)
    <2>1. run_context[r] = NoContext /\ at[r].pc = "attempt" /\ history[r].fetched = {}
          /\ \A n \in Name : files[r][n] = None
      BY DEF Init
    <2> QED
      BY <2>1 DEF Data, Stages, Stored, Passed, Made, NoContext
  <1>6. Warehouse
    BY DEF Init, Warehouse
  <1> QED
    BY <1>3, <1>4, <1>5, <1>6 DEF IInv

-----------------------------------------------------------------------------
(* The list of attempts *)

Entry(r, status, error, delay) ==
    [step_order |-> at[r].step, step_type |-> Step(r).step_type, attempt |-> at[r].attempt,
     status |-> status, error |-> error, delay |-> delay]

\* The executor of r is at a step that it attempts.
Active(r) == /\ at[r].pc \in {"attempt", "load"} /\ at[r].step <= Len(plan[r])
             /\ Step(r).max_retries >= 0

\* What an entry of the list says.
LEMMA EntryFields ==
    ASSUME NEW r, NEW status, NEW error, NEW delay
    PROVE  /\ Entry(r, status, error, delay).step_order = at[r].step
           /\ Entry(r, status, error, delay).step_type = Step(r).step_type
           /\ Entry(r, status, error, delay).attempt = at[r].attempt
           /\ Entry(r, status, error, delay).status = status
           /\ Entry(r, status, error, delay).delay = delay
  BY DEF Entry

\* A run that is at a step is at one of its plan, in one of its attempts.
LEMMA AtStep ==
    ASSUME Shape, NEW r \in Runs, at[r].step <= Len(plan[r])
    PROVE  at[r].step \in 1..Len(plan[r]) /\ at[r].attempt \in Nat \ {0} /\ Step(r).step_type \in Types
  <1>1. at[r].step \in 1..Len(plan[r]) /\ at[r].attempt \in Nat \ {0}
    BY Lists DEF Place
  <1> QED
    BY <1>1, Lists DEF Step

\* An entry belongs on the list.
LEMMA EntryFacts ==
    ASSUME NEW r \in Runs, NEW status \in {"success", "failed"}, NEW error \in Errors \cup {None}, NEW delay \in Nat,
           Shape, at[r].step <= Len(plan[r])
    PROVE  Entry(r, status, error, delay) \in AnAttempt
  BY AtStep DEF Entry, AnAttempt

\* The place of an entry that is added, and of those before it.
LEMMA Added ==
    ASSUME Shape, Shape', NEW r \in Runs, NEW e, attempts'[r] = Append(attempts[r], e), plan' = plan
    PROVE  /\ Len(attempts'[r]) = Len(attempts[r]) + 1 /\ Len(attempts[r]) \in Nat
           /\ DOMAIN attempts[r] = 1..Len(attempts[r]) /\ DOMAIN attempts'[r] = 1..Len(attempts[r]) + 1
           /\ \A i \in 1..Len(attempts[r]) : attempts'[r][i] = attempts[r][i] /\ StepOf(r, i)' = StepOf(r, i)
           /\ attempts'[r][Len(attempts[r]) + 1] = e
           /\ e.status = "success" => Succeeded(r)' = Succeeded(r) \cup {Len(attempts[r]) + 1}
           /\ e.status # "success" => Succeeded(r)' = Succeeded(r)
           /\ Succeeded(r) \subseteq 1..Len(attempts[r])
  <1> DEFINE n == Len(attempts[r])
  <1>1. attempts[r] \in Seq(AnAttempt) /\ attempts'[r] \in Seq(AnAttempt)
    BY DEF Shape
  <1>2. n \in Nat /\ DOMAIN attempts[r] = 1..n
    BY <1>1
  <1>3. Len(attempts'[r]) = n + 1 /\ attempts'[r][n + 1] = e /\ \A i \in 1..n : attempts'[r][i] = attempts[r][i]
    BY <1>1
  <1>4. DOMAIN attempts'[r] = 1..n + 1
    BY <1>1, <1>3
  <1>5. \A i \in 1..n : StepOf(r, i)' = StepOf(r, i)
    BY <1>3 DEF StepOf
  <1> HIDE DEF n
  <1>6. \A i \in 1..n + 1 : i \in 1..n \/ i = n + 1
    BY <1>2
  <1>7. \A i \in 1..n : i \in 1..n + 1
    BY <1>2
  <1>8. n + 1 \in 1..n + 1
    BY <1>2
  <1>9. Succeeded(r)' = {i \in 1..n + 1 : attempts'[r][i].status = "success"}
    BY <1>4 DEF Succeeded
  <1>10. Succeeded(r) = {i \in 1..n : attempts[r][i].status = "success"}
    BY <1>2 DEF Succeeded
  <1>11. e.status = "success" => Succeeded(r)' = Succeeded(r) \cup {n + 1}
    BY <1>3, <1>6, <1>7, <1>8, <1>9, <1>10
  <1>12. e.status # "success" => Succeeded(r)' = Succeeded(r)
    BY <1>3, <1>6, <1>7, <1>8, <1>9, <1>10
  <1> QED
    BY <1>2, <1>3, <1>4, <1>5, <1>10, <1>11, <1>12 DEF n

\* The entries at the present step, while a run is at it: one less than its attempt.
LEMMA Present ==
    ASSUME Shape, NEW r \in Runs, Log(r), at[r].pc \in {"attempt", "load"}
    PROVE  LET n == Len(attempts[r])
               k == at[r].attempt - 1
           IN  /\ history[r].cause = 0 /\ Tried(r) = k /\ k \in Nat /\ n \in Nat /\ k <= n
               /\ \A i \in 1..n : attempts[r][i].step_order \in Nat /\ attempts[r][i].attempt \in Nat
               /\ \A i \in 1..n : IF i > n - k
                     THEN /\ attempts[r][i].step_order = at[r].step /\ attempts[r][i].status = "failed"
                          /\ attempts[r][i].attempt = i - (n - k)
                     ELSE attempts[r][i].step_order < at[r].step
  <1>1. history[r].cause = 0
    BY DEF Log, Going
  <1>2. Tried(r) = at[r].attempt - 1 /\ at[r].attempt \in Nat \ {0}
    BY <1>1, Lists DEF Tried, Place
  <1>3. \A i \in 1..Len(attempts[r]) : attempts[r][i].step_order \in Nat /\ attempts[r][i].attempt \in Nat
    BY Lists DEF AnAttempt
  <1>4. Len(attempts[r]) \in Nat
    BY Lists
  <1> QED
    BY <1>1, <1>2, <1>3, <1>4 DEF Log, Ending

\* A step whose max_retries is negative is passed over.
LEMMA LogSkip ==
    ASSUME Shape, Shape', NEW r \in Runs, Log(r), plan' = plan, attempts'[r] = attempts[r],
           history'[r].cause = history[r].cause,
           InLoop(r), Step(r).max_retries < 0,
           at'[r].pc = "attempt", at'[r].step = at[r].step + 1, at'[r].attempt = 1
    PROVE  Log(r)'
  <1> DEFINE n == Len(attempts[r])
             k == at[r].attempt - 1
  <1>1. /\ history[r].cause = 0 /\ k \in Nat /\ n \in Nat /\ k <= n
        /\ \A i \in 1..n : attempts[r][i].step_order \in Nat
        /\ \A i \in 1..n : IF i > n - k
              THEN attempts[r][i].step_order = at[r].step /\ attempts[r][i].status = "failed"
              ELSE attempts[r][i].step_order < at[r].step
    BY Present DEF InLoop
  <1>2. at[r].step \in 1..Len(plan[r]) /\ Len(plan[r]) \in Nat
    BY Lists DEF InLoop
  <1>3. \A i \in 1..n : Told(r, i)'
    <2>1. \A i \in 1..n : Told(r, i)
      BY DEF Log
    <2> QED
      BY <2>1 DEF Told, StepOf
  <1>4. Sorted(r)'
    <2>1. Sorted(r)
      BY DEF Log
    <2> QED
      BY <2>1 DEF Sorted
  <1>5. Tried(r)' = 0
    BY <1>1 DEF Tried
  <1>6. Ending(r)'
    <2>1. \A i \in 1..n : attempts[r][i].step_order < at[r].step + 1 /\ ~(i > n - 0)
      BY <1>1, <1>2
    <2> QED
      BY <1>1, <1>5, <2>1 DEF Ending
  <1>7. Behind(r)'
    <2>0. Succeeded(r)' = Succeeded(r)
      BY DEF Succeeded
    <2>1. ASSUME NEW i \in Succeeded(r), attempts[r][i].step_order = at[r].step PROVE FALSE
      <3>1. i \in 1..n /\ attempts[r][i].status = "success"
        BY Lists DEF Succeeded
      <3> QED
        BY <1>1, <1>2, <2>1, <3>1
    <2>2. \A j \in 1..at[r].step - 1 :
             plan[r][j].max_retries >= 0 <=> \E i \in Succeeded(r) : attempts[r][i].step_order = j
      BY DEF Log, Behind
    <2>3. plan[r][at[r].step].max_retries \in Int /\ plan[r][at[r].step].max_retries < 0
      BY <1>2, Lists DEF Step
    <2>4. ASSUME NEW j \in 1..(at[r].step + 1) - 1
          PROVE  plan[r][j].max_retries >= 0 <=> \E i \in Succeeded(r) : attempts[r][i].step_order = j
      <3>1. CASE j = at[r].step
        <4>1. ~(plan[r][at[r].step].max_retries >= 0)
          BY <2>3
        <4> QED
          BY <2>1, <3>1, <4>1
      <3>2. CASE j # at[r].step
        <4>1. j \in 1..at[r].step - 1
          BY <1>2, <3>2
        <4> QED
          BY <2>2, <4>1
      <3> QED
        BY <3>1, <3>2
    <2> QED
      BY <2>0, <2>4 DEF Behind
  <1>8. Going(r)'
    BY <1>1 DEF Going
  <1> QED
    BY <1>3, <1>4, <1>6, <1>7, <1>8 DEF Log

\* What an entry about the present step leaves of the order of the list.
LEMMA SortedGrows ==
    ASSUME Shape, Shape', NEW r \in Runs, Log(r), plan' = plan, Active(r),
           NEW status \in {"success", "failed"}, NEW error \in Errors \cup {None}, NEW delay \in Nat,
           delay > 0 => delay \in calculate_delay(Step(r).strategy, Step(r).base_delay, at[r].attempt),
           attempts'[r] = Append(attempts[r], Entry(r, status, error, delay))
    PROVE  (\A i \in 1..Len(attempts'[r]) : Told(r, i)') /\ Sorted(r)'
  <1>n. PICK n : n = Len(attempts[r])
    OBVIOUS
  <1>k. PICK k : k = at[r].attempt - 1
    OBVIOUS
  <1>s. PICK s : s = at[r].step
    OBVIOUS
  <1>i. n \in Nat /\ k \in Nat /\ s \in Nat /\ k <= n /\ at[r].attempt = k + 1
    <2>1. at[r].attempt \in Nat \ {0} /\ at[r].attempt - 1 <= Len(attempts[r]) /\ Len(attempts[r]) \in Nat
      BY Lists, Present DEF Place, Active
    <2>2. at[r].step \in Nat
      BY Lists
    <2> QED
      BY <1>n, <1>k, <1>s, <2>1, <2>2
  <1>1. /\ k \in Nat /\ n \in Nat /\ k <= n
        /\ \A i \in 1..n : attempts[r][i].step_order \in Nat /\ attempts[r][i].attempt \in Nat
        /\ \A i \in 1..n : IF i > n - k
              THEN /\ attempts[r][i].step_order = s /\ attempts[r][i].status = "failed"
                   /\ attempts[r][i].attempt = i - (n - k)
              ELSE attempts[r][i].step_order < s
    BY <1>n, <1>k, <1>s, Present DEF Active
  <1>2. /\ attempts'[r][n + 1].step_order = s /\ attempts'[r][n + 1].step_type = Step(r).step_type
        /\ attempts'[r][n + 1].attempt = k + 1 /\ attempts'[r][n + 1].delay = delay
        /\ s \in 1..Len(plan[r]) /\ at[r].attempt = k + 1
        /\ Len(attempts'[r]) = n + 1 /\ \A i \in 1..n : attempts'[r][i] = attempts[r][i]
    <2>1. Len(attempts'[r]) = n + 1 /\ (\A i \in 1..n : attempts'[r][i] = attempts[r][i])
          /\ attempts'[r][n + 1] = Entry(r, status, error, delay)
      BY <1>n, Added
    <2>2. at[r].attempt \in Nat /\ at[r].attempt = k + 1
      BY <1>k, Lists DEF Place
    <2>3. at[r].step <= Len(plan[r])
      BY DEF Active
    <2>4. /\ Entry(r, status, error, delay).step_order = at[r].step
          /\ Entry(r, status, error, delay).step_type = Step(r).step_type
          /\ Entry(r, status, error, delay).attempt = at[r].attempt
          /\ Entry(r, status, error, delay).delay = delay
          /\ at[r].step \in 1..Len(plan[r])
      BY <2>3, EntryFields, AtStep
    <2> QED
      BY <1>s, <2>1, <2>2, <2>4
  <1>3. StepOf(r, n + 1)' = Step(r)
    <2> QED
      BY <1>2, <1>s DEF StepOf, Step
  <1>4. \A i \in 1..n + 1 : Told(r, i)'
    <2>1. ASSUME NEW i \in 1..n PROVE Told(r, i)'
      <3>1. Told(r, i)
        BY <1>n DEF Log
      <3>2. attempts'[r][i] = attempts[r][i]
        BY <1>2
      <3> QED
        BY <3>1, <3>2 DEF Told, StepOf
    <2>2. Told(r, n + 1)'
      BY <1>2, <1>3, <1>s DEF Told
    <2>3. \A i \in 1..n + 1 : i \in 1..n \/ i = n + 1
      BY <1>1
    <2> QED
      BY <2>1, <2>2, <2>3, Zenon
  <1>5. Sorted(r)
    BY DEF Log
  <1>6. ASSUME NEW i \in 1..n + 1, NEW j \in 1..n + 1, i < j
        PROVE  /\ attempts'[r][i].step_order <= attempts'[r][j].step_order
               /\ attempts'[r][i].status = "success" => attempts'[r][i].step_order < attempts'[r][j].step_order
    <2>1. i \in 1..n /\ (j \in 1..n \/ j = n + 1)
      BY <1>i, <1>6
    <2>2. CASE j \in 1..n
      <3>1. attempts'[r][i] = attempts[r][i] /\ attempts'[r][j] = attempts[r][j]
        BY <1>2, <2>1, <2>2
      <3> QED
        BY <1>5, <1>6, <1>n, <2>1, <2>2, <3>1 DEF Sorted
    <2>3. CASE j = n + 1
      <3>1. attempts'[r][i] = attempts[r][i] /\ attempts'[r][j].step_order = s
        BY <1>2, <2>1, <2>3
      <3> QED
        BY <1>1, <1>2, <1>i, <2>1, <3>1, SMTT(30)
    <2> QED
      BY <2>1, <2>2, <2>3
  <1>7. ASSUME NEW i \in 1..n + 1, i + 1 \in 1..n + 1, attempts'[r][i].step_order = attempts'[r][i + 1].step_order
        PROVE  attempts'[r][i + 1].attempt = attempts'[r][i].attempt + 1
    <2>1. i \in 1..n /\ (i + 1 \in 1..n \/ i = n)
      BY <1>1, <1>7
    <2>2. CASE i + 1 \in 1..n
      <3>1. attempts'[r][i] = attempts[r][i] /\ attempts'[r][i + 1] = attempts[r][i + 1]
        BY <1>2, <2>1, <2>2
      <3> QED
        BY <1>5, <1>7, <1>n, <2>1, <2>2, <3>1 DEF Sorted
    <2>3. CASE i = n
      <3>1. /\ attempts'[r][i] = attempts[r][i]
            /\ attempts'[r][i + 1].step_order = s /\ attempts'[r][i + 1].attempt = k + 1
        BY <1>2, <2>1, <2>3
      <3>2. attempts[r][n].step_order = s /\ n \in 1..n
        BY <1>7, <2>1, <2>3, <3>1
      <3>3. n > n - k /\ attempts[r][n].attempt = n - (n - k)
        BY <1>1, <1>2, <3>2
      <3>4. n - (n - k) = k
        BY <1>1
      <3> QED
        BY <2>3, <3>1, <3>3, <3>4
    <2> QED
      BY <2>1, <2>2, <2>3
  <1>8. Sorted(r)'
    <2> QED
      BY <1>2, <1>6, <1>7 DEF Sorted
  <1> QED
    BY <1>2, <1>4, <1>8

\* A successful attempt is the last one at its step.
LEMMA LogSuccess ==
    ASSUME Shape, Shape', NEW r \in Runs, Log(r), plan' = plan, Active(r),
           attempts'[r] = Append(attempts[r], Entry(r, "success", None, 0)), history'[r].cause = history[r].cause,
           at'[r].pc = "attempt", at'[r].step = at[r].step + 1, at'[r].attempt = 1
    PROVE  Log(r)'
  <1>n. PICK n : n = Len(attempts[r])
    OBVIOUS
  <1>k. PICK k : k = at[r].attempt - 1
    OBVIOUS
  <1>s. PICK s : s = at[r].step
    OBVIOUS
  <1>i. n \in Nat /\ k \in Nat /\ s \in Nat /\ k <= n /\ at[r].attempt = k + 1
    <2>1. at[r].attempt \in Nat \ {0} /\ at[r].attempt - 1 <= Len(attempts[r]) /\ Len(attempts[r]) \in Nat
      BY Lists, Present DEF Place, Active
    <2>2. at[r].step \in Nat
      BY Lists
    <2> QED
      BY <1>n, <1>k, <1>s, <2>1, <2>2
  <1>1. /\ history[r].cause = 0 /\ k \in Nat /\ n \in Nat /\ k <= n
        /\ \A i \in 1..n : attempts[r][i].step_order \in Nat
        /\ \A i \in 1..n : IF i > n - k THEN attempts[r][i].step_order = s ELSE attempts[r][i].step_order < s
    BY <1>n, <1>k, <1>s, Present DEF Active
  <1>0. "success" \in {"success", "failed"} /\ None \in Errors \cup {None} /\ 0 \in Nat /\ ~(0 > 0)
    OBVIOUS
  <1>2. (\A i \in 1..Len(attempts'[r]) : Told(r, i)') /\ Sorted(r)'
    <2> QED
      BY <1>0, SortedGrows
  <1>3. /\ Len(attempts'[r]) = n + 1 /\ (\A i \in 1..n : attempts'[r][i] = attempts[r][i])
        /\ attempts'[r][n + 1] = Entry(r, "success", None, 0)
        /\ Succeeded(r) \subseteq 1..n
    BY <1>n, Added
  <1>4. Entry(r, "success", None, 0).status = "success" /\ Entry(r, "success", None, 0).step_order = s
        /\ s \in 1..Len(plan[r])
    <2>1. at[r].step <= Len(plan[r])
      BY DEF Active
    <2> QED
      BY <1>s, <2>1, EntryFields, AtStep
  <1>5. Succeeded(r)' = Succeeded(r) \cup {n + 1}
    BY <1>n, <1>4, Added
  <1>6. Tried(r)' = 0
    BY <1>1, <1>n, <1>k DEF Tried
  <1>7. Ending(r)'
    <2>1. ASSUME NEW i \in 1..n + 1 PROVE attempts'[r][i].step_order < s + 1 /\ ~(i > n + 1 - 0)
      <3>1. i \in 1..n \/ i = n + 1
        BY <1>1
      <3>2. CASE i \in 1..n
        <4>1. attempts'[r][i] = attempts[r][i]
          BY <1>3, <3>2
        <4>2. attempts[r][i].step_order \in Nat /\ (attempts[r][i].step_order = s \/ attempts[r][i].step_order < s)
          BY <1>1, <3>2
        <4>3. ~(i > n + 1 - 0)
          BY <1>i, <3>2
        <4>4. attempts[r][i].step_order < s + 1
          BY <1>i, <4>2
        <4> QED
          BY <4>1, <4>3, <4>4
      <3>3. CASE i = n + 1
        <4>1. attempts'[r][i].step_order = s
          BY <1>3, <1>4, <3>3
        <4>2. s < s + 1 /\ ~(n + 1 > n + 1 - 0)
          BY <1>i
        <4> QED
          BY <3>3, <4>1, <4>2
      <3> QED
        BY <3>1, <3>2, <3>3
    <2> QED
      BY <1>1, <1>3, <1>6, <1>s, <2>1 DEF Ending
  <1>8. Behind(r)'
    <2>2. \A j \in 1..s - 1 : plan[r][j].max_retries >= 0 <=> \E i \in Succeeded(r) : attempts[r][i].step_order = j
      BY <1>s DEF Log, Behind
    <2>3. plan[r][s].max_retries >= 0
      BY <1>s DEF Active, Step
    <2>4. ASSUME NEW j \in 1..(s + 1) - 1
          PROVE  plan[r][j].max_retries >= 0 <=> \E i \in Succeeded(r)' : attempts'[r][i].step_order = j
      <3>1. CASE j = s
        BY <1>3, <1>4, <1>5, <2>3, <3>1
      <3>2. CASE j # s
        <4>1. j \in 1..s - 1
          BY <1>4, <3>2
        <4>2. \A i \in Succeeded(r) : attempts'[r][i].step_order = attempts[r][i].step_order
          BY <1>3
        <4>3. attempts'[r][n + 1].step_order # j
          BY <1>3, <1>4, <3>2
        <4> QED
          BY <1>5, <2>2, <4>1, <4>2, <4>3
      <3> QED
        BY <3>1, <3>2
    <2> QED
      BY <1>s, <2>4 DEF Behind
  <1>9. Going(r)'
    BY <1>1 DEF Going
  <1> QED
    BY <1>2, <1>7, <1>8, <1>9 DEF Log

\* A failed attempt is one more at its step, whether another one follows or the run ends.
LEMMA LogFailure ==
    ASSUME Shape, Shape', NEW r \in Runs, Log(r), plan' = plan, Active(r),
           NEW error \in Errors \cup {None}, NEW delay \in Nat,
           delay > 0 => delay \in calculate_delay(Step(r).strategy, Step(r).base_delay, at[r].attempt),
           attempts'[r] = Append(attempts[r], Entry(r, "failed", error, delay)),
           at'[r].step = at[r].step,
           \/ at'[r].pc = "attempt" /\ at'[r].attempt = at[r].attempt + 1 /\ history'[r].cause = history[r].cause
           \/ at'[r].pc = "failed" /\ at'[r].attempt = at[r].attempt /\ history'[r].cause = at[r].step
    PROVE  Log(r)'
  <1>n. PICK n : n = Len(attempts[r])
    OBVIOUS
  <1>k. PICK k : k = at[r].attempt - 1
    OBVIOUS
  <1>s. PICK s : s = at[r].step
    OBVIOUS
  <1>i. n \in Nat /\ k \in Nat /\ s \in Nat /\ k <= n /\ at[r].attempt = k + 1
    <2>1. at[r].attempt \in Nat \ {0} /\ at[r].attempt - 1 <= Len(attempts[r]) /\ Len(attempts[r]) \in Nat
      BY Lists, Present DEF Place, Active
    <2>2. at[r].step \in Nat
      BY Lists
    <2> QED
      BY <1>n, <1>k, <1>s, <2>1, <2>2
  <1>1. /\ history[r].cause = 0 /\ k \in Nat /\ n \in Nat /\ k <= n
        /\ \A i \in 1..n : IF i > n - k
              THEN /\ attempts[r][i].step_order = s /\ attempts[r][i].status = "failed"
                   /\ attempts[r][i].attempt = i - (n - k)
              ELSE attempts[r][i].step_order < s
    BY <1>n, <1>k, <1>s, Present DEF Active
  <1>2. (\A i \in 1..Len(attempts'[r]) : Told(r, i)') /\ Sorted(r)'
    BY SortedGrows
  <1>3. /\ Len(attempts'[r]) = n + 1 /\ (\A i \in 1..n : attempts'[r][i] = attempts[r][i])
        /\ attempts'[r][n + 1] = Entry(r, "failed", error, delay)
        /\ Succeeded(r) \subseteq 1..n
    BY <1>n, Added
  <1>4. /\ Entry(r, "failed", error, delay).status = "failed" /\ Entry(r, "failed", error, delay).step_order = s
        /\ Entry(r, "failed", error, delay).attempt = at[r].attempt
        /\ s \in 1..Len(plan[r]) /\ at[r].attempt \in Nat \ {0}
    <2>1. at[r].step <= Len(plan[r]) /\ "failed" \in {"success", "failed"}
      BY DEF Active
    <2> QED
      BY <1>s, <2>1, EntryFields, AtStep
  <1>5. Succeeded(r)' = Succeeded(r)
    BY <1>n, <1>4, Added
  <1>6. Tried(r)' = k + 1
    BY <1>1, <1>4, <1>i, <1>n, <1>k, <1>s DEF Tried
  <1>7. Ending(r)'
    <2>1. ASSUME NEW i \in 1..n + 1
          PROVE  IF i > (n + 1) - (k + 1)
                 THEN /\ attempts'[r][i].step_order = s /\ attempts'[r][i].status = "failed"
                      /\ attempts'[r][i].attempt = i - ((n + 1) - (k + 1))
                 ELSE attempts'[r][i].step_order < s
      <3>1. i \in 1..n \/ i = n + 1
        BY <1>i
      <3>2. CASE i \in 1..n
        <4>1. attempts'[r][i] = attempts[r][i]
          BY <1>3, <3>2
        <4>2. (n + 1) - (k + 1) = n - k
          BY <1>1
        <4> QED
          BY <1>1, <3>2, <4>1, <4>2
      <3>3. CASE i = n + 1
        <4>1. /\ attempts'[r][i].step_order = s /\ attempts'[r][i].status = "failed"
              /\ attempts'[r][i].attempt = at[r].attempt
          BY <1>3, <1>4, <3>3
        <4>2. i > (n + 1) - (k + 1) /\ at[r].attempt = i - ((n + 1) - (k + 1))
          BY <1>i, <3>3
        <4> QED
          BY <4>1, <4>2
      <3> QED
        BY <3>1, <3>2, <3>3
    <2>2. k + 1 <= n + 1
      BY <1>1
    <2>3. at'[r].step = s
      BY <1>s
    <2> QED
      BY <1>3, <1>6, <2>1, <2>2, <2>3 DEF Ending
  <1>8. Behind(r)'
    <2>1. \A j \in 1..s - 1 : plan[r][j].max_retries >= 0 <=> \E i \in Succeeded(r) : attempts[r][i].step_order = j
      BY <1>s DEF Log, Behind
    <2>2. \A i \in Succeeded(r) : attempts'[r][i].step_order = attempts[r][i].step_order
      BY <1>3
    <2>3. \A j \in 1..s - 1 :
             plan[r][j].max_retries >= 0 <=> \E i \in Succeeded(r)' : attempts'[r][i].step_order = j
      <3> QED
        BY <1>5, <2>1, <2>2, ZenonT(30)
    <2> QED
      BY <1>s, <2>3 DEF Behind
  <1>9. Going(r)'
    BY <1>1, <1>4, <1>s DEF Going
  <1> QED
    BY <1>2, <1>7, <1>8, <1>9 DEF Log

\* A run that begins to load, or that ends after its steps, notes nothing.
LEMMA LogSame ==
    ASSUME Shape, Shape', NEW r \in Runs, Log(r), plan' = plan, attempts'[r] = attempts[r],
           at'[r].step = at[r].step, at'[r].attempt = at[r].attempt, history'[r].cause = history[r].cause, Going(r)'
    PROVE  Log(r)'
  <1>1. (\A i \in 1..Len(attempts[r]) : Told(r, i)) /\ Sorted(r) /\ Ending(r) /\ Behind(r)
    BY DEF Log
  <1>2. \A i \in 1..Len(attempts[r]) : Told(r, i)'
    BY <1>1 DEF Told, StepOf
  <1>3. Sorted(r)'
    BY <1>1 DEF Sorted
  <1>4. Ending(r)'
    BY <1>1 DEF Ending, Tried
  <1>5. Behind(r)'
    BY <1>1 DEF Behind, Succeeded
  <1> QED
    BY <1>2, <1>3, <1>4, <1>5 DEF Log

-----------------------------------------------------------------------------
(* What a step changes *)

\* A step of r changes what belongs to r.
Moved(r, place, list, context, dir, past) ==
    /\ plan' = plan
    /\ at' = [at EXCEPT ![r] = place] /\ attempts' = [attempts EXCEPT ![r] = list]
    /\ run_context' = [run_context EXCEPT ![r] = context] /\ files' = [files EXCEPT ![r] = dir]
    /\ history' = [history EXCEPT ![r] = past]

\* The others are where they were.
Frame(r) == \A s \in Runs \ {r} :
    /\ at'[s] = at[s] /\ attempts'[s] = attempts[s] /\ run_context'[s] = run_context[s]
    /\ files'[s] = files[s] /\ history'[s] = history[s]

\* Nothing a run did is forgotten.
Grown(r) ==
    /\ attempts'[r] = attempts[r] \/ \E e : attempts'[r] = Append(attempts[r], e)
    /\ history[r].fetched \subseteq history'[r].fetched /\ (history[r].clash => history'[r].clash)

\* What is not changed is changed into itself.
LEMMA Unmoved ==
    ASSUME Shape, NEW r \in Runs
    PROVE  /\ at = [at EXCEPT ![r] = at[r]] /\ attempts = [attempts EXCEPT ![r] = attempts[r]]
           /\ run_context = [run_context EXCEPT ![r] = run_context[r]] /\ files = [files EXCEPT ![r] = files[r]]
           /\ history = [history EXCEPT ![r] = history[r]]
           /\ at[r] \in Place /\ attempts[r] \in Seq(AnAttempt) /\ run_context[r] \in Context
           /\ files[r] = [n \in Name |-> files[r][n]]
           /\ history[r] = Past(history[r].fetched, history[r].clash, history[r].cause)
           /\ history[r].clash \in BOOLEAN /\ history[r].cause \in Nat
           /\ at[r].step <= Len(plan[r]) + 1
  <1>1. files = [s \in Runs |-> files[s]] /\ history = [s \in Runs |-> history[s]]
    BY DEF Shape
  <1>2. files = [files EXCEPT ![r] = files[r]]
    BY <1>1
  <1>3. history = [history EXCEPT ![r] = history[r]]
    BY <1>1
  <1>4. at \in [Runs -> Place] /\ attempts \in [Runs -> Seq(AnAttempt)] /\ run_context \in [Runs -> Context]
    BY DEF Shape
  <1>5. at = [at EXCEPT ![r] = at[r]] /\ attempts = [attempts EXCEPT ![r] = attempts[r]]
        /\ run_context = [run_context EXCEPT ![r] = run_context[r]]
    BY <1>4
  <1>6. at[r] \in Place /\ attempts[r] \in Seq(AnAttempt) /\ run_context[r] \in Context
    BY <1>4
  <1>7. /\ files[r] = [n \in Name |-> files[r][n]]
        /\ history[r] = Past(history[r].fetched, history[r].clash, history[r].cause)
        /\ history[r].clash \in BOOLEAN /\ history[r].cause \in Nat
        /\ at[r].step <= Len(plan[r]) + 1
    BY DEF Shape
  <1> QED
    BY <1>2, <1>3, <1>5, <1>6, <1>7

\* A step of r keeps the shape of the state, and leaves the others alone.
LEMMA MovedFacts ==
    ASSUME NEW r \in Runs, NEW place \in Place, NEW list \in Seq(AnAttempt), NEW context \in Context, NEW dir,
           NEW fetched, NEW clash \in BOOLEAN, NEW cause \in Nat,
           Shape, second' \in Seconds, place.step <= Len(plan[r]) + 1, dir = [n \in Name |-> dir[n]],
           Moved(r, place, list, context, dir, Past(fetched, clash, cause))
    PROVE  /\ Shape' /\ Frame(r) /\ plan' = plan
           /\ at'[r] = place /\ attempts'[r] = list /\ run_context'[r] = context /\ files'[r] = dir
           /\ history'[r].fetched = fetched /\ history'[r].clash = clash /\ history'[r].cause = cause
  <1> DEFINE past == Past(fetched, clash, cause)
  <1>0. past.fetched = fetched /\ past.clash = clash /\ past.cause = cause
    BY DEF Past
  <1>1. past = Past(past.fetched, past.clash, past.cause) /\ past.clash \in BOOLEAN /\ past.cause \in Nat
    BY <1>0
  <1>m. /\ plan' = plan
        /\ at' = [at EXCEPT ![r] = place] /\ attempts' = [attempts EXCEPT ![r] = list]
        /\ run_context' = [run_context EXCEPT ![r] = context] /\ files' = [files EXCEPT ![r] = dir]
        /\ history' = [history EXCEPT ![r] = past]
    BY DEF Moved
  <1> HIDE DEF past
  <1>2. at \in [Runs -> Place] /\ attempts \in [Runs -> Seq(AnAttempt)] /\ run_context \in [Runs -> Context]
    BY DEF Shape
  <1>3. /\ at' \in [Runs -> Place] /\ attempts' \in [Runs -> Seq(AnAttempt)] /\ run_context' \in [Runs -> Context]
        /\ at'[r] = place /\ attempts'[r] = list /\ run_context'[r] = context
        /\ \A s \in Runs \ {r} : at'[s] = at[s] /\ attempts'[s] = attempts[s] /\ run_context'[s] = run_context[s]
    BY <1>m, <1>2
  <1>4. files = [s \in Runs |-> files[s]] /\ history = [s \in Runs |-> history[s]]
    BY DEF Shape
  <1>5. files' = [s \in Runs |-> files'[s]] /\ files'[r] = dir /\ \A s \in Runs \ {r} : files'[s] = files[s]
    BY <1>m, <1>4
  <1>6. /\ history' = [s \in Runs |-> history'[s]] /\ history'[r] = past
        /\ \A s \in Runs \ {r} : history'[s] = history[s]
    BY <1>m, <1>4
  <1>7. ASSUME NEW s \in Runs
        PROVE  /\ files'[s] = [n \in Name |-> files'[s][n]]
               /\ history'[s] = Past(history'[s].fetched, history'[s].clash, history'[s].cause)
               /\ history'[s].clash \in BOOLEAN /\ history'[s].cause \in Nat
               /\ at'[s].step <= Len(plan'[s]) + 1
    <2>1. CASE s = r
      <3>1. files'[s] = dir /\ history'[s] = past /\ at'[s] = place /\ plan'[s] = plan[r]
        BY <1>m, <1>3, <1>5, <1>6, <2>1
      <3>2. place.step <= Len(plan[r]) + 1 /\ dir = [n \in Name |-> dir[n]]
        OBVIOUS
      <3> QED
        BY <1>1, <3>1, <3>2, Zenon
    <2>2. CASE s # r
      <3>1. files'[s] = files[s] /\ history'[s] = history[s] /\ at'[s] = at[s] /\ plan'[s] = plan[s]
        BY <1>m, <1>3, <1>5, <1>6, <2>2
      <3>2. /\ files[s] = [n \in Name |-> files[s][n]]
            /\ history[s] = Past(history[s].fetched, history[s].clash, history[s].cause)
            /\ history[s].clash \in BOOLEAN /\ history[s].cause \in Nat
            /\ at[s].step <= Len(plan[s]) + 1
        BY Unmoved
      <3> QED
        BY <3>1, <3>2, Zenon
    <2> QED
      BY <2>1, <2>2
  <1>8. plan' \in [Runs -> Plans]
    BY <1>m DEF Shape
  <1>9. Shape'
    BY <1>3, <1>5, <1>6, <1>7, <1>8 DEF Shape
  <1>10. Frame(r)
    BY <1>3, <1>5, <1>6 DEF Frame
  <1> QED
    BY <1>m, <1>0, <1>3, <1>5, <1>6, <1>9, <1>10

\* What is said of a run is said of its own list, files and context.
LEMMA OthersKeep ==
    ASSUME NEW s \in Runs, Log(s), Data(s),
           at'[s] = at[s], attempts'[s] = attempts[s], run_context'[s] = run_context[s],
           files'[s] = files[s], history'[s] = history[s], plan'[s] = plan[s]
    PROVE  Log(s)' /\ Data(s)'
  <1>1. /\ at'[s] = at[s] /\ attempts'[s] = attempts[s] /\ run_context'[s] = run_context[s]
        /\ files'[s] = files[s] /\ history'[s] = history[s] /\ plan'[s] = plan[s]
    OBVIOUS
  <1>2. Succeeded(s)' = Succeeded(s) /\ Step(s)' = Step(s) /\ \A i : StepOf(s, i)' = StepOf(s, i)
    BY <1>1 DEF Succeeded, StepOf, Step
  <1>3. \A type, i, l : Latest(s, type, i, l)' = Latest(s, type, i, l)
    BY <1>2 DEF Latest
  <1>4. \A i : Told(s, i)' <=> Told(s, i)
    BY <1>1, <1>2 DEF Told
  <1>5. Tried(s)' = Tried(s)
    BY <1>1 DEF Tried
  <1>6. Ending(s)' <=> Ending(s)
    BY <1>1, <1>5 DEF Ending
  <1>7. Sorted(s)' <=> Sorted(s)
    BY <1>1 DEF Sorted
  <1>8. Behind(s)' <=> Behind(s)
    BY <1>1, <1>2 DEF Behind
  <1>9. Going(s)' <=> Going(s)
    BY <1>1, <1>2 DEF Going
  <1>10. Log(s)'
    BY <1>1, <1>4, <1>6, <1>7, <1>8, <1>9 DEF Log
  <1>11. Stages(s)' <=> Stages(s)
    BY <1>1, <1>2 DEF Stages
  <1>12. Stored(s)' <=> Stored(s)
    BY <1>1 DEF Stored
  <1>13. Passed(s)' <=> Passed(s)
    BY <1>1, <1>2, <1>3 DEF Passed, NextPlace
  <1>14. \A csv, t : MadeFrom(s, csv, t)' <=> MadeFrom(s, csv, t)
    BY <1>1, <1>2, <1>3 DEF MadeFrom
  <1>15. Made(s)' <=> Made(s)
    BY <1>1, <1>3, <1>14 DEF Made, NextPlace
  <1> QED
    BY <1>1, <1>10, <1>11, <1>12, <1>13, <1>15 DEF Data

-----------------------------------------------------------------------------
(* What the stages know of their files *)

\* A longer list leaves the earlier places of the stages where they are.
LEMMA LatestGrows ==
    ASSUME NEW r \in Runs, NEW e, NEW n, Shape, Shape', attempts'[r] = Append(attempts[r], e), plan' = plan,
           n = Len(attempts[r])
    PROVE  /\ \A type, i : \A l \in 1..n + 1 : Latest(r, type, i, l) => Latest(r, type, i, l)'
           /\ \A type, i : /\ Latest(r, type, i, n + 1)
                           /\ e.status # "success" \/ plan[r][e.step_order].step_type # type
                           => Latest(r, type, i, n + 2)'
           /\ e.status = "success" => Latest(r, plan[r][e.step_order].step_type, n + 1, n + 2)'
           /\ StepOf(r, n + 1)' = plan[r][e.step_order]
           /\ \A i \in Succeeded(r) : i \in Succeeded(r)' /\ i \in 1..n /\ StepOf(r, i)' = StepOf(r, i)
           /\ e.status = "success" => n + 1 \in Succeeded(r)'
           /\ n \in Nat /\ DOMAIN attempts[r] = 1..n /\ DOMAIN attempts'[r] = 1..n + 1 /\ Len(attempts'[r]) = n + 1
  <1>1. /\ n \in Nat /\ DOMAIN attempts[r] = 1..n /\ DOMAIN attempts'[r] = 1..n + 1 /\ Len(attempts'[r]) = n + 1
        /\ \A i \in 1..n : StepOf(r, i)' = StepOf(r, i)
        /\ attempts'[r][n + 1] = e
        /\ e.status = "success" => Succeeded(r)' = Succeeded(r) \cup {n + 1}
        /\ e.status # "success" => Succeeded(r)' = Succeeded(r)
        /\ Succeeded(r) \subseteq 1..n
    BY Added
  <1>2. StepOf(r, n + 1)' = plan[r][e.step_order]
    BY <1>1 DEF StepOf
  <1>3. \A i \in Succeeded(r) : i \in Succeeded(r)' /\ i \in 1..n /\ StepOf(r, i)' = StepOf(r, i)
    BY <1>1
  <1>4. ASSUME NEW i \in Succeeded(r)' PROVE i \in Succeeded(r) \/ (i = n + 1 /\ e.status = "success")
    BY <1>1
  <1>5. ASSUME NEW type, NEW i, NEW l \in 1..n + 1, Latest(r, type, i, l) PROVE Latest(r, type, i, l)'
    <2>1. i \in Succeeded(r) /\ i < l /\ StepOf(r, i).step_type = type
      BY <1>5 DEF Latest
    <2>2. ASSUME NEW j \in Succeeded(r)', i < j, j < l PROVE StepOf(r, j)'.step_type # type
      <3>1. j # n + 1
        BY <1>1, <2>2
      <3>2. j \in Succeeded(r)
        BY <1>4, <3>1
      <3> QED
        BY <1>3, <1>5, <2>2, <3>2 DEF Latest
    <2> QED
      BY <1>3, <2>1, <2>2 DEF Latest
  <1>6. ASSUME NEW type, NEW i, Latest(r, type, i, n + 1),
               e.status # "success" \/ plan[r][e.step_order].step_type # type
        PROVE  Latest(r, type, i, n + 2)'
    <2>1. i \in Succeeded(r) /\ StepOf(r, i).step_type = type
      BY <1>6 DEF Latest
    <2>2. i \in 1..n /\ i < n + 2
      BY <1>1, <2>1
    <2>3. ASSUME NEW j \in Succeeded(r)', i < j PROVE StepOf(r, j)'.step_type # type
      <3>1. CASE j \in Succeeded(r)
        <4>1. j < n + 1
          BY <1>1, <3>1
        <4> QED
          BY <1>3, <1>6, <2>3, <3>1, <4>1 DEF Latest
      <3>2. CASE j = n + 1 /\ e.status = "success"
        BY <1>2, <1>6, <3>2
      <3> QED
        BY <1>4, <3>1, <3>2
    <2> QED
      BY <1>3, <2>1, <2>2, <2>3 DEF Latest
  <1>7. ASSUME e.status = "success" PROVE Latest(r, plan[r][e.step_order].step_type, n + 1, n + 2)'
    <2>1. n + 1 \in Succeeded(r)' /\ n + 1 < n + 2
      BY <1>1, <1>7
    <2>2. ASSUME NEW j \in Succeeded(r)', n + 1 < j PROVE FALSE
      <3>1. j \in 1..n \/ j = n + 1
        BY <1>1, <1>4
      <3> QED
        BY <1>1, <2>2, <3>1
    <2> QED
      BY <1>2, <2>1, <2>2 DEF Latest
  <1>8. e.status = "success" => n + 1 \in Succeeded(r)'
    BY <1>1
  <1> QED
    BY <1>1, <1>2, <1>3, <1>5, <1>6, <1>7, <1>8

\* What an entry that is added changes.
Growth(r, e, n) ==
    /\ \A type, i : \A l \in 1..n + 1 : Latest(r, type, i, l) => Latest(r, type, i, l)'
    /\ \A type, i : /\ Latest(r, type, i, n + 1)
                    /\ e.status # "success" \/ plan[r][e.step_order].step_type # type
                    => Latest(r, type, i, n + 2)'
    /\ e.status = "success" => Latest(r, plan[r][e.step_order].step_type, n + 1, n + 2)'
    /\ StepOf(r, n + 1)' = plan[r][e.step_order]
    /\ \A i \in Succeeded(r) : i \in Succeeded(r)' /\ i \in 1..n /\ StepOf(r, i)' = StepOf(r, i)
    /\ e.status = "success" => n + 1 \in Succeeded(r)'
    /\ n \in Nat /\ DOMAIN attempts[r] = 1..n /\ DOMAIN attempts'[r] = 1..n + 1 /\ Len(attempts'[r]) = n + 1

\* The same in one word.
LEMMA LatestGrowth ==
    ASSUME NEW r \in Runs, NEW e, NEW n, Shape, Shape', attempts'[r] = Append(attempts[r], e), plan' = plan,
           n = Len(attempts[r])
    PROVE  Growth(r, e, n)
  BY LatestGrows DEF Growth

\* What a file was made of remains so.
LEMMA MadeFromGrows ==
    ASSUME NEW r \in Runs, NEW csv, NEW t \in DOMAIN attempts[r], Shape, Shape', plan' = plan, Grown(r),
           MadeFrom(r, csv, t)
    PROVE  MadeFrom(r, csv, t)' /\ t \in DOMAIN attempts'[r] /\ StepOf(r, t)' = StepOf(r, t)
  <1>1. PICK f \in history[r].fetched, v \in DOMAIN attempts[r] :
           /\ Latest(r, "validation", v, t) /\ (history[r].clash \/ Checks(StepOf(r, v).config, f))
           /\ Rows(csv) = Kept(StepOf(r, t).config, f)
    BY DEF MadeFrom
  <1>v. Latest(r, "validation", v, t)
    BY <1>1
  <1>2. f \in history'[r].fetched /\ (history[r].clash => history'[r].clash)
    BY <1>1 DEF Grown
  <1>3. /\ v \in DOMAIN attempts'[r] /\ t \in DOMAIN attempts'[r] /\ Latest(r, "validation", v, t)'
        /\ StepOf(r, t)' = StepOf(r, t) /\ StepOf(r, v)' = StepOf(r, v)
    <2>1. CASE attempts'[r] = attempts[r]
      <3>1. Succeeded(r)' = Succeeded(r) /\ \A i : StepOf(r, i)' = StepOf(r, i)
        BY <2>1 DEF Succeeded, StepOf
      <3> QED
        BY <1>v, <2>1, <3>1 DEF Latest
    <2>2. CASE \E e : attempts'[r] = Append(attempts[r], e)
      <3>1. PICK e : attempts'[r] = Append(attempts[r], e)
        BY <2>2
      <3>2. PICK n : n = Len(attempts[r])
        OBVIOUS
      <3>3. n \in Nat /\ DOMAIN attempts[r] = 1..n /\ DOMAIN attempts'[r] = 1..n + 1
            /\ \A type, i : \A l \in 1..n + 1 : Latest(r, type, i, l) => Latest(r, type, i, l)'
        BY <3>1, <3>2, LatestGrows
      <3>4. \A i \in 1..n : StepOf(r, i)' = StepOf(r, i)
        BY <3>1, <3>2, Added
      <3>5. v \in 1..n + 1 /\ t \in 1..n + 1 /\ v \in 1..n /\ t \in 1..n
        BY <1>1, <3>3
      <3> QED
        BY <1>v, <3>3, <3>4, <3>5
    <2> QED
      BY <2>1, <2>2 DEF Grown
  <1>4. history'[r].clash \/ Checks(StepOf(r, v)'.config, f)
    BY <1>1, <1>2, <1>3
  <1>5. Rows(csv) = Kept(StepOf(r, t)'.config, f)
    BY <1>1, <1>3
  <1> QED
    BY <1>2, <1>3, <1>4, <1>5 DEF MadeFrom

\* The stages behind what a context names are still there.
LEMMA StagesGrow ==
    ASSUME NEW r \in Runs, Shape, Shape', plan' = plan, Grown(r), Stages(r)
    PROVE  LET c == run_context[r]
               type(i) == StepOf(r, i)'.step_type
           IN  /\ c.ingestion # None => \E a \in Succeeded(r)' : type(a) = "ingestion"
               /\ c.validation # None => \E a, b \in Succeeded(r)' :
                     a < b /\ type(a) = "ingestion" /\ type(b) = "validation"
               /\ c.transformation # None => \E a, b, d \in Succeeded(r)' :
                     a < b /\ b < d /\ type(a) = "ingestion" /\ type(b) = "validation" /\ type(d) = "transformation"
  <1>1. \A i \in Succeeded(r) : i \in Succeeded(r)' /\ StepOf(r, i)' = StepOf(r, i)
    <2>1. CASE attempts'[r] = attempts[r]
      BY <2>1 DEF Succeeded, StepOf
    <2>2. CASE \E e : attempts'[r] = Append(attempts[r], e)
      <3>1. PICK e : attempts'[r] = Append(attempts[r], e)
        BY <2>2
      <3>2. PICK n : n = Len(attempts[r])
        OBVIOUS
      <3> QED
        BY <3>1, <3>2, LatestGrows
    <2> QED
      BY <2>1, <2>2 DEF Grown
  <1> QED
    BY <1>1 DEF Stages

\* A step that is no validation leaves the validated file to be the one that passed.
LEMMA PassedGrows ==
    ASSUME NEW r \in Runs, Shape, Shape', plan' = plan, Passed(r), Grown(r),
           \/ attempts'[r] = attempts[r]
           \/ \E e : /\ attempts'[r] = Append(attempts[r], e)
                     /\ e.status # "success" \/ plan[r][e.step_order].step_type # "validation",
           run_context'[r].validation = run_context[r].validation,
           run_context[r].validation # None =>
               \/ files'[r][run_context[r].validation] = files[r][run_context[r].validation]
               \/ history'[r].clash
    PROVE  Passed(r)'
  <1> SUFFICES ASSUME run_context[r].validation # None
               PROVE  \E v \in DOMAIN attempts'[r] :
                          /\ Latest(r, "validation", v, NextPlace(r))'
                          /\ \/ history'[r].clash
                             \/ Checks(StepOf(r, v)'.config, files'[r][run_context[r].validation])
    BY DEF Passed
  <1>1. PICK v \in DOMAIN attempts[r] :
           /\ Latest(r, "validation", v, NextPlace(r))
           /\ history[r].clash \/ Checks(StepOf(r, v).config, files[r][run_context[r].validation])
    BY DEF Passed
  <1>c. history[r].clash => history'[r].clash
    BY DEF Grown
  <1>2. CASE attempts'[r] = attempts[r]
    <2>1. Succeeded(r)' = Succeeded(r) /\ (\A i : StepOf(r, i)' = StepOf(r, i)) /\ NextPlace(r)' = NextPlace(r)
      BY <1>2 DEF Succeeded, StepOf, NextPlace
    <2> QED
      BY <1>1, <1>c, <1>2, <2>1 DEF Latest
  <1>3. CASE \E e : /\ attempts'[r] = Append(attempts[r], e)
                    /\ e.status # "success" \/ plan[r][e.step_order].step_type # "validation"
    <2>1. PICK e : /\ attempts'[r] = Append(attempts[r], e)
                   /\ e.status # "success" \/ plan[r][e.step_order].step_type # "validation"
      BY <1>3
    <2>2. PICK n : n = Len(attempts[r])
      OBVIOUS
    <2>3. /\ n \in Nat /\ DOMAIN attempts[r] = 1..n /\ DOMAIN attempts'[r] = 1..n + 1 /\ Len(attempts'[r]) = n + 1
          /\ Latest(r, "validation", v, n + 1) => Latest(r, "validation", v, n + 2)'
      BY <2>1, <2>2, LatestGrows
    <2>4. NextPlace(r) = n + 1 /\ NextPlace(r)' = n + 2
      BY <2>2, <2>3 DEF NextPlace
    <2>5. v \in 1..n + 1 /\ StepOf(r, v)' = StepOf(r, v)
      BY <1>1, <2>1, <2>2, <2>3, Added
    <2>6. Latest(r, "validation", v, NextPlace(r))'
      BY <1>1, <2>3, <2>4 DEF Latest
    <2> QED
      BY <1>1, <1>c, <2>3, <2>5, <2>6
  <1> QED
    BY <1>2, <1>3

\* A step that is no transformation leaves the transformed file to be what it was made of.
LEMMA MadeGrows ==
    ASSUME NEW r \in Runs, Shape, Shape', plan' = plan, Made(r), Grown(r),
           \/ attempts'[r] = attempts[r]
           \/ \E e : /\ attempts'[r] = Append(attempts[r], e)
                     /\ e.status # "success" \/ plan[r][e.step_order].step_type # "transformation",
           run_context'[r].transformation = run_context[r].transformation,
           run_context[r].transformation # None =>
               files'[r][run_context[r].transformation] = files[r][run_context[r].transformation]
    PROVE  Made(r)'
  <1> SUFFICES ASSUME run_context'[r].transformation # None
               PROVE  \E t \in DOMAIN attempts'[r] :
                          /\ Latest(r, "transformation", t, NextPlace(r))'
                          /\ MadeFrom(r, files[r][run_context[r].transformation], t)'
    BY DEF Made
  <1>0. PICK csv : csv = files[r][run_context[r].transformation]
    OBVIOUS
  <1>1. PICK t \in DOMAIN attempts[r] : Latest(r, "transformation", t, NextPlace(r)) /\ MadeFrom(r, csv, t)
    BY <1>0 DEF Made
  <1>2. MadeFrom(r, csv, t)' /\ t \in DOMAIN attempts'[r]
    BY <1>1, MadeFromGrows
  <1>3. files'[r][run_context'[r].transformation] = csv
    BY <1>0
  <1>4. MadeFrom(r, files[r][run_context[r].transformation], t)'
    BY <1>2, <1>3 DEF MadeFrom
  <1>5. Latest(r, "transformation", t, NextPlace(r))'
    <2>1. CASE attempts'[r] = attempts[r]
      <3>1. Succeeded(r)' = Succeeded(r) /\ (\A i : StepOf(r, i)' = StepOf(r, i)) /\ NextPlace(r)' = NextPlace(r)
        BY <2>1 DEF Succeeded, StepOf, NextPlace
      <3> QED
        BY <1>1, <2>1, <3>1 DEF Latest
    <2>2. CASE \E e : /\ attempts'[r] = Append(attempts[r], e)
                      /\ e.status # "success" \/ plan[r][e.step_order].step_type # "transformation"
      <3>1. PICK e : /\ attempts'[r] = Append(attempts[r], e)
                     /\ e.status # "success" \/ plan[r][e.step_order].step_type # "transformation"
        BY <2>2
      <3>2. PICK n : n = Len(attempts[r])
        OBVIOUS
      <3>3. /\ n \in Nat /\ Len(attempts'[r]) = n + 1
            /\ Latest(r, "transformation", t, n + 1) => Latest(r, "transformation", t, n + 2)'
        BY <3>1, <3>2, LatestGrows
      <3>4. NextPlace(r) = n + 1 /\ NextPlace(r)' = n + 2
        BY <3>2, <3>3 DEF NextPlace
      <3> QED
        BY <1>1, <3>3, <3>4 DEF Latest
    <2> QED
      BY <2>1, <2>2
  <1> QED
    BY <1>2, <1>4, <1>5

-----------------------------------------------------------------------------
(* Transformations *)

\* The output of a transformation is a table, of the rows that are to be kept.
LEMMA TransformFacts ==
    ASSUME NEW config, NEW f
    PROVE  IsCsv(Transform(config, f)) /\ (CanTransform(config, f) => Rows(Transform(config, f)) = Kept(config, f))
  <1> DEFINE C == {NewName(config.rename_columns, c) : c \in f.columns}
             old(m) == OldName(config.rename_columns, f, m)
             row(i) == [m \in C |-> f.rows[i][old(m)]]
             D == C \ config.drop_columns
             N == {i \in DOMAIN f.rows : \A k \in DOMAIN config.filter_rows : Passes(config.filter_rows[k], row(i))}
  <1>1. PICK g : g = Rename(config.rename_columns, f)
    OBVIOUS
  <1>2. g.columns = C /\ g.rows = [i \in DOMAIN f.rows |-> row(i)]
    BY <1>1 DEF Rename
  <1>3. PICK h : h = Filter(config.filter_rows, g)
    OBVIOUS
  <1>4. h.columns = C /\ h.rows = [i \in N |-> row(i)]
    <2>1. g.columns = C /\ DOMAIN g.rows = DOMAIN f.rows /\ \A i \in DOMAIN f.rows : g.rows[i] = row(i)
      BY <1>2
    <2> HIDE DEF C, row
    <2>2. {i \in DOMAIN g.rows : \A k \in DOMAIN config.filter_rows : Passes(config.filter_rows[k], g.rows[i])} = N
      BY <2>1
    <2>3. h.columns = g.columns /\ h.rows = [i \in N |-> g.rows[i]]
      BY <1>3, <2>2 DEF Filter, Only
    <2>4. \A i \in N : g.rows[i] = row(i)
      BY <2>1
    <2> QED
      BY <2>1, <2>3, <2>4
  <1>5. PICK d : d = Drop(config.drop_columns, h)
    OBVIOUS
  <1>6. d = Transform(config, f)
    BY <1>1, <1>3, <1>5 DEF Transform
  <1>7. d.columns = D /\ d.rows = [i \in N |-> [c \in D |-> row(i)[c]]]
    <2>1. DOMAIN h.rows = N /\ \A i \in N : h.rows[i] = row(i)
      BY <1>4
    <2> HIDE DEF C, N, row
    <2> QED
      BY <1>4, <1>5, <2>1 DEF Drop
  <1>8. IsCsv(d)
    <2> HIDE DEF D, N
    <2> QED
      BY <1>7 DEF IsCsv
  <1>9. ASSUME CanTransform(config, f) PROVE Rows(d) = Kept(config, f)
    <2> DEFINE passing == {x \in Rows(f) : \A k \in DOMAIN config.filter_rows :
                             Holds(config.filter_rows[k].operator, x[old(config.filter_rows[k].column)],
                                   config.filter_rows[k].value)}
               new(x) == [m \in D |-> x[old(m)]]
    <2>1. Kept(config, f) = {new(x) : x \in passing}
      BY DEF Kept
    <2>2. ASSUME NEW k \in DOMAIN config.filter_rows PROVE config.filter_rows[k].column \in C
      BY <1>1, <1>2, <1>9, <2>2 DEF CanTransform, CanFilter
    <2>3. ASSUME NEW i \in DOMAIN f.rows PROVE i \in N <=> f.rows[i] \in passing
      <3>1. f.rows[i] \in Rows(f)
        BY DEF Rows
      <3>2. ASSUME NEW k \in DOMAIN config.filter_rows
            PROVE  row(i)[config.filter_rows[k].column] = f.rows[i][old(config.filter_rows[k].column)]
        <4> HIDE DEF C, old
        <4> QED
          BY <2>2
      <3> HIDE DEF row, old, C
      <3> QED
        BY <3>1, <3>2 DEF Passes
    <2>4. Rows(d) = {new(f.rows[i]) : i \in N}
      <3>1. \A i \in N : d.rows[i] = new(f.rows[i])
        <4>1. \A i : [c \in D |-> row(i)[c]] = new(f.rows[i])
          <5>1. D \subseteq C
            OBVIOUS
          <5> HIDE DEF D, C, old
          <5> QED
            BY <5>1
        <4> HIDE DEF D, N, row, new
        <4> QED
          BY <1>7, <4>1
      <3>2. DOMAIN d.rows = N
        BY <1>7
      <3> HIDE DEF N, new
      <3> QED
        BY <3>1, <3>2 DEF Rows
    <2>5. ASSUME NEW x \in passing PROVE \E i \in N : x = f.rows[i]
      <3>1. x \in Rows(f)
        OBVIOUS
      <3>2. PICK i \in DOMAIN f.rows : x = f.rows[i]
        BY <3>1 DEF Rows
      <3> HIDE DEF passing, N
      <3> QED
        BY <2>3, <2>5, <3>2
    <2>6. \A i \in N : f.rows[i] \in passing
      <3>1. N \subseteq DOMAIN f.rows
        OBVIOUS
      <3> HIDE DEF passing, N
      <3> QED
        BY <2>3, <3>1
    <2> HIDE DEF passing, N, new
    <2> QED
      BY <2>1, <2>4, <2>5, <2>6
  <1> QED
    BY <1>6, <1>8, <1>9

-----------------------------------------------------------------------------
(* Attempts that fail, and steps that attempt nothing *)

\* What a step of r keeps, besides the table.
Keeps(r) == Shape' /\ Log(r)' /\ Data(r)' /\ Frame(r) /\ Grown(r) /\ plan' = plan

\* The cause of the end of a run is noted beside what it fetched.
LEMMA CauseNoted ==
    ASSUME NEW r \in Runs, NEW cause, Shape, history' = [history EXCEPT ![r].cause = cause]
    PROVE  history' = [history EXCEPT ![r] = Past(history[r].fetched, history[r].clash, cause)]
  <1>0. history[r] = Past(history[r].fetched, history[r].clash, history[r].cause)
    BY Unmoved
  <1>1. PICK F, c, k : history[r] = Past(F, c, k)
    BY <1>0
  <1>2. /\ Past(F, c, k).fetched = F /\ Past(F, c, k).clash = c
        /\ [Past(F, c, k) EXCEPT !.cause = cause] = Past(F, c, cause)
    BY DEF Past
  <1> QED
    BY <1>1, <1>2

\* The data of a run stands when only failed attempts, or loads, are noted.
LEMMA DataStands ==
    ASSUME NEW r \in Runs, Shape, Shape', plan' = plan, Data(r), Grown(r),
           \/ attempts'[r] = attempts[r]
           \/ \E e : /\ attempts'[r] = Append(attempts[r], e)
                     /\ e.status # "success" \/ plan[r][e.step_order].step_type = "load",
           run_context'[r].ingestion = run_context[r].ingestion,
           run_context'[r].validation = run_context[r].validation,
           run_context'[r].transformation = run_context[r].transformation,
           files'[r] = files[r], history'[r].fetched = history[r].fetched, history'[r].clash = history[r].clash,
           at'[r].pc = "load" =>
               run_context[r].transformation # None /\ files[r][run_context[r].transformation] # None
    PROVE  Data(r)'
  <1>1. Stages(r)'
    BY StagesGrow DEF Data, Stages
  <1>2. Stored(r)'
    BY DEF Data, Stored
  <1>3. Passed(r)'
    BY PassedGrows DEF Data
  <1>4. Made(r)'
    BY MadeGrows DEF Data
  <1> QED
    BY <1>1, <1>2, <1>3, <1>4 DEF Data

\* A failed attempt is noted, and another one follows or the run ends.
LEMMA FailsFacts ==
    ASSUME NEW r \in Runs, NEW error \in Errors, Shape, Active(r), Fails(r, error)
    PROVE  \E delay \in Nat, place \in Place, cause \in Nat :
              /\ delay > 0 => delay \in calculate_delay(Step(r).strategy, Step(r).base_delay, at[r].attempt)
              /\ attempts' = [attempts EXCEPT ![r] = Append(attempts[r], Entry(r, "failed", error, delay))]
              /\ at' = [at EXCEPT ![r] = place]
              /\ history' = [history EXCEPT ![r] = Past(history[r].fetched, history[r].clash, cause)]
              /\ place.step = at[r].step
              /\ \/ place.pc = "attempt" /\ place.attempt = at[r].attempt + 1 /\ cause = history[r].cause
                 \/ place.pc = "failed" /\ place.attempt = at[r].attempt /\ cause = at[r].step
  <1>0. at[r].step \in 1..Len(plan[r]) /\ at[r].attempt \in Nat \ {0} /\ at[r].step \in Nat \ {0}
    <2>1. at[r].step <= Len(plan[r])
      BY DEF Active
    <2>2. at[r].step \in Nat
      BY Lists
    <2> QED
      BY <2>1, <2>2, AtStep
  <1>1. /\ at = [at EXCEPT ![r] = at[r]] /\ at[r] \in Place /\ history[r].cause \in Nat
        /\ history = [history EXCEPT ![r] = Past(history[r].fetched, history[r].clash, history[r].cause)]
    BY Unmoved
  <1> DEFINE stopped == [pc |-> "failed", step |-> at[r].step, attempt |-> at[r].attempt, exists |-> at[r].exists]
             again == [pc |-> "attempt", step |-> at[r].step, attempt |-> at[r].attempt + 1, exists |-> FALSE]
  <1>2. /\ stopped \in Place /\ stopped.pc = "failed" /\ stopped.step = at[r].step /\ stopped.attempt = at[r].attempt
        /\ again \in Place /\ again.pc = "attempt" /\ again.step = at[r].step /\ again.attempt = at[r].attempt + 1
    BY <1>0, <1>1 DEF Place
  <1>3. ASSUME Over(r, "failed", at[r].step)
        PROVE  /\ at' = [at EXCEPT ![r] = stopped]
               /\ history' = [history EXCEPT ![r] = Past(history[r].fetched, history[r].clash, at[r].step)]
    <2>1. [at[r] EXCEPT !.pc = "failed"] = stopped
      BY <1>1 DEF Place
    <2>2. at' = [at EXCEPT ![r] = [at[r] EXCEPT !.pc = "failed"]]
      BY <1>3 DEF Over
    <2>3. history' = [history EXCEPT ![r].cause = at[r].step]
      BY <1>3 DEF Over
    <2> HIDE DEF stopped
    <2> QED
      BY <2>1, <2>2, <2>3, CauseNoted
  <1>4. ASSUME Goto(r, at[r].step, at[r].attempt + 1) PROVE at' = [at EXCEPT ![r] = again]
    BY <1>4 DEF Goto
  <1>5. ASSUME NEW delay, Record(r, "failed", error, delay)
        PROVE  attempts' = [attempts EXCEPT ![r] = Append(attempts[r], Entry(r, "failed", error, delay))]
    BY <1>5 DEF Record, Entry
  <1> HIDE DEF stopped, again
  <1>6. CASE Retry(r, error)
    <2>1. PICK delay \in calculate_delay(Step(r).strategy, Step(r).base_delay, at[r].attempt) :
             Record(r, "failed", error, delay)
      BY <1>6 DEF Retry
    <2>2. delay \in Nat
      <3>1. Step(r).base_delay \in Nat
        BY <1>0, Lists DEF Step
      <3> QED
        BY <1>0, <3>1, DelayGrows
    <2>3. CASE Goto(r, at[r].step, at[r].attempt + 1) /\ UNCHANGED history
      <3>1. /\ attempts' = [attempts EXCEPT ![r] = Append(attempts[r], Entry(r, "failed", error, delay))]
            /\ at' = [at EXCEPT ![r] = again]
            /\ history' = [history EXCEPT ![r] = Past(history[r].fetched, history[r].clash, history[r].cause)]
        BY <1>1, <1>4, <1>5, <2>1, <2>3
      <3> QED
        BY <1>1, <1>2, <2>1, <2>2, <3>1
    <2>4. CASE Over(r, "failed", at[r].step)
      <3>1. /\ attempts' = [attempts EXCEPT ![r] = Append(attempts[r], Entry(r, "failed", error, delay))]
            /\ at' = [at EXCEPT ![r] = stopped]
            /\ history' = [history EXCEPT ![r] = Past(history[r].fetched, history[r].clash, at[r].step)]
        BY <1>3, <1>5, <2>1, <2>4
      <3> QED
        BY <1>0, <1>2, <2>1, <2>2, <3>1
    <2> QED
      BY <1>6, <2>3, <2>4 DEF Retry
  <1>7. CASE GiveUp(r, error)
    <2>1. /\ attempts' = [attempts EXCEPT ![r] = Append(attempts[r], Entry(r, "failed", error, 0))]
          /\ at' = [at EXCEPT ![r] = stopped]
          /\ history' = [history EXCEPT ![r] = Past(history[r].fetched, history[r].clash, at[r].step)]
      BY <1>3, <1>5, <1>7 DEF GiveUp
    <2>2. 0 \in Nat /\ ~(0 > 0)
      OBVIOUS
    <2> QED
      BY <1>0, <1>2, <2>1, <2>2
  <1> QED
    BY <1>6, <1>7 DEF Fails

\* A failed attempt leaves the data of its run as it was.
LEMMA FailsKeep ==
    ASSUME NEW r \in Runs, NEW error \in Errors, Shape, Log(r), Data(r), Active(r), Fails(r, error), plan' = plan,
           second' \in Seconds, run_context' = run_context, files' = files
    PROVE  Keeps(r) /\ \E e : attempts'[r] = Append(attempts[r], e) /\ e.step_order = at[r].step
  <1>1. PICK delay \in Nat, place \in Place, cause \in Nat :
              /\ delay > 0 => delay \in calculate_delay(Step(r).strategy, Step(r).base_delay, at[r].attempt)
              /\ attempts' = [attempts EXCEPT ![r] = Append(attempts[r], Entry(r, "failed", error, delay))]
              /\ at' = [at EXCEPT ![r] = place]
              /\ history' = [history EXCEPT ![r] = Past(history[r].fetched, history[r].clash, cause)]
              /\ place.step = at[r].step
              /\ \/ place.pc = "attempt" /\ place.attempt = at[r].attempt + 1 /\ cause = history[r].cause
                 \/ place.pc = "failed" /\ place.attempt = at[r].attempt /\ cause = at[r].step
    BY FailsFacts
  <1>e. PICK e : e = Entry(r, "failed", error, delay)
    OBVIOUS
  <1>2. e \in AnAttempt /\ e.status = "failed" /\ e.step_order = at[r].step
    <2>1. at[r].step <= Len(plan[r]) /\ "failed" \in {"success", "failed"} /\ error \in Errors \cup {None}
      BY DEF Active
    <2> QED
      BY <1>e, <2>1, EntryFacts, EntryFields
  <1>3. PICK list \in Seq(AnAttempt) : list = Append(attempts[r], e)
    <2>1. attempts[r] \in Seq(AnAttempt)
      BY Unmoved
    <2>2. Append(attempts[r], e) \in Seq(AnAttempt)
      BY <1>2, <2>1
    <2> QED
      BY <2>2
  <1>4. /\ run_context' = [run_context EXCEPT ![r] = run_context[r]] /\ run_context[r] \in Context
        /\ files' = [files EXCEPT ![r] = files[r]] /\ files[r] = [n \in Name |-> files[r][n]]
        /\ history[r].clash \in BOOLEAN /\ place.step <= Len(plan[r]) + 1
    BY <1>1, Unmoved
  <1>5. Moved(r, place, list, run_context[r], files[r], Past(history[r].fetched, history[r].clash, cause))
    BY <1>1, <1>3, <1>4, <1>e DEF Moved
  <1>6. /\ Shape' /\ Frame(r) /\ plan' = plan
        /\ at'[r] = place /\ attempts'[r] = list /\ run_context'[r] = run_context[r]
        /\ files'[r] = files[r] /\ history'[r].fetched = history[r].fetched
        /\ history'[r].clash = history[r].clash /\ history'[r].cause = cause
    BY <1>4, <1>5, MovedFacts
  <1>7. Log(r)'
    <2>1. error \in Errors \cup {None}
      OBVIOUS
    <2> QED
      BY <1>1, <1>3, <1>6, <1>e, <2>1, LogFailure
  <1>8. Grown(r)
    BY <1>3, <1>6 DEF Grown
  <1>9. Data(r)'
    <2>1. at'[r].pc # "load"
      BY <1>1, <1>6
    <2> QED
      BY <1>2, <1>3, <1>6, <1>8, <2>1, DataStands
  <1> QED
    BY <1>2, <1>3, <1>6, <1>7, <1>8, <1>9 DEF Keeps

\* A step that notes nothing: only the place and the cause of the end are other ones.
LEMMA QuietKeep ==
    ASSUME NEW r \in Runs, NEW place \in Place, NEW cause \in Nat, Shape, Log(r), Data(r), second' \in Seconds,
           plan' = plan, attempts' = attempts, run_context' = run_context, files' = files,
           at' = [at EXCEPT ![r] = place], place.step <= Len(plan[r]) + 1,
           history' = [history EXCEPT ![r] = Past(history[r].fetched, history[r].clash, cause)],
           place.pc = "load" =>
               run_context[r].transformation # None /\ files[r][run_context[r].transformation] # None,
           Shape' /\ at'[r] = place /\ attempts'[r] = attempts[r] /\ history'[r].cause = cause => Log(r)'
    PROVE  Keeps(r)
  <1>1. /\ run_context' = [run_context EXCEPT ![r] = run_context[r]] /\ run_context[r] \in Context
        /\ files' = [files EXCEPT ![r] = files[r]] /\ files[r] = [n \in Name |-> files[r][n]]
        /\ attempts' = [attempts EXCEPT ![r] = attempts[r]] /\ attempts[r] \in Seq(AnAttempt)
        /\ history[r].clash \in BOOLEAN
    BY Unmoved
  <1>2. Moved(r, place, attempts[r], run_context[r], files[r], Past(history[r].fetched, history[r].clash, cause))
    BY <1>1 DEF Moved
  <1>3. /\ Shape' /\ Frame(r) /\ plan' = plan
        /\ at'[r] = place /\ attempts'[r] = attempts[r] /\ run_context'[r] = run_context[r]
        /\ files'[r] = files[r] /\ history'[r].fetched = history[r].fetched
        /\ history'[r].clash = history[r].clash /\ history'[r].cause = cause
    BY <1>1, <1>2, MovedFacts
  <1>4. Grown(r)
    BY <1>3 DEF Grown
  <1>5. Data(r)'
    BY <1>3, <1>4, DataStands
  <1> QED
    BY <1>3, <1>4, <1>5 DEF Keeps

\* A place of r that is another one in its pc, or in what it knows of the table.
LEMMA PcMoves ==
    ASSUME NEW r \in Runs, NEW pc \in {"attempt", "load", "success", "failed"}, NEW b \in BOOLEAN, Shape,
           at' = [at EXCEPT ![r].pc = pc] \/ at' = [at EXCEPT ![r].pc = pc, ![r].exists = b]
    PROVE  \E place \in Place :
              /\ at' = [at EXCEPT ![r] = place]
              /\ place.pc = pc /\ place.step = at[r].step /\ place.attempt = at[r].attempt
  <1>1. at \in [Runs -> Place]
    BY DEF Shape
  <1>2. /\ at' \in [Runs -> Place] /\ \A s \in Runs \ {r} : at'[s] = at[s]
        /\ at'[r].pc = pc /\ at'[r].step = at[r].step /\ at'[r].attempt = at[r].attempt
    BY <1>1 DEF Place
  <1>3. at' = [at EXCEPT ![r] = at'[r]] /\ at'[r] \in Place
    BY <1>1, <1>2
  <1> QED
    BY <1>2, <1>3

\* A step whose max_retries is negative leaves all but the place.
LEMMA SkipKeep ==
    ASSUME NEW r \in Runs, Shape, Log(r), Data(r), SkipStep(r)
    PROVE  Keeps(r)
  <1>1. /\ InLoop(r) /\ Step(r).max_retries < 0 /\ Goto(r, at[r].step + 1, 1)
        /\ plan' = plan /\ attempts' = attempts /\ run_context' = run_context /\ files' = files /\ second' = second
        /\ history' = history
    BY DEF SkipStep
  <1>2. at[r].step \in 1..Len(plan[r]) /\ Len(plan[r]) \in Nat /\ at[r].step \in Nat
    BY <1>1, Lists DEF InLoop
  <1>3. PICK place \in Place :
           /\ place = [pc |-> "attempt", step |-> at[r].step + 1, attempt |-> 1, exists |-> FALSE]
           /\ place.pc = "attempt" /\ place.step = at[r].step + 1 /\ place.attempt = 1
    <2> DEFINE next == [pc |-> "attempt", step |-> at[r].step + 1, attempt |-> 1, exists |-> FALSE]
    <2>1. next \in Place /\ next.pc = "attempt" /\ next.step = at[r].step + 1 /\ next.attempt = 1
      BY <1>2 DEF Place
    <2> HIDE DEF next
    <2>2. next = [pc |-> "attempt", step |-> at[r].step + 1, attempt |-> 1, exists |-> FALSE]
      BY DEF next
    <2> QED
      BY <2>1, <2>2
  <1>4. at' = [at EXCEPT ![r] = place] /\ place.step <= Len(plan[r]) + 1
    BY <1>1, <1>2, <1>3 DEF Goto
  <1>5. /\ history' = [history EXCEPT ![r] = Past(history[r].fetched, history[r].clash, history[r].cause)]
        /\ history[r].cause \in Nat
    BY <1>1, Unmoved
  <1>6. Shape' /\ at'[r] = place /\ attempts'[r] = attempts[r] /\ history'[r].cause = history[r].cause => Log(r)'
    BY <1>1, <1>3, LogSkip
  <1>7. second' \in Seconds
    BY <1>1 DEF Shape
  <1> QED
    BY <1>1, <1>3, <1>4, <1>5, <1>6, <1>7, QuietKeep

\* So does the end of a run after its steps.
LEMMA FinishKeep ==
    ASSUME NEW r \in Runs, Shape, Log(r), Data(r), Finish(r)
    PROVE  Keeps(r)
  <1>1. /\ at[r].pc = "attempt" /\ at[r].step > Len(plan[r])
        /\ plan' = plan /\ attempts' = attempts /\ run_context' = run_context /\ files' = files /\ second' = second
    BY DEF Finish
  <1>2. PICK status \in {"success", "failed"} : Over(r, status, 0)
    BY DEF Finish
  <1>3. at[r].step = Len(plan[r]) + 1 /\ at[r] \in Place
    BY <1>1, Lists
  <1>4. PICK place \in Place :
           /\ at' = [at EXCEPT ![r] = place]
           /\ place.pc = status /\ place.step = at[r].step /\ place.attempt = at[r].attempt
    <2>1. status \in {"attempt", "load", "success", "failed"} /\ at' = [at EXCEPT ![r].pc = status]
      BY <1>2 DEF Over
    <2>2. TRUE \in BOOLEAN
      OBVIOUS
    <2> QED
      BY <2>1, <2>2, PcMoves
  <1>5. place.step <= Len(plan[r]) + 1
    BY <1>4, Unmoved
  <1>6. history' = [history EXCEPT ![r] = Past(history[r].fetched, history[r].clash, 0)]
    <2>1. history' = [history EXCEPT ![r].cause = 0]
      BY <1>2 DEF Over
    <2> QED
      BY <2>1, CauseNoted
  <1>7. ASSUME Shape', at'[r] = place, attempts'[r] = attempts[r], history'[r].cause = 0 PROVE Log(r)'
    <2>1. history[r].cause = 0
      BY <1>1 DEF Log, Going
    <2>2. at'[r].step = at[r].step /\ at'[r].attempt = at[r].attempt /\ at'[r].pc = status
      BY <1>4, <1>7
    <2>3. Going(r)'
      BY <1>1, <1>3, <1>7, <2>2 DEF Going
    <2> QED
      BY <1>1, <1>7, <2>1, <2>2, <2>3, LogSame
  <1>8. second' \in Seconds /\ 0 \in Nat /\ place.pc # "load"
    BY <1>1, <1>4 DEF Shape
  <1> QED
    BY <1>1, <1>4, <1>5, <1>6, <1>7, <1>8, QuietKeep

\* A load that begins has its file; one that cannot begin fails.
LEMMA StartLoadKeep ==
    ASSUME NEW r \in Runs, Shape, Log(r), Data(r), StartLoad(r)
    PROVE  Keeps(r)
  <1>1. /\ InLoop(r) /\ Step(r).step_type = "load" /\ Step(r).max_retries >= 0
        /\ plan' = plan /\ run_context' = run_context /\ files' = files /\ second' = second
    BY DEF StartLoad
  <1>2. Active(r) /\ second' \in Seconds
    BY <1>1 DEF Active, InLoop, Shape
  <1>3. CASE Fails(r, "missing")
    <2>1. "missing" \in Errors
      BY DEF Errors
    <2> QED
      BY <1>1, <1>2, <1>3, <2>1, FailsKeep
  <1>4. CASE Fails(r, "read")
    <2>1. "read" \in Errors
      BY DEF Errors
    <2> QED
      BY <1>1, <1>2, <1>4, <2>1, FailsKeep
  <1>5. CASE /\ run_context[r].transformation # None /\ files[r][run_context[r].transformation] # None
             /\ at' = [at EXCEPT ![r].pc = "load", ![r].exists = table # <<>>]
             /\ UNCHANGED <<attempts, history>>
    <2>2. PICK b \in BOOLEAN : b = (table # <<>>)
      OBVIOUS
    <2>3. PICK place \in Place :
             /\ at' = [at EXCEPT ![r] = place]
             /\ place.pc = "load" /\ place.step = at[r].step /\ place.attempt = at[r].attempt
      <3>1. "load" \in {"attempt", "load", "success", "failed"}
            /\ at' = [at EXCEPT ![r].pc = "load", ![r].exists = b]
        BY <1>5, <2>2
      <3> QED
        BY <3>1, PcMoves
    <2>5. /\ history' = [history EXCEPT ![r] = Past(history[r].fetched, history[r].clash, history[r].cause)]
          /\ history[r].cause \in Nat /\ place.step <= Len(plan[r]) + 1
      BY <1>5, <2>3, Unmoved
    <2>6. ASSUME Shape', at'[r] = place, attempts'[r] = attempts[r], history'[r].cause = history[r].cause
          PROVE  Log(r)'
      <3>1. at'[r].step = at[r].step /\ at'[r].attempt = at[r].attempt /\ at'[r].pc = "load"
        BY <2>3, <2>6
      <3>2. history[r].cause = 0
        BY <1>1 DEF Log, Going, InLoop
      <3>3. Going(r)'
        BY <1>1, <2>6, <3>1, <3>2 DEF Going, Step, InLoop
      <3> QED
        BY <1>1, <2>6, <3>1, <3>3, LogSame
    <2> QED
      BY <1>1, <1>2, <1>5, <2>3, <2>5, <2>6, QuietKeep
  <1> QED
    BY <1>3, <1>4, <1>5 DEF StartLoad, Readable

-----------------------------------------------------------------------------
(* Attempts that succeed *)

\* The files of a run, by their names.
Directory(dir) == dir = [n \in Name |-> dir[n]]

\* What it leaves behind.
Leaves(r, context, dir, fetched, clash) ==
    /\ context \in Context /\ clash \in BOOLEAN /\ Directory(dir)
    /\ run_context' = [run_context EXCEPT ![r] = context] /\ files' = [files EXCEPT ![r] = dir]
    /\ history' = [history EXCEPT ![r] = Past(fetched, clash, history[r].cause)]
    /\ history[r].fetched \subseteq fetched /\ (history[r].clash => clash)

\* What a successful attempt of r does besides its data.
SucceedsTo(r, context, dir, fetched, clash, e) ==
    /\ Shape' /\ Log(r)' /\ Frame(r) /\ Grown(r) /\ plan' = plan
    /\ attempts'[r] = Append(attempts[r], e) /\ e.status = "success" /\ e.step_order = at[r].step
    /\ run_context'[r] = context /\ files'[r] = dir
    /\ history'[r].fetched = fetched /\ history'[r].clash = clash /\ at'[r].pc = "attempt"

\* It is noted, and the next step follows.
LEMMA SucceedsKeep ==
    ASSUME NEW r \in Runs, NEW context, NEW dir, NEW fetched, NEW clash,
           Shape, Log(r), Active(r), Succeeds(r), plan' = plan, second' \in Seconds,
           Leaves(r, context, dir, fetched, clash)
    PROVE  \E e : SucceedsTo(r, context, dir, fetched, clash, e)
  <1>0. /\ context \in Context /\ clash \in BOOLEAN /\ Directory(dir)
        /\ run_context' = [run_context EXCEPT ![r] = context] /\ files' = [files EXCEPT ![r] = dir]
        /\ history' = [history EXCEPT ![r] = Past(fetched, clash, history[r].cause)]
        /\ history[r].fetched \subseteq fetched /\ (history[r].clash => clash)
    BY DEF Leaves
  <1>1. at[r].step \in 1..Len(plan[r]) /\ Len(plan[r]) \in Nat /\ at[r].step \in Nat /\ at[r].step <= Len(plan[r])
    BY Lists DEF Active
  <1>2. PICK place \in Place :
           /\ place = [pc |-> "attempt", step |-> at[r].step + 1, attempt |-> 1, exists |-> FALSE]
           /\ place.pc = "attempt" /\ place.step = at[r].step + 1 /\ place.attempt = 1
    <2> DEFINE next == [pc |-> "attempt", step |-> at[r].step + 1, attempt |-> 1, exists |-> FALSE]
    <2>1. next \in Place /\ next.pc = "attempt" /\ next.step = at[r].step + 1 /\ next.attempt = 1
      BY <1>1 DEF Place
    <2> HIDE DEF next
    <2>2. next = [pc |-> "attempt", step |-> at[r].step + 1, attempt |-> 1, exists |-> FALSE]
      BY DEF next
    <2> QED
      BY <2>1, <2>2
  <1>e. PICK e : e = Entry(r, "success", None, 0)
    OBVIOUS
  <1>3. e \in AnAttempt /\ e.status = "success" /\ e.step_order = at[r].step
    <2>1. "success" \in {"success", "failed"} /\ None \in Errors \cup {None} /\ 0 \in Nat
      OBVIOUS
    <2>2. Entry(r, "success", None, 0) \in AnAttempt
      BY <1>1, <2>1, EntryFacts
    <2> QED
      BY <1>e, <2>2, EntryFields
  <1>4. PICK list \in Seq(AnAttempt) : list = Append(attempts[r], e)
    <2>1. attempts[r] \in Seq(AnAttempt)
      BY Unmoved
    <2>2. Append(attempts[r], e) \in Seq(AnAttempt)
      BY <1>3, <2>1
    <2> QED
      BY <2>2
  <1>5. attempts' = [attempts EXCEPT ![r] = list] /\ at' = [at EXCEPT ![r] = place]
    <2>1. attempts' = [attempts EXCEPT ![r] = Append(attempts[r], Entry(r, "success", None, 0))]
      BY DEF Succeeds, Record, Entry
    <2>2. at' = [at EXCEPT ![r] = place]
      BY <1>2 DEF Succeeds, Goto
    <2> QED
      BY <1>4, <1>e, <2>1, <2>2
  <1>6. history[r].cause \in Nat /\ place.step <= Len(plan[r]) + 1
    <2>1. history[r].cause \in Nat
      BY Unmoved
    <2>2. place.step <= Len(plan[r]) + 1
      BY <1>1, <1>2
    <2> QED
      BY <2>1, <2>2
  <1>7. Moved(r, place, list, context, dir, Past(fetched, clash, history[r].cause))
    BY <1>0, <1>5 DEF Moved
  <1>8. /\ Shape' /\ Frame(r) /\ plan' = plan
        /\ at'[r] = place /\ attempts'[r] = list /\ run_context'[r] = context /\ files'[r] = dir
        /\ history'[r].fetched = fetched /\ history'[r].clash = clash /\ history'[r].cause = history[r].cause
    BY <1>0, <1>6, <1>7, MovedFacts DEF Directory
  <1>9. Log(r)'
    BY <1>2, <1>4, <1>8, <1>e, LogSuccess
  <1>10. Grown(r)
    BY <1>0, <1>4, <1>8 DEF Grown
  <1> QED
    BY <1>2, <1>3, <1>4, <1>8, <1>9, <1>10 DEF SucceedsTo

\* A fetched file replaces what was fetched in the same second; if it was another one,
\* there is a clash.
LEMMA IngestionKeeps ==
    ASSUME NEW r \in Runs, NEW f \in Sources, NEW name \in Name, NEW e, NEW context, NEW dir, NEW clash,
           Shape, Data(r), ~name.transformed, dir = [files[r] EXCEPT ![name] = f],
           context.ingestion = name, context.validation = run_context[r].validation,
           context.transformation = run_context[r].transformation,
           clash = (history[r].clash \/ files[r][name] \notin {None, f}),
           Step(r).step_type = "ingestion", SucceedsTo(r, context, dir, history[r].fetched \cup {f}, clash, e)
    PROVE  Data(r)'
  <1>1. /\ Shape' /\ Frame(r) /\ Grown(r) /\ plan' = plan
        /\ attempts'[r] = Append(attempts[r], e) /\ e.status = "success" /\ e.step_order = at[r].step
        /\ run_context'[r] = context /\ files'[r] = dir
        /\ history'[r].fetched = history[r].fetched \cup {f} /\ history'[r].clash = clash /\ at'[r].pc = "attempt"
    BY DEF SucceedsTo
  <1>2. plan[r][e.step_order].step_type = "ingestion"
    BY <1>1 DEF Step
  <1>n. PICK n : n = Len(attempts[r])
    OBVIOUS
  <1>3. StepOf(r, n + 1)' = plan[r][e.step_order] /\ n + 1 \in Succeeded(r)'
    <2>1. Shape' /\ attempts'[r] = Append(attempts[r], e) /\ plan' = plan
      BY <1>1
    <2>2. /\ \A type, i : \A l \in 1..n + 1 : Latest(r, type, i, l) => Latest(r, type, i, l)'
          /\ e.status = "success" => Latest(r, plan[r][e.step_order].step_type, n + 1, n + 2)'
          /\ StepOf(r, n + 1)' = plan[r][e.step_order]
          /\ \A i \in Succeeded(r) : i \in Succeeded(r)' /\ i \in 1..n /\ StepOf(r, i)' = StepOf(r, i)
          /\ e.status = "success" => n + 1 \in Succeeded(r)'
          /\ n \in Nat /\ DOMAIN attempts[r] = 1..n /\ DOMAIN attempts'[r] = 1..n + 1 /\ Len(attempts'[r]) = n + 1
      BY <1>n, <2>1, LatestGrows, ZenonT(30)
    <2> QED
      BY <1>1, <2>2
  <1>4. files[r] = [m \in Name |-> files[r][m]]
    BY Unmoved
  <1>5. dir[name] = f /\ \A m \in Name : m # name => dir[m] = files[r][m]
    BY <1>4
  <1>6. /\ history[r].fetched \subseteq Sources
        /\ \A m \in Name : files[r][m] # None => IsCsv(files[r][m])
        /\ \A m \in Name : ~m.transformed /\ files[r][m] # None => files[r][m] \in history[r].fetched
        /\ run_context[r].validation # None =>
              ~run_context[r].validation.transformed /\ files[r][run_context[r].validation] # None
        /\ run_context[r].transformation # None => run_context[r].transformation.transformed
    BY DEF Data, Stored
  <1>7. run_context[r].validation \in Name \cup {None} /\ run_context[r].transformation \in Name \cup {None}
    <2>1. run_context[r] \in Context
      BY Unmoved
    <2> QED
      BY <2>1 DEF Context
  <1>8. f # None /\ IsCsv(f)
    BY SourcesAssumption, NoneAssumption
  <1>9. Stored(r)'
    <2>1. history'[r].fetched \subseteq Sources
      BY <1>1, <1>6
    <2>2. \A m \in Name : dir[m] # None => IsCsv(dir[m])
      BY <1>5, <1>6, <1>8
    <2>3. \A m \in Name : ~m.transformed /\ dir[m] # None => dir[m] \in history'[r].fetched
      BY <1>1, <1>5, <1>6
    <2>4. context.validation # None => ~context.validation.transformed /\ dir[context.validation] # None
      BY <1>5, <1>6, <1>7, <1>8
    <2> QED
      BY <1>1, <1>6, <2>1, <2>2, <2>3, <2>4 DEF Stored
  <1>10. Stages(r)'
    <2>1. Stages(r)
      BY DEF Data
    <2> QED
      BY <1>1, <1>2, <1>3, <2>1, StagesGrow DEF Stages
  <1>11. Passed(r)'
    <2>1. Passed(r)
      BY DEF Data
    <2>2. run_context[r].validation # None =>
             (dir[run_context[r].validation] = files[r][run_context[r].validation] \/ clash)
      BY <1>5, <1>6, <1>7
    <2> QED
      BY <1>1, <1>2, <2>1, <2>2, PassedGrows
  <1>12. Made(r)'
    <2>1. Made(r)
      BY DEF Data
    <2>2. run_context[r].transformation # None =>
             dir[run_context[r].transformation] = files[r][run_context[r].transformation]
      BY <1>5, <1>6, <1>7
    <2> QED
      BY <1>1, <1>2, <2>1, <2>2, MadeGrows
  <1> QED
    BY <1>9, <1>10, <1>11, <1>12 DEF Data

\* A validated file is one that the checks of its step passed.
LEMMA ValidationKeeps ==
    ASSUME NEW r \in Runs, NEW name, NEW e, NEW context,
           Shape, Data(r), name = run_context[r].ingestion, name # None, files[r][name] # None,
           Checks(Step(r).config, files[r][name]),
           context.ingestion = run_context[r].ingestion, context.validation = name,
           context.transformation = run_context[r].transformation,
           Step(r).step_type = "validation",
           SucceedsTo(r, context, files[r], history[r].fetched, history[r].clash, e)
    PROVE  Data(r)'
  <1>1. /\ Shape' /\ Frame(r) /\ Grown(r) /\ plan' = plan
        /\ attempts'[r] = Append(attempts[r], e) /\ e.status = "success" /\ e.step_order = at[r].step
        /\ run_context'[r] = context /\ files'[r] = files[r]
        /\ history'[r].fetched = history[r].fetched /\ history'[r].clash = history[r].clash /\ at'[r].pc = "attempt"
    BY DEF SucceedsTo
  <1>2. plan[r][e.step_order] = Step(r)
    BY <1>1 DEF Step
  <1>n. PICK n : n = Len(attempts[r])
    OBVIOUS
  <1>3. /\ StepOf(r, n + 1)' = Step(r) /\ n + 1 \in Succeeded(r)' /\ n \in Nat
        /\ DOMAIN attempts'[r] = 1..n + 1 /\ Len(attempts'[r]) = n + 1
        /\ Latest(r, "validation", n + 1, n + 2)'
        /\ \A i \in Succeeded(r) : i \in Succeeded(r)' /\ i \in 1..n /\ StepOf(r, i)' = StepOf(r, i)
    <2>1. Shape' /\ attempts'[r] = Append(attempts[r], e) /\ plan' = plan
      BY <1>1
    <2>2. /\ \A type, i : \A l \in 1..n + 1 : Latest(r, type, i, l) => Latest(r, type, i, l)'
          /\ e.status = "success" => Latest(r, plan[r][e.step_order].step_type, n + 1, n + 2)'
          /\ StepOf(r, n + 1)' = plan[r][e.step_order]
          /\ \A i \in Succeeded(r) : i \in Succeeded(r)' /\ i \in 1..n /\ StepOf(r, i)' = StepOf(r, i)
          /\ e.status = "success" => n + 1 \in Succeeded(r)'
          /\ n \in Nat /\ DOMAIN attempts[r] = 1..n /\ DOMAIN attempts'[r] = 1..n + 1 /\ Len(attempts'[r]) = n + 1
      BY <1>n, <2>1, LatestGrows
    <2> QED
      BY <1>1, <1>2, <2>2
  <1>4. Stored(r)'
    BY <1>1 DEF Data, Stored
  <1>5. Stages(r)'
    <2>1. Stages(r)
      BY DEF Data
    <2>2. PICK a \in Succeeded(r) : StepOf(r, a).step_type = "ingestion"
      BY <2>1 DEF Stages
    <2>3. a \in Succeeded(r)' /\ a < n + 1 /\ StepOf(r, a)'.step_type = "ingestion"
      BY <1>3, <2>2
    <2> QED
      BY <1>1, <1>3, <2>1, <2>3, StagesGrow DEF Stages
  <1>6. Passed(r)'
    <2>1. NextPlace(r)' = n + 2
      BY <1>3 DEF NextPlace
    <2>2. n + 1 \in DOMAIN attempts'[r]
      BY <1>3
    <2>3. Latest(r, "validation", n + 1, NextPlace(r))'
      BY <1>3, <2>1 DEF Latest
    <2>4. Checks(StepOf(r, n + 1)'.config, files'[r][run_context'[r].validation])
      BY <1>1, <1>3
    <2> QED
      BY <2>2, <2>3, <2>4 DEF Passed
  <1>7. Made(r)'
    <2>1. Made(r)
      BY DEF Data
    <2> QED
      BY <1>1, <1>2, <2>1, MadeGrows
  <1> QED
    BY <1>4, <1>5, <1>6, <1>7 DEF Data

\* A transformed file is made of the validated one.
LEMMA TransformationKeeps ==
    ASSUME NEW r \in Runs, NEW name \in Name, NEW output \in Name, NEW e, NEW context, NEW dir,
           Shape, Data(r), name = run_context[r].validation, name # None, files[r][name] # None,
           CanTransform(Step(r).config, files[r][name]), output.transformed,
           dir = [files[r] EXCEPT ![output] = Transform(Step(r).config, files[r][name])],
           context.ingestion = run_context[r].ingestion, context.validation = run_context[r].validation,
           context.transformation = output,
           Step(r).step_type = "transformation",
           SucceedsTo(r, context, dir, history[r].fetched, history[r].clash, e)
    PROVE  Data(r)'
  <1>1. /\ Shape' /\ Frame(r) /\ Grown(r) /\ plan' = plan
        /\ attempts'[r] = Append(attempts[r], e) /\ e.status = "success" /\ e.step_order = at[r].step
        /\ run_context'[r] = context /\ files'[r] = dir
        /\ history'[r].fetched = history[r].fetched /\ history'[r].clash = history[r].clash /\ at'[r].pc = "attempt"
    BY DEF SucceedsTo
  <1>2. plan[r][e.step_order] = Step(r)
    BY <1>1 DEF Step
  <1>n. PICK n : n = Len(attempts[r])
    OBVIOUS
  <1>3. /\ StepOf(r, n + 1)' = Step(r) /\ n + 1 \in Succeeded(r)' /\ n \in Nat
        /\ DOMAIN attempts[r] = 1..n /\ DOMAIN attempts'[r] = 1..n + 1 /\ Len(attempts'[r]) = n + 1
        /\ Latest(r, "transformation", n + 1, n + 2)'
        /\ \A i \in Succeeded(r) : i \in Succeeded(r)' /\ i \in 1..n /\ StepOf(r, i)' = StepOf(r, i)
        /\ \A type, i : \A l \in 1..n + 1 : Latest(r, type, i, l) => Latest(r, type, i, l)'
    <2>1. Shape' /\ attempts'[r] = Append(attempts[r], e) /\ plan' = plan
      BY <1>1
    <2>2. /\ \A type, i : \A l \in 1..n + 1 : Latest(r, type, i, l) => Latest(r, type, i, l)'
          /\ e.status = "success" => Latest(r, plan[r][e.step_order].step_type, n + 1, n + 2)'
          /\ StepOf(r, n + 1)' = plan[r][e.step_order]
          /\ \A i \in Succeeded(r) : i \in Succeeded(r)' /\ i \in 1..n /\ StepOf(r, i)' = StepOf(r, i)
          /\ e.status = "success" => n + 1 \in Succeeded(r)'
          /\ n \in Nat /\ DOMAIN attempts[r] = 1..n /\ DOMAIN attempts'[r] = 1..n + 1 /\ Len(attempts'[r]) = n + 1
      BY <1>n, <2>1, LatestGrows
    <2> QED
      BY <1>1, <1>2, <2>2
  <1>4. files[r] = [m \in Name |-> files[r][m]]
    BY Unmoved
  <1>f. PICK f : f = files[r][name]
    OBVIOUS
  <1>g. PICK g : g = Transform(Step(r).config, f)
    OBVIOUS
  <1>5. dir[output] = g /\ \A m \in Name : m # output => dir[m] = files[r][m]
    BY <1>4, <1>f, <1>g
  <1>6. IsCsv(g) /\ Rows(g) = Kept(Step(r).config, f)
    BY <1>f, <1>g, TransformFacts
  <1>7. /\ history[r].fetched \subseteq Sources
        /\ \A m \in Name : files[r][m] # None => IsCsv(files[r][m])
        /\ \A m \in Name : ~m.transformed /\ files[r][m] # None => files[r][m] \in history[r].fetched
        /\ run_context[r].ingestion # None => ~run_context[r].ingestion.transformed
        /\ ~name.transformed
    BY DEF Data, Stored
  <1>8. name # output /\ dir[name] = f /\ f # None /\ f \in history[r].fetched
    BY <1>5, <1>7, <1>f
  <1>9. Stored(r)'
    <2>1. \A m \in Name : dir[m] # None => IsCsv(dir[m])
      BY <1>5, <1>6, <1>7
    <2>2. \A m \in Name : ~m.transformed /\ dir[m] # None => dir[m] \in history[r].fetched
      BY <1>5, <1>7
    <2> QED
      BY <1>1, <1>7, <1>8, <2>1, <2>2 DEF Stored
  <1>10. Stages(r)'
    <2>1. Stages(r)
      BY DEF Data
    <2>2. PICK a \in Succeeded(r), b \in Succeeded(r) :
             a < b /\ StepOf(r, a).step_type = "ingestion" /\ StepOf(r, b).step_type = "validation"
      BY <2>1 DEF Stages
    <2>3. /\ a \in Succeeded(r)' /\ b \in Succeeded(r)' /\ a < b /\ b < n + 1
          /\ StepOf(r, a)'.step_type = "ingestion" /\ StepOf(r, b)'.step_type = "validation"
      BY <1>3, <2>2
    <2> QED
      BY <1>1, <1>3, <2>1, <2>3, StagesGrow DEF Stages
  <1>11. Passed(r)' /\ Made(r)'
    <2>1. Passed(r)
      BY DEF Data
    <2>2. Passed(r)'
      BY <1>1, <1>2, <1>8, <1>f, <2>1, PassedGrows
    <2>3. PICK v \in DOMAIN attempts[r] :
             /\ Latest(r, "validation", v, NextPlace(r))
             /\ history[r].clash \/ Checks(StepOf(r, v).config, f)
      BY <1>f, <2>1 DEF Passed
    <2>4. Latest(r, "validation", v, n + 1) /\ v \in Succeeded(r)
      BY <1>n, <2>3 DEF NextPlace, Latest
    <2>5. n + 1 \in 1..n + 1 /\ v \in DOMAIN attempts'[r]
      BY <1>3, <2>3
    <2>6. Latest(r, "validation", v, n + 1)' /\ StepOf(r, v)' = StepOf(r, v)
      BY <1>3, <2>4, <2>5
    <2>7. MadeFrom(r, g, n + 1)'
      BY <1>1, <1>3, <1>6, <1>8, <2>3, <2>5, <2>6 DEF MadeFrom
    <2>8. files'[r][run_context'[r].transformation] = g
      BY <1>1, <1>5
    <2>9. MadeFrom(r, files[r][run_context[r].transformation], n + 1)'
      BY <2>7, <2>8 DEF MadeFrom
    <2>10. NextPlace(r)' = n + 2
      BY <1>3 DEF NextPlace
    <2>11. Latest(r, "transformation", n + 1, NextPlace(r))'
      BY <1>3, <2>10 DEF Latest
    <2>12. Made(r)'
      BY <1>3, <2>5, <2>9, <2>11 DEF Made
    <2> QED
      BY <2>2, <2>12
  <1> QED
    BY <1>9, <1>10, <1>11 DEF Data

-----------------------------------------------------------------------------
(* The attempts of the stages before the load *)

\* The fields of a result.
LEMMA ResultFields ==
    ASSUME NEW context, NEW written, NEW error
    PROVE  /\ Result(context, written, error).context = context
           /\ Result(context, written, error).files = written
           /\ Result(context, written, error).error = error
  BY DEF Result

\* A handler that raises leaves the context and the files as they are.
LEMMA RaiseFacts ==
    ASSUME NEW r, NEW error \in Errors, NEW result \in Raise(r, error)
    PROVE  /\ result.context = run_context[r] /\ result.files = files[r]
           /\ result.error \in Errors /\ result.error # None
  BY ResultFields, NoneAssumption DEF Raise

\* What a fetch adds to what is known of a run.
LEMMA FetchNoted ==
    ASSUME NEW r \in Runs, NEW S, S \subseteq Sources, NEW b \in BOOLEAN, Shape, \A s \in Runs : Data(s),
           history' = [history EXCEPT ![r].fetched = @ \cup S, ![r].clash = @ \/ b]
    PROVE  history' = [history EXCEPT ![r] = Past(history[r].fetched \cup S, history[r].clash \/ b, history[r].cause)]
  <1> DEFINE Known == [fetched: SUBSET Sources, clash: BOOLEAN, cause: Nat]
  <1>1. history \in [Runs -> Known]
    <2>1. history = [s \in Runs |-> history[s]]
      BY DEF Shape
    <2>2. ASSUME NEW s \in Runs PROVE history[s] \in Known
      <3>1. history[s] = Past(history[s].fetched, history[s].clash, history[s].cause)
            /\ history[s].clash \in BOOLEAN /\ history[s].cause \in Nat
        BY Unmoved
      <3>2. history[s].fetched \in SUBSET Sources
        BY DEF Data, Stored
      <3>3. ASSUME NEW F \in SUBSET Sources, NEW c \in BOOLEAN, NEW k \in Nat PROVE Past(F, c, k) \in Known
        BY DEF Past
      <3> HIDE DEF Known
      <3> QED
        BY <3>1, <3>2, <3>3, Zenon
    <2> HIDE DEF Known
    <2> QED
      BY <2>1, <2>2
  <1>2. /\ history' \in [Runs -> Known] /\ \A s \in Runs \ {r} : history'[s] = history[s]
        /\ history'[r].fetched = history[r].fetched \cup S /\ history'[r].clash = (history[r].clash \/ b)
        /\ history'[r].cause = history[r].cause
    BY <1>1
  <1>3. history'[r] = Past(history[r].fetched \cup S, history[r].clash \/ b, history[r].cause)
    BY <1>2 DEF Past
  <1>4. history' = [history EXCEPT ![r] = history'[r]]
    BY <1>1, <1>2
  <1> QED
    BY <1>3, <1>4

\* An ingestion, when it succeeds.
LEMMA IngestionKeep ==
    ASSUME NEW r \in Runs, NEW result \in run_ingestion(r, Step(r).config), result.error = None,
           Shape, Log(r), \A s \in Runs : Data(s), Active(r), Step(r).step_type = "ingestion", Succeeds(r),
           plan' = plan, second' = second,
           run_context' = [run_context EXCEPT ![r] = result.context], files' = [files EXCEPT ![r] = result.files],
           history' = [history EXCEPT
               ![r].fetched = @ \cup {result.files[result.context.ingestion]},
               ![r].clash = @ \/ files[r][result.context.ingestion] \notin
                                    {None, result.files[result.context.ingestion]}]
    PROVE  Keeps(r)
  <1> DEFINE name == [second |-> second, transformed |-> FALSE]
  <1>1. PICK f \in Sources :
           result = Result([run_context[r] EXCEPT !.ingestion = name], [files[r] EXCEPT ![name] = f], None)
    <2>1. \A error \in Errors : result \notin Raise(r, error)
      BY RaiseFacts
    <2>2. "config" \in Errors /\ "fetch" \in Errors
      BY DEF Errors
    <2> QED
      BY <2>1, <2>2 DEF run_ingestion
  <1>2. second \in Seconds /\ run_context[r] \in Context /\ files[r] = [m \in Name |-> files[r][m]]
    BY Unmoved DEF Shape
  <1>3. PICK nm \in Name : nm = name /\ ~nm.transformed
    <2>1. name \in Name /\ ~name.transformed
      BY <1>2 DEF Name
    <2> QED
      BY <2>1
  <1> HIDE DEF name
  <1>4. PICK context \in Context :
           /\ context = [run_context[r] EXCEPT !.ingestion = nm]
           /\ context.ingestion = nm /\ context.validation = run_context[r].validation
           /\ context.transformation = run_context[r].transformation /\ context.load = run_context[r].load
    <2>1. /\ [run_context[r] EXCEPT !.ingestion = nm] \in Context
          /\ [run_context[r] EXCEPT !.ingestion = nm].ingestion = nm
          /\ [run_context[r] EXCEPT !.ingestion = nm].validation = run_context[r].validation
          /\ [run_context[r] EXCEPT !.ingestion = nm].transformation = run_context[r].transformation
          /\ [run_context[r] EXCEPT !.ingestion = nm].load = run_context[r].load
      BY <1>2 DEF Context
    <2> QED
      BY <2>1
  <1>5. PICK dir : dir = [files[r] EXCEPT ![nm] = f]
    OBVIOUS
  <1>6. Directory(dir) /\ dir[nm] = f
    BY <1>2, <1>5 DEF Directory
  <1>7. result.context = context /\ result.files = dir
    BY <1>1, <1>3, <1>4, <1>5, ResultFields
  <1>8. PICK b \in BOOLEAN : b = (files[r][nm] \notin {None, f})
    OBVIOUS
  <1>9. history' = [history EXCEPT ![r].fetched = @ \cup {f}, ![r].clash = @ \/ b]
    BY <1>4, <1>6, <1>7, <1>8
  <1>10. history' = [history EXCEPT ![r] = Past(history[r].fetched \cup {f}, history[r].clash \/ b, history[r].cause)]
    <2>1. {f} \subseteq Sources
      OBVIOUS
    <2>2. PICK S : S = {f}
      OBVIOUS
    <2>3. history' = [history EXCEPT ![r].fetched = @ \cup S, ![r].clash = @ \/ b]
      BY <1>9, <2>2
    <2> QED
      BY <2>1, <2>2, <2>3, FetchNoted, ZenonT(30)
  <1>11. PICK clash \in BOOLEAN : clash = (history[r].clash \/ b)
    OBVIOUS
  <1>12. /\ second' \in Seconds /\ history[r].fetched \subseteq history[r].fetched \cup {f}
         /\ history[r].clash => clash
         /\ run_context' = [run_context EXCEPT ![r] = context] /\ files' = [files EXCEPT ![r] = dir]
         /\ history' = [history EXCEPT ![r] = Past(history[r].fetched \cup {f}, clash, history[r].cause)]
    BY <1>2, <1>7, <1>10, <1>11
  <1>13. PICK e : SucceedsTo(r, context, dir, history[r].fetched \cup {f}, clash, e)
    <2>1. Leaves(r, context, dir, history[r].fetched \cup {f}, clash)
      BY <1>6, <1>12 DEF Leaves
    <2> QED
      BY <1>12, <2>1, SucceedsKeep
  <1>14. clash = (history[r].clash \/ files[r][nm] \notin {None, f})
    BY <1>8, <1>11
  <1>15. Data(r)'
    BY <1>3, <1>4, <1>5, <1>13, <1>14, IngestionKeeps
  <1> QED
    BY <1>4, <1>13, <1>15 DEF Keeps, SucceedsTo

\* A validation, when it succeeds.
LEMMA ValidationKeep ==
    ASSUME NEW r \in Runs, NEW result \in run_validation(r, Step(r).config), result.error = None,
           Shape, Log(r), Data(r), Active(r), Step(r).step_type = "validation", Succeeds(r),
           plan' = plan, second' = second, history' = history,
           run_context' = [run_context EXCEPT ![r] = result.context], files' = [files EXCEPT ![r] = result.files]
    PROVE  Keeps(r)
  <1>0. PICK name : name = run_context[r].ingestion
    OBVIOUS
  <1>1. /\ name # None /\ Readable(files[r][name]) /\ Checks(Step(r).config, files[r][name])
        /\ result = Result([run_context[r] EXCEPT !.validation = name], files[r], None)
    <2>1. \A error \in Errors : result \notin Raise(r, error)
      BY RaiseFacts
    <2>2. "missing" \in Errors /\ "read" \in Errors /\ "config" \in Errors /\ "check" \in Errors
      BY DEF Errors
    <2> QED
      BY <1>0, <2>1, <2>2 DEF run_validation
  <1>2. /\ second' \in Seconds /\ run_context[r] \in Context /\ files[r] = [m \in Name |-> files[r][m]]
        /\ history[r].clash \in BOOLEAN
        /\ history' = [history EXCEPT ![r] = Past(history[r].fetched, history[r].clash, history[r].cause)]
    BY Unmoved DEF Shape
  <1>3. PICK context \in Context :
           /\ context = [run_context[r] EXCEPT !.validation = name]
           /\ context.ingestion = run_context[r].ingestion /\ context.validation = name
           /\ context.transformation = run_context[r].transformation /\ context.load = run_context[r].load
    <2>1. name \in Name \cup {None}
      BY <1>0, <1>2 DEF Context
    <2>2. /\ [run_context[r] EXCEPT !.validation = name] \in Context
          /\ [run_context[r] EXCEPT !.validation = name].ingestion = run_context[r].ingestion
          /\ [run_context[r] EXCEPT !.validation = name].validation = name
          /\ [run_context[r] EXCEPT !.validation = name].transformation = run_context[r].transformation
          /\ [run_context[r] EXCEPT !.validation = name].load = run_context[r].load
      BY <1>2, <2>1 DEF Context
    <2> QED
      BY <2>2
  <1>4. result.context = context /\ result.files = files[r]
    BY <1>1, <1>3, ResultFields
  <1>5. PICK e : SucceedsTo(r, context, files[r], history[r].fetched, history[r].clash, e)
    <2>1. /\ Directory(files[r]) /\ run_context' = [run_context EXCEPT ![r] = context]
          /\ files' = [files EXCEPT ![r] = files[r]] /\ history[r].fetched \subseteq history[r].fetched
      BY <1>2, <1>4 DEF Directory
    <2>2. Leaves(r, context, files[r], history[r].fetched, history[r].clash)
      BY <1>2, <2>1 DEF Leaves
    <2> QED
      BY <1>2, <2>1, <2>2, SucceedsKeep
  <1>6. Data(r)'
    BY <1>0, <1>1, <1>3, <1>5, ValidationKeeps DEF Readable
  <1> QED
    BY <1>3, <1>5, <1>6 DEF Keeps, SucceedsTo

\* A transformation, when it succeeds.
LEMMA TransformationKeep ==
    ASSUME NEW r \in Runs, NEW result \in run_transformation(r, Step(r).config), result.error = None,
           Shape, Log(r), Data(r), Active(r), Step(r).step_type = "transformation", Succeeds(r),
           plan' = plan, second' = second, history' = history,
           run_context' = [run_context EXCEPT ![r] = result.context], files' = [files EXCEPT ![r] = result.files]
    PROVE  Keeps(r)
  <1>0. PICK name : name = run_context[r].validation
    OBVIOUS
  <1>1. /\ name # None /\ Readable(files[r][name]) /\ CanTransform(Step(r).config, files[r][name])
        /\ LET output == [name EXCEPT !.transformed = TRUE] IN
           result = Result([run_context[r] EXCEPT !.transformation = output],
                           [files[r] EXCEPT ![output] = Transform(Step(r).config, files[r][name])], None)
    <2>1. \A error \in Errors : result \notin Raise(r, error)
      BY RaiseFacts
    <2>2. "missing" \in Errors /\ "read" \in Errors /\ "config" \in Errors /\ "transform" \in Errors
      BY DEF Errors
    <2> QED
      BY <1>0, <2>1, <2>2 DEF run_transformation
  <1>2. /\ second' \in Seconds /\ run_context[r] \in Context /\ files[r] = [m \in Name |-> files[r][m]]
        /\ history[r].clash \in BOOLEAN
        /\ history' = [history EXCEPT ![r] = Past(history[r].fetched, history[r].clash, history[r].cause)]
    BY Unmoved DEF Shape
  <1>3. name \in Name
    BY <1>0, <1>1, <1>2 DEF Context
  <1>4. PICK output \in Name : output = [name EXCEPT !.transformed = TRUE] /\ output.transformed
    <2>1. [name EXCEPT !.transformed = TRUE] \in Name /\ [name EXCEPT !.transformed = TRUE].transformed
      BY <1>3 DEF Name
    <2> QED
      BY <2>1
  <1>5. PICK dir : dir = [files[r] EXCEPT ![output] = Transform(Step(r).config, files[r][name])]
    OBVIOUS
  <1>6. Directory(dir)
    BY <1>2, <1>5 DEF Directory
  <1>7. PICK context \in Context :
           /\ context = [run_context[r] EXCEPT !.transformation = output]
           /\ context.ingestion = run_context[r].ingestion /\ context.validation = run_context[r].validation
           /\ context.transformation = output /\ context.load = run_context[r].load
    <2>1. /\ [run_context[r] EXCEPT !.transformation = output] \in Context
          /\ [run_context[r] EXCEPT !.transformation = output].ingestion = run_context[r].ingestion
          /\ [run_context[r] EXCEPT !.transformation = output].validation = run_context[r].validation
          /\ [run_context[r] EXCEPT !.transformation = output].transformation = output
          /\ [run_context[r] EXCEPT !.transformation = output].load = run_context[r].load
      BY <1>2 DEF Context
    <2> QED
      BY <2>1
  <1>8. result.context = context /\ result.files = dir
    BY <1>1, <1>4, <1>5, <1>7, ResultFields
  <1>9. PICK e : SucceedsTo(r, context, dir, history[r].fetched, history[r].clash, e)
    <2>1. /\ run_context' = [run_context EXCEPT ![r] = context]
          /\ files' = [files EXCEPT ![r] = dir] /\ history[r].fetched \subseteq history[r].fetched
      BY <1>8
    <2>2. Leaves(r, context, dir, history[r].fetched, history[r].clash)
      BY <1>2, <1>6, <2>1 DEF Leaves
    <2> QED
      BY <1>2, <2>1, <2>2, SucceedsKeep
  <1>10. Data(r)'
    BY <1>0, <1>1, <1>3, <1>4, <1>5, <1>7, <1>9, TransformationKeeps DEF Readable
  <1> QED
    BY <1>7, <1>9, <1>10 DEF Keeps, SucceedsTo

\* Whatever an attempt comes to, what is known of the run stands.
LEMMA AttemptKeep ==
    ASSUME NEW r \in Runs, Shape, Log(r), \A s \in Runs : Data(s), Attempt(r)
    PROVE  Keeps(r)
  <1>1. /\ InLoop(r) /\ Step(r).step_type # "load" /\ Step(r).max_retries >= 0
        /\ plan' = plan /\ second' = second
    BY DEF Attempt
  <1>2. Active(r) /\ second' \in Seconds /\ Data(r)
    BY <1>1 DEF Active, InLoop, Shape
  <1>3. Step(r).step_type \in {"ingestion", "validation", "transformation"}
    <2>1. Step(r).step_type \in Types
      BY <1>1, AtStep DEF InLoop
    <2> QED
      BY <1>1, <2>1 DEF Types
  <1>4. PICK result \in perform_step(r) :
          /\ run_context' = [run_context EXCEPT ![r] = result.context]
          /\ files' = [files EXCEPT ![r] = result.files]
          /\ IF result.error # None THEN Fails(r, result.error)
             ELSE /\ Succeeds(r)
                  /\ history' = IF Step(r).step_type # "ingestion" THEN history
                        ELSE LET name == result.context.ingestion IN
                             [history EXCEPT ![r].fetched = @ \cup {result.files[name]},
                                             ![r].clash = @ \/ files[r][name] \notin {None, result.files[name]}]
    BY DEF Attempt
  <1>5. CASE result.error # None
    <2>1. result.context = run_context[r] /\ result.files = files[r] /\ result.error \in Errors
      <3>1. \E error \in Errors : result \in Raise(r, error)
        <4>1. {"config", "fetch", "missing", "read", "check", "transform"} \subseteq Errors
          BY DEF Errors
        <4>2. CASE Step(r).step_type = "ingestion"
          <5>1. result \in run_ingestion(r, Step(r).config)
            BY <1>4, <4>2 DEF perform_step
          <5>2. \A context, written : result # Result(context, written, None)
            BY <1>5, ResultFields
          <5>3. result \in Raise(r, "config") \/ result \in Raise(r, "fetch")
            BY <5>1, <5>2 DEF run_ingestion
          <5> QED
            BY <4>1, <5>3
        <4>3. CASE Step(r).step_type = "validation"
          <5>1. result \in run_validation(r, Step(r).config)
            BY <1>4, <4>3 DEF perform_step
          <5> QED
            BY <1>5, <4>1, <5>1, ResultFields DEF run_validation
        <4>4. CASE Step(r).step_type = "transformation"
          <5>1. result \in run_transformation(r, Step(r).config)
            BY <1>4, <4>4 DEF perform_step
          <5> QED
            BY <1>5, <4>1, <5>1, ResultFields DEF run_transformation
        <4> QED
          BY <1>3, <4>2, <4>3, <4>4
      <3> QED
        BY <3>1, RaiseFacts
    <2>2. run_context' = run_context /\ files' = files
      BY <1>4, <2>1, Unmoved
    <2>3. Fails(r, result.error)
      BY <1>4, <1>5
    <2>4. Keeps(r)
      BY <1>1, <1>2, <2>1, <2>2, <2>3, FailsKeep
    <2> QED
      BY <2>2, <2>4
  <1>6. CASE result.error = None
    <2>1. CASE Step(r).step_type = "ingestion"
      <3>1. result \in run_ingestion(r, Step(r).config)
        BY <1>4, <2>1 DEF perform_step
      <3> QED
        BY <1>1, <1>2, <1>4, <1>6, <2>1, <3>1, IngestionKeep
    <2>2. CASE Step(r).step_type = "validation"
      <3>1. result \in run_validation(r, Step(r).config)
        BY <1>4, <2>2 DEF perform_step
      <3> QED
        BY <1>1, <1>2, <1>4, <1>6, <2>2, <3>1, ValidationKeep
    <2>3. CASE Step(r).step_type = "transformation"
      <3>1. result \in run_transformation(r, Step(r).config)
        BY <1>4, <2>3 DEF perform_step
      <3> QED
        BY <1>1, <1>2, <1>4, <1>6, <2>3, <3>1, TransformationKeep
    <2> QED
      BY <1>3, <2>1, <2>2, <2>3
  <1> QED
    BY <1>5, <1>6

-----------------------------------------------------------------------------
(* The load and the warehouse table *)

\* A load that ends is on the list, and the data of its run stands.
LEMMA FinishLoadKeep ==
    ASSUME NEW r \in Runs, Shape, Log(r), Data(r), FinishLoad(r)
    PROVE  /\ Keeps(r) /\ Step(r).step_type = "load" /\ at[r].pc = "load"
           /\ \E e : attempts'[r] = Append(attempts[r], e) /\ e.step_order = at[r].step
           /\ \/ table' = <<[run |-> r, csv |-> files[r][run_context[r].transformation]]>>
              \/ table' = table
  <1>1. /\ at[r].pc = "load" /\ plan' = plan /\ files' = files /\ second' = second
    BY DEF FinishLoad
  <1>2. at[r].step <= Len(plan[r]) /\ Step(r).step_type = "load" /\ Step(r).max_retries >= 0
    BY <1>1 DEF Log, Going
  <1>3. Active(r) /\ second' \in Seconds
    BY <1>1, <1>2 DEF Active, Shape
  <1> DEFINE new == [run |-> r, csv |-> files[r][run_context[r].transformation]]
  <1>4. CASE /\ table' = Replaced(new) /\ Succeeds(r) /\ run_context' = [run_context EXCEPT ![r].load = TRUE]
             /\ UNCHANGED history
    <2>1. /\ run_context[r] \in Context /\ files[r] = [m \in Name |-> files[r][m]] /\ history[r].clash \in BOOLEAN
          /\ files' = [files EXCEPT ![r] = files[r]]
          /\ history' = [history EXCEPT ![r] = Past(history[r].fetched, history[r].clash, history[r].cause)]
      BY <1>1, <1>4, Unmoved
    <2>2. PICK context \in Context :
             /\ context = [run_context[r] EXCEPT !.load = TRUE]
             /\ context.ingestion = run_context[r].ingestion /\ context.validation = run_context[r].validation
             /\ context.transformation = run_context[r].transformation
      <3>1. /\ [run_context[r] EXCEPT !.load = TRUE] \in Context
            /\ [run_context[r] EXCEPT !.load = TRUE].ingestion = run_context[r].ingestion
            /\ [run_context[r] EXCEPT !.load = TRUE].validation = run_context[r].validation
            /\ [run_context[r] EXCEPT !.load = TRUE].transformation = run_context[r].transformation
        BY <2>1 DEF Context
      <3> QED
        BY <3>1
    <2>3. run_context' = [run_context EXCEPT ![r] = context]
      <3>1. run_context' = [run_context EXCEPT ![r] = [run_context[r] EXCEPT !.load = TRUE]]
        BY <1>4
      <3> QED
        BY <2>2, <3>1
    <2>4. Leaves(r, context, files[r], history[r].fetched, history[r].clash)
      BY <2>1, <2>2, <2>3 DEF Leaves, Directory
    <2>5. PICK e : SucceedsTo(r, context, files[r], history[r].fetched, history[r].clash, e)
      BY <1>1, <1>3, <1>4, <2>4, SucceedsKeep
    <2>6. /\ Shape' /\ Log(r)' /\ Frame(r) /\ Grown(r) /\ plan' = plan
          /\ attempts'[r] = Append(attempts[r], e) /\ e.status = "success" /\ e.step_order = at[r].step
          /\ run_context'[r] = context /\ files'[r] = files[r]
          /\ history'[r].fetched = history[r].fetched /\ history'[r].clash = history[r].clash /\ at'[r].pc = "attempt"
      BY <2>5 DEF SucceedsTo
    <2>7. plan[r][e.step_order].step_type = "load"
      BY <1>2, <2>6 DEF Step
    <2>8. Data(r)'
      BY <2>2, <2>6, <2>7, DataStands
    <2>9. Keeps(r)
      BY <2>6, <2>8 DEF Keeps
    <2>10. table' = <<new>>
      BY <1>4 DEF Replaced
    <2> QED
      BY <1>1, <1>2, <2>6, <2>9, <2>10
  <1>5. CASE /\ UNCHANGED table \/ table' = Replaced(new)
             /\ Fails(r, "write")
             /\ UNCHANGED run_context
    <2>1. "write" \in Errors
      BY DEF Errors
    <2>2. Keeps(r) /\ \E e : attempts'[r] = Append(attempts[r], e) /\ e.step_order = at[r].step
      BY <1>1, <1>3, <1>5, <2>1, FailsKeep
    <2>3. table' = <<new>> \/ table' = table
      BY <1>5 DEF Replaced
    <2> QED
      BY <1>1, <1>2, <2>2, <2>3
  <1> QED
    BY <1>4, <1>5 DEF FinishLoad

\* What was loaded was still made of what the run had.
LEMMA LoadedStays ==
    ASSUME NEW x, Shape, Shape', plan' = plan, Loaded(x), Grown(x.run)
    PROVE  Loaded(x)'
  <1>0. PICK r \in Runs : r = x.run
    BY DEF Loaded
  <1>1. /\ x = [run |-> x.run, csv |-> x.csv] /\ IsCsv(x.csv)
        /\ \E a, b, d \in Succeeded(r) :
              /\ a < b /\ b < d /\ StepOf(r, a).step_type = "ingestion"
              /\ StepOf(r, b).step_type = "validation" /\ StepOf(r, d).step_type = "transformation"
        /\ \E t, l \in DOMAIN attempts[r] :
              /\ StepOf(r, l).step_type = "load" /\ Latest(r, "transformation", t, l)
              /\ MadeFrom(r, x.csv, t)
    BY <1>0 DEF Loaded
  <1>c. PICK csv : csv = x.csv
    OBVIOUS
  <1>3. /\ \A i \in Succeeded(r) : i \in Succeeded(r)' /\ StepOf(r, i)' = StepOf(r, i)
        /\ \A i \in DOMAIN attempts[r] : i \in DOMAIN attempts'[r] /\ StepOf(r, i)' = StepOf(r, i)
        /\ \A t, l \in DOMAIN attempts[r] : Latest(r, "transformation", t, l) => Latest(r, "transformation", t, l)'
    <2>1. CASE attempts'[r] = attempts[r]
      <3>1. Succeeded(r)' = Succeeded(r) /\ \A i : StepOf(r, i)' = StepOf(r, i)
        BY <2>1 DEF Succeeded, StepOf
      <3> QED
        BY <2>1, <3>1 DEF Latest
    <2>2. CASE \E e : attempts'[r] = Append(attempts[r], e)
      <3>1. PICK e : attempts'[r] = Append(attempts[r], e)
        BY <2>2
      <3>2. PICK n : n = Len(attempts[r])
        OBVIOUS
      <3>3. /\ \A type, i : \A l \in 1..n + 1 : Latest(r, type, i, l) => Latest(r, type, i, l)'
            /\ n \in Nat /\ DOMAIN attempts[r] = 1..n /\ DOMAIN attempts'[r] = 1..n + 1
            /\ \A i \in Succeeded(r) : i \in Succeeded(r)' /\ i \in 1..n /\ StepOf(r, i)' = StepOf(r, i)
        BY <3>1, <3>2, LatestGrows
      <3>4. \A i \in 1..n : StepOf(r, i)' = StepOf(r, i)
        BY <3>1, <3>2, Added
      <3>5. \A i \in 1..n : i \in 1..n + 1
        BY <3>3
      <3> QED
        BY <3>3, <3>4, <3>5
    <2> QED
      BY <1>0, <2>1, <2>2 DEF Grown
  <1>4. \E a, b, d \in Succeeded(r)' :
           /\ a < b /\ b < d /\ StepOf(r, a)'.step_type = "ingestion"
           /\ StepOf(r, b)'.step_type = "validation" /\ StepOf(r, d)'.step_type = "transformation"
    BY <1>1, <1>3
  <1>5. \E t, l \in DOMAIN attempts'[r] :
           /\ StepOf(r, l)'.step_type = "load" /\ Latest(r, "transformation", t, l)'
           /\ MadeFrom(r, csv, t)'
    <2>1. PICK t \in DOMAIN attempts[r], l \in DOMAIN attempts[r] :
             /\ StepOf(r, l).step_type = "load" /\ Latest(r, "transformation", t, l)
             /\ MadeFrom(r, csv, t)
      BY <1>1, <1>c
    <2>2. MadeFrom(r, csv, t)'
      BY <1>0, <2>1, MadeFromGrows
    <2> QED
      BY <1>3, <2>1, <2>2
  <1> QED
    BY <1>0, <1>1, <1>4, <1>5, <1>c DEF Loaded

\* A step that leaves the table leaves it what it was.
LEMMA WarehouseStays ==
    ASSUME Shape, Shape', plan' = plan, Warehouse, table' = table,
           \A s \in Runs : Grown(s)
    PROVE  Warehouse'
  <1>1. CASE \E x : table = <<x>> /\ Loaded(x)
    <2>1. PICK x : table = <<x>> /\ Loaded(x)
      BY <1>1
    <2>2. Grown(x.run)
      BY <2>1 DEF Loaded
    <2> QED
      BY <2>1, <2>2, LoadedStays DEF Warehouse
  <1> QED
    BY <1>1 DEF Warehouse

\* The others have lost nothing.
LEMMA AllGrown ==
    ASSUME NEW r \in Runs, Frame(r), Grown(r)
    PROVE  \A s \in Runs : Grown(s)
  BY DEF Frame, Grown

\* What a load leaves is the transformed file of its run.
LEMMA LoadLoads ==
    ASSUME NEW r \in Runs, NEW e, NEW x, Shape, Log(r), Data(r),
           at[r].pc = "load", Step(r).step_type = "load", Keeps(r),
           attempts'[r] = Append(attempts[r], e), e.step_order = at[r].step,
           x = [run |-> r, csv |-> files[r][run_context[r].transformation]]
    PROVE  Loaded(x)'
  <1>1. Shape' /\ Grown(r) /\ plan' = plan
    BY DEF Keeps
  <1>2. x.run = r /\ x.csv = files[r][run_context[r].transformation]
    OBVIOUS
  <1>c. PICK csv : csv = x.csv
    OBVIOUS
  <1>n. PICK n : n = Len(attempts[r])
    OBVIOUS
  <1>3. /\ \A type, i : \A l \in 1..n + 1 : Latest(r, type, i, l) => Latest(r, type, i, l)'
        /\ StepOf(r, n + 1)' = plan[r][e.step_order]
        /\ \A i \in Succeeded(r) : i \in Succeeded(r)' /\ i \in 1..n /\ StepOf(r, i)' = StepOf(r, i)
        /\ n \in Nat /\ DOMAIN attempts[r] = 1..n /\ DOMAIN attempts'[r] = 1..n + 1 /\ Len(attempts'[r]) = n + 1
    <2>1. Shape' /\ attempts'[r] = Append(attempts[r], e) /\ plan' = plan
      BY <1>1
    <2>2. Growth(r, e, n)
      BY <1>n, <2>1, LatestGrowth
    <2> QED
      BY <2>2 DEF Growth
  <1>4. StepOf(r, n + 1)'.step_type = "load"
    BY <1>3 DEF Step
  <1>5. run_context[r].transformation # None /\ files[r][run_context[r].transformation] # None
    BY DEF Data, Stored
  <1>6. IsCsv(csv)
    <2>1. run_context[r].transformation \in Name
      <3>1. run_context[r] \in Context
        BY Unmoved
      <3> QED
        BY <1>5, <3>1 DEF Context
    <2> QED
      BY <1>2, <1>5, <1>c, <2>1 DEF Data, Stored
  <1>7. \E a, b, d \in Succeeded(r)' :
           /\ a < b /\ b < d /\ StepOf(r, a)'.step_type = "ingestion"
           /\ StepOf(r, b)'.step_type = "validation" /\ StepOf(r, d)'.step_type = "transformation"
    <2>1. Stages(r)
      BY DEF Data
    <2> QED
      BY <1>3, <1>5, <2>1 DEF Stages
  <1>8. \E t, l \in DOMAIN attempts'[r] :
           /\ StepOf(r, l)'.step_type = "load" /\ Latest(r, "transformation", t, l)'
           /\ MadeFrom(r, csv, t)'
    <2>1. Made(r)
      BY DEF Data
    <2>2. PICK t \in DOMAIN attempts[r] : Latest(r, "transformation", t, NextPlace(r)) /\ MadeFrom(r, csv, t)
      BY <1>2, <1>5, <1>c, <2>1 DEF Made
    <2>3. MadeFrom(r, csv, t)'
      BY <1>1, <2>2, MadeFromGrows
    <2>4. Latest(r, "transformation", t, n + 1)
      BY <1>n, <2>2 DEF NextPlace
    <2>5. n + 1 \in 1..n + 1 /\ t \in DOMAIN attempts'[r]
      BY <1>3, <2>2
    <2>6. Latest(r, "transformation", t, n + 1)'
      BY <1>3, <2>4, <2>5
    <2> QED
      BY <1>3, <1>4, <2>3, <2>5, <2>6
  <1>9. x = [run |-> x.run, csv |-> x.csv]
    BY <1>2
  <1> QED
    BY <1>2, <1>6, <1>7, <1>8, <1>9, <1>c DEF Loaded

-----------------------------------------------------------------------------
(* The invariant is inductive *)

\* A step that keeps what is known of its run keeps what is known of all of them.
LEMMA AllKept ==
    ASSUME NEW r \in Runs, \A s \in Runs : Log(s) /\ Data(s), Keeps(r)
    PROVE  Shape' /\ plan' = plan /\ (\A s \in Runs : Log(s)' /\ Data(s)') /\ (\A s \in Runs : Grown(s))
  <1>1. Shape' /\ Log(r)' /\ Data(r)' /\ Frame(r) /\ Grown(r) /\ plan' = plan
    BY DEF Keeps
  <1>2. ASSUME NEW s \in Runs PROVE Log(s)' /\ Data(s)'
    <2>1. CASE s = r
      BY <1>1, <2>1
    <2>2. CASE s # r
      <3>1. /\ at'[s] = at[s] /\ attempts'[s] = attempts[s] /\ run_context'[s] = run_context[s]
            /\ files'[s] = files[s] /\ history'[s] = history[s] /\ plan'[s] = plan[s]
        BY <1>1, <2>2 DEF Frame
      <3> QED
        BY <3>1, OthersKeep
    <2> QED
      BY <2>1, <2>2
  <1> QED
    BY <1>1, <1>2, AllGrown

\* No step breaks it.
LEMMA NextInv == IInv /\ [Next]_vars => IInv'
  <1> SUFFICES ASSUME IInv, [Next]_vars PROVE IInv'
    OBVIOUS
  <1>1. Shape /\ (\A s \in Runs : Log(s)) /\ (\A s \in Runs : Data(s)) /\ Warehouse
    BY DEF IInv
  <1>2. ASSUME NEW r \in Runs, Keeps(r), table' = table PROVE IInv'
    <2>1. Shape' /\ plan' = plan /\ (\A s \in Runs : Log(s)' /\ Data(s)') /\ (\A s \in Runs : Grown(s))
      BY <1>1, <1>2, AllKept
    <2>2. Warehouse'
      BY <1>1, <1>2, <2>1, WarehouseStays
    <2> QED
      BY <2>1, <2>2 DEF IInv
  <1>3. ASSUME NEW r \in Runs, SkipStep(r) PROVE IInv'
    <2>1. Keeps(r)
      BY <1>1, <1>3, SkipKeep
    <2>2. table' = table
      BY <1>3 DEF SkipStep
    <2> QED
      BY <1>2, <2>1, <2>2
  <1>4. ASSUME NEW r \in Runs, Attempt(r) PROVE IInv'
    <2>1. Keeps(r)
      BY <1>1, <1>4, AttemptKeep
    <2>2. table' = table
      BY <1>4 DEF Attempt
    <2> QED
      BY <1>2, <2>1, <2>2
  <1>5. ASSUME NEW r \in Runs, StartLoad(r) PROVE IInv'
    <2>1. Keeps(r)
      BY <1>1, <1>5, StartLoadKeep
    <2>2. table' = table
      BY <1>5 DEF StartLoad
    <2> QED
      BY <1>2, <2>1, <2>2
  <1>6. ASSUME NEW r \in Runs, Finish(r) PROVE IInv'
    <2>1. Keeps(r)
      BY <1>1, <1>6, FinishKeep
    <2>2. table' = table
      BY <1>6 DEF Finish
    <2> QED
      BY <1>2, <2>1, <2>2
  <1>7. ASSUME NEW r \in Runs, FinishLoad(r) PROVE IInv'
    <2> DEFINE new == [run |-> r, csv |-> files[r][run_context[r].transformation]]
    <2>1. /\ Keeps(r) /\ Step(r).step_type = "load" /\ at[r].pc = "load"
          /\ \E e : attempts'[r] = Append(attempts[r], e) /\ e.step_order = at[r].step
          /\ table' = <<new>> \/ table' = table
      BY <1>1, <1>7, FinishLoadKeep
    <2>2. CASE table' = <<new>>
      <3>1. PICK e : attempts'[r] = Append(attempts[r], e) /\ e.step_order = at[r].step
        BY <2>1
      <3>2. PICK x : x = new
        OBVIOUS
      <3>3. Loaded(x)'
        BY <1>1, <2>1, <3>1, <3>2, LoadLoads
      <3>4. table' = <<x>>
        BY <2>2, <3>2
      <3>5. Warehouse'
        BY <3>3, <3>4 DEF Warehouse
      <3>6. Shape' /\ \A s \in Runs : Log(s)' /\ Data(s)'
        BY <1>1, <2>1, AllKept
      <3> QED
        BY <3>5, <3>6 DEF IInv
    <2>3. CASE table' = table
      BY <1>2, <2>1, <2>3
    <2> QED
      BY <2>1, <2>2, <2>3
  <1>8. ASSUME plan' = plan, at' = at, run_context' = run_context, attempts' = attempts, files' = files,
               table' = table, history' = history, second' \in Seconds
        PROVE  IInv'
    <2>1. Shape'
      BY <1>1, <1>8 DEF Shape
    <2>2. ASSUME NEW s \in Runs PROVE Log(s)' /\ Data(s)'
      <3>1. /\ at'[s] = at[s] /\ attempts'[s] = attempts[s] /\ run_context'[s] = run_context[s]
            /\ files'[s] = files[s] /\ history'[s] = history[s] /\ plan'[s] = plan[s]
        BY <1>8
      <3> QED
        BY <1>1, <3>1, OthersKeep
    <2>3. \A s \in Runs : Grown(s)
      BY <1>8 DEF Grown
    <2>4. Warehouse'
      BY <1>1, <1>8, <2>1, <2>3, WarehouseStays
    <2> QED
      BY <2>1, <2>2, <2>4 DEF IInv
  <1>9. CASE Tick
    <2>1. second' \in Seconds
      BY <1>1, <1>9, SecondsAssumption DEF Tick, Shape, Seconds
    <2> QED
      BY <1>8, <1>9, <2>1 DEF Tick
  <1>10. CASE UNCHANGED vars
    BY <1>1, <1>8, <1>10 DEF vars, Shape
  <1> QED
    BY <1>3, <1>4, <1>5, <1>6, <1>7, <1>9, <1>10 DEF Next

\* It holds in every state of every run.
THEOREM Invariant == Spec => []IInv
  BY InitInv, NextInv, PTL DEF Spec

-----------------------------------------------------------------------------

\* StepsInOrder, for any number of runs, any steps and any sources: a run does its steps in
\* their order, all of them if it succeeds, and loads only what came through the stages.
THEOREM StepsInOrderAlways == Spec => []StepsInOrder
  <1>1. IInv => StepsInOrder
    BY TypeSound, LoadSound, DoneSound DEF StepsInOrder
  <1> QED
    BY <1>1, Invariant, PTL

\* LoadedWasValidated: the rows of the table are those of one load, made of a file that run
\* fetched and that passed its validation; a second ingestion in the same second costs
\* the run that validation, and nothing else.
THEOREM LoadedWasValidatedAlways == Spec => []LoadedWasValidated
  BY LoadSound, Invariant, PTL

\* BackoffGrows: with a backoff the attempts of a step are ever further apart.
THEOREM BackoffGrowsAlways == Spec => []BackoffGrows
  BY BackoffSound, Invariant, PTL

\* BlamesTheRightStep: the incident index names the step whose attempts were used up.
THEOREM BlamesTheRightStepAlways == Spec => []BlamesTheRightStep
  BY BlameSound, Invariant, PTL
=============================================================================
