------------------------- MODULE ControlPlaneProofs -------------------------
(***************************************************************************)
(* Proofs about ControlPlane for any number of requests of any kind served *)
(* at the same time, any tables to start from and any database errors.     *)
(* The steps of the 23 operations are first brought into seven forms, and  *)
(* the invariant is proved form by form.                                   *)
(***************************************************************************)
EXTENDS ControlPlane, FiniteSetTheorems, TLAPS

-----------------------------------------------------------------------------
(* The inductive invariant *)

Same(r, s) == r.kind = s.kind /\ r.id = s.id

IsRow(r) ==
    /\ r = [kind |-> r.kind, id |-> r.id, of |-> r.of, slot |-> r.slot, active |-> r.active]
    /\ r.kind \in Kinds /\ r.slot # "null" /\ r.active \in {"on", "off"}

UniqueIds == \A r, s \in db : Same(r, s) => r = s

HasBreaker == \A p \in db : p.kind = "pipeline" => \E b \in db : In("breaker", p.id) = {b}

\* A row with the id of a request was inserted by that request, so the id of a row
\* that is gone is not used again.
Issued(id) == id \in Callers => at[id] \in {"refresh", "done"}

Tables == /\ \A r \in db : IsRow(r) /\ Issued(r.id)
          /\ UniqueIds /\ UniqueSlots /\ NothingOutlivesOwner /\ HasBreaker

Codes == {200, 201, 204, 400, 401, 403, 404, 409, 500}

Control == /\ at \in [Callers -> Labels]
           /\ answer \in [Callers -> Codes \cup {0}]
           /\ \A c \in Callers : at[c] = "done" <=> answer[c] # 0
           /\ req = [c \in Callers |-> req[c]] /\ saw = [c \in Callers |-> saw[c]]
           /\ wrote \subseteq Callers /\ barred \subseteq Callers /\ bereft \subseteq Callers
           /\ faults \in 0..MaxFaults

PipelineOps ==
    {"create_pipeline_step", "get_pipeline_step", "get_all_pipeline_steps", "delete_pipeline_step",
     "update_pipeline_step", "create_schedule", "get_schedule", "delete_schedule", "update_schedule"}

\* The pipeline of the request, while it is there, belongs to its tenant.
OwnsPipeline(c) ==
    /\ Issued(req[c].pipeline)
    /\ \A p \in db : p.kind = "pipeline" /\ p.id = req[c].pipeline => p.of = req[c].tenant

\* The key of the request, while it is there, is a key of its tenant; and it is there
\* as long as the tenant is.
KeyOfItsTenant(c) ==
    /\ Issued(req[c].key) /\ Issued(req[c].tenant)
    /\ \A k \in db : k.kind = "key" /\ k.id = req[c].key => k.of = req[c].tenant
    /\ (\E t \in db : t.kind = "tenant" /\ t.id = req[c].tenant) =>
           \E k \in db : k.kind = "key" /\ k.id = req[c].key

\* A row that c has loaded: it may have changed or be gone, but nothing else has its
\* id, and if it is gone c is marked.
Knows(c, r) == /\ Issued(r.id)
               /\ \A s \in db : Same(r, s) => s.of = r.of
               /\ c \notin bereft => \E s \in db : Same(r, s)

MayUpdate(c, r) ==
    \/ req[c].op = "update_tenant" /\ r.kind = "tenant"
    \/ req[c].op = "update_pipeline" /\ r.kind = "pipeline" /\ r.of = req[c].tenant
    \/ req[c].op \in PipelineOps /\ r.kind \in {"step", "schedule"} /\ r.of = req[c].pipeline

\* A request that arrived with a dead key finds it dead at the door.
Barred(c) ==
    /\ at[c] \in {"verify", "done"} /\ answer[c] \in {0, 401, 500}
    /\ at[c] = "verify" => /\ req[c].op \notin TenantOps /\ ~LiveKey(req[c].key)
                           /\ req[c].key \in Callers => at[req[c].key] = "done"

\* What a request may be and have done at each of its labels.
Well(c) ==
    /\ at[c] \notin {"idle", "done"} => req[c] \in Requests(c)
    /\ at[c] \notin {"idle", "verify", "done"} /\ req[c].op \in TenantOps => req[c].key = Admin
    /\ at[c] \notin {"idle", "verify", "done"} /\ req[c].op \notin TenantOps => KeyOfItsTenant(c)
    /\ at[c] \in {"check", "insert", "list", "delete", "update"} /\ req[c].op \in PipelineOps => OwnsPipeline(c)
    /\ at[c] \in {"update", "revoke", "refresh"} => \A r \in saw[c] : Knows(c, r)
    /\ at[c] = "update" => /\ req[c].op \in UpdateOps /\ req[c].column \in {"slot", "active"}
                           /\ \A r \in saw[c] : MayUpdate(c, r)
    /\ at[c] = "revoke" => /\ req[c].op = "revoke_api_key"
                           /\ \A r \in saw[c] : r.kind = "key" /\ r.of = req[c].tenant
    /\ c \in wrote => at[c] \in {"refresh", "done"} /\ answer[c] \notin 400..499
    /\ c \in barred => Barred(c)
    /\ faults = 0 /\ c \notin bereft => answer[c] # 500

IInv == Tables /\ Control /\ \A c \in Callers : Well(c)

-----------------------------------------------------------------------------
(* What the invariant says *)

\* The tables and the labels of the invariant are those of the properties.
LEMMA InvSound == IInv => TablesSound /\ AnswersTrue /\ RevokedIsRefused
  <1> SUFFICES ASSUME IInv
               PROVE  TablesSound /\ AnswersTrue /\ RevokedIsRefused
    OBVIOUS
  <1>1. TypeOK
    BY DEF IInv, Tables, Control, IsRow, UniqueIds, Same, TypeOK, Codes
  <1>2. OneBreakerEach
    BY FS_Singleton DEF IInv, Tables, HasBreaker, OneBreakerEach
  <1>3. AnswersTrue
    BY DEF IInv, Control, Well, AnswersTrue, RefusedChangesNothing, ServerErrorMeansDeletion
  <1>4. RevokedIsRefused
    BY DEF IInv, Control, Well, Barred, RevokedIsRefused
  <1> QED
    BY <1>1, <1>2, <1>3, <1>4 DEF IInv, Tables, TablesSound

\* The seed is sound, and nobody has asked for anything.
LEMMA InitInv == Init => IInv
  <1> SUFFICES ASSUME Init
               PROVE  IInv
    OBVIOUS
  <1>1. Tables
    <2>1. \A r \in db : IsRow(r) /\ Issued(r.id)
      BY SeedAssumption DEF Init, IsRow, Issued
    <2>2. UniqueIds /\ UniqueSlots
      BY SeedAssumption DEF Init, UniqueIds, UniqueSlots, Same, UniqueColumns
    <2>3. NothingOutlivesOwner
      BY SeedAssumption DEF Init, NothingOutlivesOwner, Of
    <2>4. HasBreaker
      BY SeedAssumption DEF Init, HasBreaker, In
    <2> QED
      BY <2>1, <2>2, <2>3, <2>4 DEF Tables
  <1>2. Control
    <2>1. req = [c \in Callers |-> req[c]] /\ saw = [c \in Callers |-> saw[c]]
      BY DEF Init
    <2>2. at \in [Callers -> Labels] /\ answer \in [Callers -> Codes \cup {0}]
      BY DEF Init, Labels
    <2>3. wrote \subseteq Callers /\ barred \subseteq Callers /\ bereft \subseteq Callers
      BY DEF Init
    <2>5. faults \in 0..MaxFaults
      BY FaultsAssumption DEF Init
    <2>4. \A c \in Callers : at[c] = "done" <=> answer[c] # 0
      BY DEF Init
    <2> QED
      BY <2>1, <2>2, <2>3, <2>4, <2>5 DEF Control
  <1>3. \A c \in Callers : Well(c)
    BY DEF Init, Well
  <1> QED
    BY <1>1, <1>2, <1>3 DEF IInv

-----------------------------------------------------------------------------
(* The tables after an INSERT, an UPDATE and a DELETE *)

\* Nobody's labels go back: an id that was issued stays issued.
StaysIssued == \A e \in Callers : at[e] \in {"refresh", "done"} => at'[e] \in {"refresh", "done"}

\* The rows of one request, each of a kind of its own, accepted by the constraints,
\* a breaker exactly under each pipeline.
Insertable(c, new) ==
    /\ \A r \in new : IsRow(r) /\ r.id = c /\ Accepted(r, db \cup new)
    /\ \A r, s \in new : r.kind = s.kind => r = s
    /\ \A p \in new : p.kind = "pipeline" => \E b \in new : b.kind = "breaker" /\ b.of = c
    /\ \A b \in new : b.kind = "breaker" => b.of = c

\* What a request inserts leaves the tables sound: its id is new, the constraints hold.
LEMMA InsertTables ==
    ASSUME Tables, NEW c \in Callers, NEW new, Insertable(c, new), db' = db \cup new,
           at[c] = "insert", at'[c] = "refresh", StaysIssued
    PROVE  Tables'
  <1>1. \A r \in db : r.id # c
    BY DEF Tables, Issued
  <1>2. \A r \in db' : IsRow(r) /\ Issued(r.id)'
    BY DEF Tables, Issued, StaysIssued, Insertable
  <1>3. UniqueIds'
    BY <1>1 DEF Tables, UniqueIds, Same, Insertable
  <1>4. UniqueSlots'
    <2> SUFFICES ASSUME NEW r \in db', NEW s \in db', r.kind \in UniqueColumns,
                        r.kind = s.kind, r.of = s.of, r.slot = s.slot
                 PROVE  r = s
      BY DEF UniqueSlots, UniqueColumns
    <2>1. CASE r \in db /\ s \in db
      BY <2>1 DEF Tables, UniqueSlots, UniqueColumns
    <2>2. CASE r \in new /\ s \in new
      BY <2>2 DEF Insertable
    <2>3. CASE r \in new /\ s \in db
      BY <2>3, <1>1 DEF Insertable, Accepted
    <2>4. CASE r \in db /\ s \in new
      BY <2>4, <1>1 DEF Insertable, Accepted
    <2> QED
      BY <2>1, <2>2, <2>3, <2>4
  <1>5. NothingOutlivesOwner'
    <2> SUFFICES ASSUME NEW r \in db', r.kind # "tenant"
                 PROVE  \E p \in db' : p.kind = Parent[r.kind] /\ p.id = r.of
      BY DEF NothingOutlivesOwner, Of
    <2>1. CASE r \in db
      BY <2>1 DEF Tables, NothingOutlivesOwner, Of
    <2>2. CASE r \in new
      BY <2>2 DEF Insertable, Accepted
    <2> QED
      BY <2>1, <2>2
  <1>6. HasBreaker'
    <2> SUFFICES ASSUME NEW p \in db', p.kind = "pipeline"
                 PROVE  \E b \in db' : \A r \in db' : r.kind = "breaker" /\ r.of = p.id <=> r = b
      BY DEF HasBreaker, In
    <2>1. CASE p \in db
      <3>1. PICK b \in db : \A r \in db : r.kind = "breaker" /\ r.of = p.id <=> r = b
        BY <2>1 DEF Tables, HasBreaker, In
      <3>2. \A r \in new : r.kind = "breaker" => r.of # p.id
        BY <2>1, <1>1 DEF Insertable
      <3>3. b \notin new \/ (b.kind = "breaker" /\ b.of = p.id)
        BY <3>1
      <3> QED
        BY <3>1, <3>2, <3>3
    <2>2. CASE p \in new
      <3>1. PICK b \in new : b.kind = "breaker" /\ b.of = c
        BY <2>2 DEF Insertable
      <3>2. p.id = c
        BY <2>2 DEF Insertable
      <3>3. \A r \in db : r.kind = "breaker" => r.of # c
        BY <1>1 DEF Tables, NothingOutlivesOwner, Of, Parent
      <3>4. \A r \in new : r.kind = "breaker" => r = b
        BY <3>1 DEF Insertable
      <3> QED
        BY <3>1, <3>2, <3>3, <3>4
    <2> QED
      BY <2>1, <2>2
  <1> QED
    BY <1>2, <1>3, <1>4, <1>5, <1>6 DEF Tables, IsRow

\* t is s with another value in a column that is not part of its identity.
Rewrites(s, t) ==
    /\ s \in db /\ IsRow(t) /\ Same(s, t) /\ t.of = s.of /\ s.kind # "breaker"
    /\ s.kind \in UniqueColumns =>
           \A u \in db : u.kind = s.kind /\ u.of = s.of /\ u.slot = t.slot => u = s

\* So does an update that leaves the identity of its row and the breakers alone.
LEMMA UpdateTables ==
    ASSUME Tables, NEW s, NEW t, Rewrites(s, t), db' = (db \ {s}) \cup {t}, StaysIssued
    PROVE  Tables'
  <1> USE DEF Rewrites, Same
  <1>1. \A r \in db' : IsRow(r) /\ Issued(r.id)'
    BY DEF Tables, Issued, StaysIssued
  <1>2. \A r \in db' : r = t \/ (r \in db /\ r # s)
    OBVIOUS
  <1>3. UniqueIds'
    BY <1>2 DEF Tables, UniqueIds
  <1>4. UniqueSlots'
    BY <1>2 DEF Tables, UniqueSlots, UniqueColumns
  \* Each row is there before and after, with the same identity and place.
  <1>5. \A r \in db : \E q \in db' : q.kind = r.kind /\ q.id = r.id /\ q.of = r.of
    OBVIOUS
  <1>6. NothingOutlivesOwner'
    <2> SUFFICES ASSUME NEW r \in db', r.kind # "tenant"
                 PROVE  \E p \in db' : p.kind = Parent[r.kind] /\ p.id = r.of
      BY DEF NothingOutlivesOwner, Of
    <2>1. PICK q \in db : q.kind = r.kind /\ q.of = r.of
      BY <1>2
    <2>2. \E p \in db : p.kind = Parent[q.kind] /\ p.id = q.of
      BY <2>1 DEF Tables, NothingOutlivesOwner, Of
    <2> QED
      BY <2>1, <2>2, <1>5
  <1>7. HasBreaker'
    <2> SUFFICES ASSUME NEW p \in db', p.kind = "pipeline"
                 PROVE  \E b \in db' : \A r \in db' : r.kind = "breaker" /\ r.of = p.id <=> r = b
      BY DEF HasBreaker, In
    <2>1. PICK q \in db : q.kind = "pipeline" /\ q.id = p.id
      BY <1>2
    <2>2. PICK b \in db : \A r \in db : r.kind = "breaker" /\ r.of = q.id <=> r = b
      BY <2>1 DEF Tables, HasBreaker, In
    <2>3. b \in db' /\ b.kind = "breaker" /\ b.of = p.id
      BY <2>1, <2>2
    <2> QED
      BY <1>2, <2>1, <2>2, <2>3
  <1> QED
    BY <1>1, <1>3, <1>4, <1>6, <1>7 DEF Tables, IsRow

\* A row stays exactly if neither it nor what it belongs to is deleted.
LEMMA BelowCloses ==
    ASSUME Tables, NEW rows \in SUBSET db
    PROVE  /\ Below(rows) \subseteq db /\ rows \subseteq Below(rows)
           /\ \A r \in db, p \in Below(rows) :
                  r.kind # "tenant" /\ Parent[r.kind] = p.kind /\ r.of = p.id => r \in Below(rows)
           /\ \A r \in Below(rows) :
                  r \in rows \/ \E p \in Below(rows) : r.kind # "tenant" /\ Parent[r.kind] = p.kind /\ r.of = p.id
  <1> DEFINE Children(ps) == {r \in db : \E p \in ps : r.kind # "tenant" /\ Parent[r.kind] = p.kind /\ r.of = p.id}
             one == Children(rows)
             two == Children(one)
  <1>1. Below(rows) = (rows \cup one) \cup two
    BY DEF Below
  \* There are three levels: tenants, their keys and pipelines, and the rest.
  <1>2. ASSUME NEW r \in db, NEW p \in two, r.kind # "tenant", Parent[r.kind] = p.kind PROVE FALSE
    <2>1. r.kind \in Kinds /\ p.kind \in Kinds
      BY DEF Tables, IsRow
    <2>2. PICK q \in one : p.kind # "tenant" /\ Parent[p.kind] = q.kind
      OBVIOUS
    <2>3. q.kind # "tenant"
      OBVIOUS
    <2> HIDE DEF one, two
    <2> QED
      BY <1>2, <2>1, <2>2, <2>3 DEF Parent, Kinds
  <1>3. ASSUME NEW r \in db, NEW p \in Below(rows), r.kind # "tenant", Parent[r.kind] = p.kind, r.of = p.id
        PROVE  r \in Below(rows)
    <2>1. CASE p \in rows
      BY <1>1, <1>3, <2>1
    <2>2. CASE p \in one
      BY <1>1, <1>3, <2>2
    <2>3. CASE p \in two
      BY <1>2, <1>3, <2>3
    <2> QED
      BY <1>1, <2>1, <2>2, <2>3
  <1> QED
    BY <1>1, <1>3

\* So does a deletion with its cascade: no owner goes without its rows, no breaker
\* without its pipeline.
LEMMA DeleteTables ==
    ASSUME Tables, NEW rows \in SUBSET db, db' = db \ Below(rows), StaysIssued,
           \A r \in rows : r.kind # "breaker"
    PROVE  Tables'
  <1>1. \A r \in db' : IsRow(r) /\ Issued(r.id)'
    BY DEF Tables, Issued, StaysIssued
  <1>2. UniqueIds' /\ UniqueSlots'
    BY DEF Tables, UniqueIds, UniqueSlots
  <1>3. NothingOutlivesOwner'
    <2> SUFFICES ASSUME NEW r \in db', r.kind # "tenant"
                 PROVE  \E p \in db' : p.kind = Parent[r.kind] /\ p.id = r.of
      BY DEF NothingOutlivesOwner, Of
    <2>1. PICK p \in db : p.kind = Parent[r.kind] /\ p.id = r.of
      BY DEF Tables, NothingOutlivesOwner, Of
    <2>2. p \notin Below(rows)
      BY <2>1, BelowCloses
    <2> QED
      BY <2>1, <2>2
  <1>4. HasBreaker'
    <2> SUFFICES ASSUME NEW p \in db', p.kind = "pipeline"
                 PROVE  \E b \in db' : \A r \in db' : r.kind = "breaker" /\ r.of = p.id <=> r = b
      BY DEF HasBreaker, In
    <2>1. PICK b \in db : \A r \in db : r.kind = "breaker" /\ r.of = p.id <=> r = b
      BY DEF Tables, HasBreaker, In
    <2>2. b.kind = "breaker" /\ b.of = p.id
      BY <2>1
    \* It would go only with its pipeline, which stays.
    <2>3. b \notin Below(rows)
      <3>1. SUFFICES ASSUME b \in Below(rows) PROVE FALSE
        OBVIOUS
      <3>2. PICK q \in Below(rows) : Parent[b.kind] = q.kind /\ b.of = q.id
        BY <2>2, <3>1, BelowCloses
      <3>3. q \in db /\ q.kind = "pipeline" /\ q.id = p.id
        BY <2>2, <3>2, BelowCloses DEF Parent
      <3> QED
        BY <3>2, <3>3 DEF Tables, UniqueIds, Same
    <2> QED
      BY <2>1, <2>3
  <1> QED
    BY <1>1, <1>2, <1>3, <1>4 DEF Tables, IsRow

-----------------------------------------------------------------------------
(* What the other requests notice of a step *)

\* A step keeps the identity and the owner of each row, revives no key, inserts only
\* under the id of a request at its INSERT, takes a key only with its tenant, and
\* marks every request that holds what it removes.
Tame ==
    /\ \A s \in db' : \/ \E r \in db : /\ Same(r, s) /\ r.of = s.of
                                       /\ s.kind = "key" /\ s.active = "on" => r.active = "on"
                      \/ s.id \in Callers /\ at[s.id] = "insert"
    /\ \A k \in db : k.kind = "key" /\ (\E t \in db' : t.kind = "tenant" /\ t.id = k.of) =>
           \E s \in db' : Same(k, s)
    /\ bereft \subseteq bereft'
    /\ \A e \in Callers \ bereft' : \A r \in saw[e] :
           (\E q \in db : Same(r, q)) => \E s \in db' : Same(r, s)
    /\ StaysIssued
    /\ \A e \in Callers : at[e] = "done" => at'[e] = "done"
    /\ faults' = 0 => faults = 0

\* What a request knows of a row, of its pipeline and of its key stays true.
LEMMA StaysKnown ==
    ASSUME Tame
    PROVE  /\ \A c \in Callers : \A r \in saw[c] : Knows(c, r) => Knows(c, r)'
           /\ \A c \in Callers : OwnsPipeline(c) /\ req'[c] = req[c] => OwnsPipeline(c)'
           /\ \A c \in Callers : KeyOfItsTenant(c) /\ req'[c] = req[c] => KeyOfItsTenant(c)'
  <1>1. ASSUME NEW id, Issued(id)
        PROVE  Issued(id)' /\ \A s \in db' : s.id = id =>
                   \E r \in db : Same(r, s) /\ r.of = s.of
    BY <1>1 DEF Issued, Tame, StaysIssued
  <1>2. ASSUME NEW c \in Callers, NEW r \in saw[c], Knows(c, r) PROVE Knows(c, r)'
    <2>1. Issued(r.id)' /\ \A s \in db' : Same(r, s) => s.of = r.of
      BY <1>1, <1>2 DEF Knows, Same
    <2>2. c \notin bereft' => \E s \in db' : Same(r, s)
      BY <1>2 DEF Knows, Tame
    <2> QED
      BY <2>1, <2>2 DEF Knows
  <1>3. ASSUME NEW c \in Callers, OwnsPipeline(c), req'[c] = req[c] PROVE OwnsPipeline(c)'
    BY <1>1, <1>3 DEF OwnsPipeline, Same
  <1>4. ASSUME NEW c \in Callers, KeyOfItsTenant(c), req'[c] = req[c] PROVE KeyOfItsTenant(c)'
    <2>1. Issued(req[c].key)' /\ Issued(req[c].tenant)'
      BY <1>1, <1>4 DEF KeyOfItsTenant
    <2>2. \A k \in db' : k.kind = "key" /\ k.id = req[c].key => k.of = req[c].tenant
      BY <1>1, <1>4 DEF KeyOfItsTenant, Same
    <2>3. ASSUME NEW t \in db', t.kind = "tenant", t.id = req[c].tenant
          PROVE  \E k \in db' : k.kind = "key" /\ k.id = req[c].key
      <3>1. PICK u \in db : u.kind = "tenant" /\ u.id = req[c].tenant
        BY <1>1, <1>4, <2>3 DEF KeyOfItsTenant, Same
      <3>2. PICK k \in db : k.kind = "key" /\ k.id = req[c].key /\ k.of = req[c].tenant
        BY <1>4, <3>1 DEF KeyOfItsTenant
      <3>3. \E s \in db' : Same(k, s)
        BY <2>3, <3>2 DEF Tame
      <3> QED
        BY <3>2, <3>3 DEF Same
    <2> QED
      BY <1>4, <2>1, <2>2, <2>3 DEF KeyOfItsTenant, Issued
  <1> QED
    BY <1>2, <1>3, <1>4

\* A dead key stays dead, once the request that may have made it is answered.
LEMMA StaysDead ==
    ASSUME Tame, NEW key, ~LiveKey(key), key \in Callers => at[key] = "done"
    PROVE  ~LiveKey(key)' /\ (key \in Callers => at'[key] = "done")
  <1>1. ASSUME NEW s \in db', s.kind = "key", s.id = key, s.active = "on" PROVE FALSE
    <2>1. ~(s.id \in Callers /\ at[s.id] = "insert")
      BY <1>1
    <2>2. PICK r \in db : Same(r, s) /\ r.active = "on"
      BY <1>1, <2>1 DEF Tame
    <2> QED
      BY <1>1, <2>2 DEF LiveKey, Of, Same
  <1> QED
    BY <1>1 DEF LiveKey, Of, Tame

\* A request that does not move stays well.
LEMMA OthersStayWell ==
    ASSUME Tame, NEW c \in Callers, Well(c),
           at'[c] = at[c], req'[c] = req[c], saw'[c] = saw[c], answer'[c] = answer[c],
           c \in wrote' => c \in wrote, c \in barred' => c \in barred
    PROVE  Well(c)'
  <1>1. /\ \A r \in saw[c] : Knows(c, r) => Knows(c, r)'
        /\ OwnsPipeline(c) => OwnsPipeline(c)'
        /\ KeyOfItsTenant(c) => KeyOfItsTenant(c)'
    BY StaysKnown
  <1>2. Barred(c) => Barred(c)'
    <2>1. SUFFICES ASSUME Barred(c), at[c] = "verify"
                   PROVE  ~LiveKey(req[c].key)' /\ (req[c].key \in Callers => at'[req[c].key] = "done")
      BY DEF Barred
    <2> QED
      BY <2>1, StaysDead DEF Barred
  <1>3. faults' = 0 /\ c \notin bereft' => faults = 0 /\ c \notin bereft
    BY DEF Tame
  <1> QED
    BY <1>1, <1>2, <1>3 DEF Well, MayUpdate

-----------------------------------------------------------------------------
(* The seven forms of a step of a handler *)

\* A SELECT that found what it should goes on, with nothing to remember.
Advances(c) ==
    /\ Keep /\ UNCHANGED faults /\ at[c] \in {"load", "check"}
    /\ \E label \in {"check", "insert", "list", "delete"} : Goto(c, label, {})
    /\ req[c].op \in PipelineOps => OwnsPipeline(c)

\* A SELECT of the rows to change.
Holds(c) ==
    /\ Keep /\ UNCHANGED faults /\ at[c] = "load"
    /\ \E rows \in SUBSET db :
          \/ /\ Goto(c, "update", rows) /\ req[c].op \in UpdateOps /\ req[c].column # "none"
             /\ \A r \in rows : MayUpdate(c, r)
          \/ /\ Goto(c, "revoke", rows) /\ req[c].op = "revoke_api_key"
             /\ \A r \in rows : r.kind = "key" /\ r.of = req[c].tenant
    /\ req[c].op \in PipelineOps => OwnsPipeline(c)

\* The answer, after a step that wrote nothing.
Replies(c) ==
    /\ Keep /\ UNCHANGED faults /\ at[c] \notin {"idle", "verify", "done"}
    /\ \E code \in Codes : \E rows :
          /\ Done(c, code, rows)
          /\ at[c] = "refresh" => code \notin 400..499
          /\ code = 500 => c \in bereft
          /\ req[c].op \notin TenantOps => rows \subseteq Estate(req[c].tenant)

\* An UPDATE that is not sent, as nothing changed.
Skips(c) == at[c] = "update" /\ Keep /\ UNCHANGED faults /\ Goto(c, "refresh", saw[c])

\* The rows a request creates.
New(c) ==
    CASE req[c].op = "create_tenant" -> {Row("tenant", c, c, "-"), Row("key", c, c, "primary")}
      [] req[c].op = "create_api_key" -> {Row("key", c, req[c].tenant, req[c].value)}
      [] req[c].op = "create_pipeline" -> {Row("pipeline", c, req[c].tenant, "-"), Row("breaker", c, c, "-")}
      [] req[c].op = "create_pipeline_step" -> {Row("step", c, req[c].pipeline, req[c].value)}
      [] req[c].op = "create_schedule" -> {Row("schedule", c, req[c].pipeline, "-")}

Creations == {"create_tenant", "create_api_key", "create_pipeline", "create_pipeline_step", "create_schedule"}

Adds(c) ==
    /\ at[c] = "insert" /\ UNCHANGED faults /\ req[c].op \in Creations
    /\ Insertable(c, New(c)) /\ Commit(c, db \cup New(c))
    /\ \E r \in New(c) : Goto(c, "refresh", {r})
    /\ req[c].op \in PipelineOps => OwnsPipeline(c)

\* Whose row it is.
MayChange(c, r) ==
    \/ req[c].op \in TenantOps
    \/ r.kind \in {"key", "pipeline"} /\ r.of = req[c].tenant
    \/ r.kind \in {"step", "schedule"} /\ r.of = req[c].pipeline /\ OwnsPipeline(c)

Changes(c) ==
    /\ at[c] \in {"update", "revoke"}
    /\ \E s \in db : \E t :
          /\ Rewrites(s, t) /\ Commit(c, (db \ {s}) \cup {t})
          /\ s.kind = "key" => t.active = "off"
          /\ MayChange(c, s)
    /\ \/ at[c] = "update" /\ Goto(c, "refresh", saw[c]) /\ UNCHANGED faults
       \/ at[c] = "revoke" /\ Committed(c, 200)

Drops(c) ==
    /\ at[c] = "delete" /\ Committed(c, 204)
    /\ \E rows \in SUBSET db :
          /\ Commit(c, db \ Below(rows))
          /\ \A r \in rows : r.kind \in {"tenant", "pipeline", "step", "schedule"} /\ MayChange(c, r)

Forms(c) == Advances(c) \/ Holds(c) \/ Replies(c) \/ Skips(c) \/ Adds(c) \/ Changes(c) \/ Drops(c)

-----------------------------------------------------------------------------
(* The statements that the handlers share take these forms *)

\* A pipeline selected by its id and its tenant is the tenant's.
LEMMA PipelineOwned ==
    ASSUME Tables, NEW c \in Callers, Pipeline(c) # {}
    PROVE  OwnsPipeline(c)
  BY DEF Tables, UniqueIds, Same, Pipeline, Of, In, OwnsPipeline

\* What the SELECTs of a tenant's request find is the tenant's.
LEMMA FoundIsOwn ==
    ASSUME Tables, NEW c \in Callers
    PROVE  /\ Pipeline(c) \subseteq Estate(req[c].tenant) /\ ApiKey(c) \subseteq Estate(req[c].tenant)
           /\ In("key", req[c].tenant) \subseteq Estate(req[c].tenant)
           /\ In("pipeline", req[c].tenant) \subseteq Estate(req[c].tenant)
           /\ Step(c) \subseteq Estate(req[c].tenant) /\ Schedule(c) \subseteq Estate(req[c].tenant)
           /\ OwnsPipeline(c) => In("step", req[c].pipeline) \subseteq Estate(req[c].tenant)
  <1>1. In("key", req[c].tenant) \subseteq Estate(req[c].tenant)
        /\ In("pipeline", req[c].tenant) \subseteq Estate(req[c].tenant)
    BY DEF Estate
  <1>2. Pipeline(c) \subseteq Estate(req[c].tenant) /\ ApiKey(c) \subseteq Estate(req[c].tenant)
    BY <1>1 DEF Pipeline, ApiKey
  <1>3. ASSUME NEW p \in db, p.kind = "pipeline", p.of = req[c].tenant, p.id = req[c].pipeline
        PROVE  \A kind \in {"step", "schedule"} : In(kind, req[c].pipeline) \subseteq Estate(req[c].tenant)
    BY <1>3 DEF Estate, In
  <1>4. Pipeline(c) # {} => \A kind \in {"step", "schedule"} :
                                In(kind, req[c].pipeline) \subseteq Estate(req[c].tenant)
    BY <1>3 DEF Pipeline, Of, In
  <1>5. Step(c) \subseteq Estate(req[c].tenant) /\ Schedule(c) \subseteq Estate(req[c].tenant)
    BY <1>4 DEF Step, Schedule
  <1>6. ASSUME OwnsPipeline(c), NEW r \in In("step", req[c].pipeline) PROVE r \in Estate(req[c].tenant)
    <2>1. r \in db /\ r.kind = "step" /\ r.of = req[c].pipeline
      BY <1>6 DEF In
    <2>2. PICK p \in db : p.kind = "pipeline" /\ p.id = req[c].pipeline
      BY <2>1 DEF Tables, NothingOutlivesOwner, Of, Parent
    <2>3. p.of = req[c].tenant
      BY <1>6, <2>2 DEF OwnsPipeline
    <2> QED
      BY <1>3, <1>6, <2>2, <2>3
  <1> QED
    BY <1>1, <1>2, <1>5, <1>6

\* A missing owner is a 404.
LEMMA LoadOwnerForm ==
    ASSUME NEW c \in Callers, NEW owner, NEW codes, NEW next \in {"check", "insert", "list", "delete"},
           LoadOwner(c, owner, codes, next), codes.none = 404,
           owner # {} /\ req[c].op \in PipelineOps => OwnsPipeline(c)
    PROVE  Forms(c)
  BY DEF LoadOwner, Forms, Replies, Advances, Codes

\* A GET answers with what it found, which is the tenant's own.
LEMMA GetForm ==
    ASSUME NEW c \in Callers, NEW found, NEW codes,
           Get(c, found, codes), codes.none = 404, codes.ok = 200,
           req[c].op \notin TenantOps => found \subseteq Estate(req[c].tenant)
    PROVE  Forms(c)
  BY DEF Get, Forms, Replies, Codes

\* So does a list.
LEMMA ListForm ==
    ASSUME NEW c \in Callers, NEW found, NEW codes,
           List(c, found, codes), codes.ok = 200,
           req[c].op \notin TenantOps => found \subseteq Estate(req[c].tenant)
    PROVE  Forms(c)
  BY DEF List, Forms, Replies, Codes

\* A refresh fails only on a row that somebody deleted.
LEMMA RefreshForm ==
    ASSUME NEW c \in Callers, NEW codes, Well(c), Control,
           Refresh(c, codes), codes.error = 500, codes.ok \in {200, 201}
    PROVE  Forms(c)
  <1>1. PICK r \in saw[c] : Done(c, IF Of(r.kind, r.id) = {} THEN codes.error ELSE codes.ok, {})
    BY DEF Refresh
  <1>2. Of(r.kind, r.id) = {} => c \in bereft
    BY DEF Refresh, Well, Knows, Same, Of
  <1> QED
    BY <1>1, <1>2 DEF Refresh, Forms, Replies, Codes

\* A duplicate is a 409.
LEMMA CheckForm ==
    ASSUME NEW c \in Callers, NEW found, NEW codes, Well(c),
           CheckFree(c, found, codes), codes.duplicate = 409
    PROVE  Forms(c)
  BY DEF CheckFree, Forms, Replies, Advances, Codes, Well

\* The row to update is held by the session, or the request refused.
LEMMA LoadForUpdateForm ==
    ASSUME NEW c \in Callers, NEW found \in SUBSET db, NEW codes,
           LoadForUpdate(c, found, codes), codes.none = 404, codes.value = 400,
           req[c].op \in UpdateOps, \A r \in found : MayUpdate(c, r),
           found # {} /\ req[c].op \in PipelineOps => OwnsPipeline(c)
    PROVE  Forms(c)
  BY DEF LoadForUpdate, Forms, Replies, Holds, Codes

\* A row is found by its kind and id at most once.
LEMMA OneRow ==
    ASSUME Tables, NEW kind, NEW id, Of(kind, id) # {}
    PROVE  \E s \in db : Of(kind, id) = {s} /\ s.kind = kind /\ s.id = id
  BY DEF Tables, UniqueIds, Same, Of

\* The row with another value in the column of the request.
Written(c, s) == [s EXCEPT ![req[c].column] = req[c].value]

\* A new value in the unique column or the flag leaves the rest of a row as it is.
LEMMA ColumnChange ==
    ASSUME NEW c \in Callers, NEW s, IsRow(s), req[c].column \in {"slot", "active"},
           req[c].column = "active" => req[c].value \in {"on", "off", "null"},
           Written(c, s).slot # "null", Written(c, s).active # "null"
    PROVE  IsRow(Written(c, s)) /\ Same(s, Written(c, s)) /\ Written(c, s).of = s.of
  <1> DEFINE row(slot, active) == [kind |-> s.kind, id |-> s.id, of |-> s.of, slot |-> slot, active |-> active]
  <1>1. s = row(s.slot, s.active)
    BY DEF IsRow
  <1>2. CASE req[c].column = "slot"
    <2>1. Written(c, s) = row(req[c].value, s.active)
      <3>1. Written(c, s) = [s EXCEPT !.slot = req[c].value]
        BY <1>2 DEF Written
      <3>2. @ = [row(s.slot, s.active) EXCEPT !.slot = req[c].value]
        BY <1>1
      <3>3. @ = row(req[c].value, s.active)
        OBVIOUS
      <3> QED
        BY <3>1, <3>2, <3>3
    <2> QED
      BY <2>1 DEF IsRow, Same
  <1>3. CASE req[c].column = "active"
    <2>1. Written(c, s) = row(s.slot, req[c].value)
      <3>1. Written(c, s) = [s EXCEPT !.active = req[c].value]
        BY <1>3 DEF Written
      <3>2. @ = [row(s.slot, s.active) EXCEPT !.active = req[c].value]
        BY <1>1
      <3>3. @ = row(s.slot, req[c].value)
        OBVIOUS
      <3> QED
        BY <3>1, <3>2, <3>3
    <2> QED
      BY <1>3, <2>1 DEF IsRow, Same
  <1> QED
    BY <1>2, <1>3

\* How an UPDATE of the row r ends.
UpdateEnd(c, r, codes) ==
    \/ Keep /\ Goto(c, "refresh", saw[c])
    \/ Of(r.kind, r.id) = {} /\ Keep /\ Done(c, codes.error, {})
    \/ Keep /\ Done(c, codes.integrity, {})
    \/ /\ Of(r.kind, r.id) # {}
       /\ \A s \in Of(r.kind, r.id) : Accepted(Written(c, s), db \ Of(r.kind, r.id))
       /\ Commit(c, (db \ Of(r.kind, r.id)) \cup {Written(c, s) : s \in Of(r.kind, r.id)})
       /\ Goto(c, "refresh", saw[c])

\* An UPDATE ends in one of these ways.
LEMMA UpdateEnds ==
    ASSUME NEW c \in Callers, NEW codes, Update(c, codes)
    PROVE  \E r \in saw[c] : UpdateEnd(c, r, codes)
  <1>1. PICK r \in saw[c] :
           LET now == Of(r.kind, r.id)
               new == {Written(c, s) : s \in now}
           IN  IF r[req[c].column] = req[c].value THEN Keep /\ Goto(c, "refresh", saw[c])
               ELSE IF now = {} THEN Keep /\ Done(c, codes.error, {})
               ELSE IF \A s \in new : Accepted(s, db \ now)
               THEN Commit(c, (db \ now) \cup new) /\ Goto(c, "refresh", saw[c])
               ELSE Keep /\ Done(c, codes.integrity, {})
    BY Zenon DEF Update, Written
  <1> QED
    BY <1>1 DEF UpdateEnd

\* An UPDATE rewrites one column of the row, writes nothing, or is refused.
LEMMA UpdateForm ==
    ASSUME NEW c \in Callers, NEW codes, Tables, Control, Well(c),
           Update(c, codes), codes.error = 500, codes.integrity = 409
    PROVE  Forms(c)
  <1>at. at[c] = "update" /\ UNCHANGED faults
    BY DEF Update
  <1>req. /\ req[c] \in Requests(c) /\ req[c].op \in UpdateOps /\ req[c].column \in {"slot", "active"}
          /\ req[c].op \in TenantOps => req[c].key = Admin
          /\ req[c].op \in PipelineOps => OwnsPipeline(c)
    BY <1>at DEF Well
  <1>1. PICK r \in saw[c] : UpdateEnd(c, r, codes)
    BY UpdateEnds
  <1>2. Knows(c, r) /\ MayUpdate(c, r)
    BY <1>at DEF Well
  <1>3. CASE Keep /\ Goto(c, "refresh", saw[c])
    BY <1>3, <1>at DEF Forms, Skips
  <1>4. CASE Of(r.kind, r.id) = {} /\ Keep /\ Done(c, codes.error, {})
    <2>1. c \in bereft
      BY <1>2, <1>4 DEF Knows, Same, Of
    <2> QED
      BY <2>1, <1>4, <1>at DEF Forms, Replies, Codes
  <1>5. CASE Keep /\ Done(c, codes.integrity, {})
    BY <1>5, <1>at DEF Forms, Replies, Codes
  <1>6. CASE /\ Of(r.kind, r.id) # {}
             /\ \A s \in Of(r.kind, r.id) : Accepted(Written(c, s), db \ Of(r.kind, r.id))
             /\ Commit(c, (db \ Of(r.kind, r.id)) \cup {Written(c, s) : s \in Of(r.kind, r.id)})
             /\ Goto(c, "refresh", saw[c])
    <2>1. PICK s \in db : Of(r.kind, r.id) = {s} /\ s.kind = r.kind /\ s.id = r.id
      BY <1>6, OneRow
    <2>2. s.of = r.of
      BY <1>2, <2>1 DEF Knows, Same
    <2>3. {Written(c, q) : q \in Of(r.kind, r.id)} = {Written(c, s)}
      BY <2>1
    <2>4. Accepted(Written(c, s), db \ {s})
      BY <1>6, <2>1
    <2>5. req[c].column = "active" => req[c].value \in {"on", "off", "null"}
      BY <1>req, RequestsAssumption
    <2>6. IsRow(Written(c, s)) /\ Same(s, Written(c, s)) /\ Written(c, s).of = s.of
      <3>1. IsRow(s) /\ Written(c, s).slot # "null" /\ Written(c, s).active # "null"
        BY <2>4 DEF Tables, Accepted
      <3> QED
        BY <3>1, <2>5, <1>req, ColumnChange
    <2>7. s.kind \in {"tenant", "pipeline", "step", "schedule"} /\ MayChange(c, s)
      BY <1>2, <1>req, <2>1, <2>2 DEF MayUpdate, MayChange, TenantOps
    <2>8. Rewrites(s, Written(c, s))
      <3>1. ASSUME s.kind \in UniqueColumns, NEW u \in db, u.kind = s.kind, u.of = s.of,
                   u.slot = Written(c, s).slot
            PROVE  u = s
        BY <3>1, <2>4, <2>6 DEF Accepted, Tables, UniqueIds, Same
      <3> QED
        BY <3>1, <2>6, <2>7 DEF Rewrites
    <2>9. Commit(c, (db \ {s}) \cup {Written(c, s)})
      BY <1>6, <2>1, <2>3
    <2>10. Changes(c)
      <3>1. s.kind # "key"
        BY <2>7
      <3> QED
        BY <1>6, <1>at, <2>7, <2>8, <2>9, <3>1 DEF Changes
    <2> QED
      BY <2>10 DEF Forms
  <1> QED
    BY <1>1, <1>3, <1>4, <1>5, <1>6 DEF UpdateEnd

\* A DELETE takes the row and all below it, and what is not found is a 404.
LEMMA DeleteForm ==
    ASSUME NEW c \in Callers, NEW found \in SUBSET db, NEW codes,
           Delete(c, found, codes), codes.ok = 204, codes.none = 404,
           \A r \in found : r.kind \in {"tenant", "pipeline", "step", "schedule"} /\ MayChange(c, r)
    PROVE  Forms(c)
  <1>1. CASE found = {}
    BY <1>1 DEF Delete, Forms, Replies, Codes
  <1>2. CASE found # {}
    <2>1. Commit(c, db \ Below(found)) /\ Committed(c, 204) /\ at[c] = "delete"
      BY <1>2 DEF Delete
    <2>2. Drops(c)
      BY <2>1, Zenon DEF Drops
    <2> QED
      BY <2>2 DEF Forms
  <1> QED
    BY <1>1, <1>2

\* An INSERT adds the new rows if the constraints accept them all.
LEMMA InsertForm ==
    ASSUME NEW c \in Callers, NEW new, NEW codes, Well(c),
           Insert(c, new, codes), codes.integrity = 409, req[c].op \in Creations,
           {new[i] : i \in DOMAIN new} = New(c), 1 \in DOMAIN new,
           \A r \in New(c) : IsRow(r) \/ r.slot = "null",
           \A r \in New(c) : r.id = c /\ (r.kind = "breaker" => r.of = c),
           \A r, s \in New(c) : r.kind = s.kind => r = s,
           \A p \in New(c) : p.kind = "pipeline" => \E b \in New(c) : b.kind = "breaker" /\ b.of = c
    PROVE  Forms(c)
  <1>1. at[c] = "insert" /\ UNCHANGED faults
    BY DEF Insert
  <1>2. CASE \A i \in DOMAIN new : Accepted(new[i], db \cup New(c))
    <2>1. Commit(c, db \cup New(c)) /\ Goto(c, "refresh", {new[1]})
      BY <1>2 DEF Insert
    <2>2. \A r \in New(c) : Accepted(r, db \cup New(c))
      BY <1>2, SMTT(30)
    <2>3. Insertable(c, New(c))
      BY <2>2 DEF Insertable, Accepted
    <2>4. new[1] \in New(c)
      OBVIOUS
    <2>5. req[c].op \in PipelineOps => OwnsPipeline(c)
      BY <1>1 DEF Well
    <2> QED
      BY <1>1, <2>1, <2>3, <2>4, <2>5 DEF Forms, Adds
  <1>3. CASE ~ \A i \in DOMAIN new : Accepted(new[i], db \cup New(c))
    <2>1. Keep /\ Done(c, codes.integrity, {})
      BY <1>3 DEF Insert
    <2> QED
      BY <1>1, <2>1 DEF Forms, Replies, Codes
  <1> QED
    BY <1>2, <1>3


-----------------------------------------------------------------------------
(* Each operation takes these forms *)

\* A statement that goes straight on.
LEMMA GoesOnForm ==
    ASSUME NEW c \in Callers, NEW next \in {"check", "insert", "list", "delete"},
           at[c] = "load", Keep, Goto(c, next, {}), UNCHANGED faults, req[c].op \notin PipelineOps
    PROVE  Forms(c)
  BY DEF Forms, Advances

\* The rows of a list of one, and of two.
LEMMA Listed ==
    ASSUME NEW a, NEW b
    PROVE  /\ {<<a>>[i] : i \in DOMAIN <<a>>} = {a} /\ 1 \in DOMAIN <<a>>
           /\ {<<a, b>>[i] : i \in DOMAIN <<a, b>>} = {a, b} /\ 1 \in DOMAIN <<a, b>>
  OBVIOUS

\* What every operation may assume.
Serving(c) == /\ Tables /\ Control /\ Well(c)
              /\ at[c] \notin {"idle", "verify", "done"}

\* A tenant and its first key.
LEMMA create_tenant_forms ==
    ASSUME NEW c \in Callers, Serving(c), req[c].op = "create_tenant", create_tenant_service(c)
    PROVE  Forms(c)
  <1>op. req[c].op = "create_tenant"
    OBVIOUS
  <1>goes. CASE at[c] = "load" /\ Keep /\ Goto(c, "insert", {}) /\ UNCHANGED faults
    BY <1>goes, <1>op, GoesOnForm DEF PipelineOps
  <1>ins. CASE Insert(c, <<Row("tenant", c, c, "-"), Row("key", c, c, "primary")>>, create_tenant)
    <2> DEFINE new == <<Row("tenant", c, c, "-"), Row("key", c, c, "primary")>>
    <2>1. New(c) = {Row("tenant", c, c, "-"), Row("key", c, c, "primary")}
      BY <1>op DEF New
    <2>2. {new[i] : i \in DOMAIN new} = New(c) /\ 1 \in DOMAIN new
      BY <2>1, Listed
    <2>3. /\ \A r \in New(c) : IsRow(r) \/ r.slot = "null"
          /\ \A r \in New(c) : r.id = c /\ (r.kind = "breaker" => r.of = c)
          /\ \A r, s \in New(c) : r.kind = s.kind => r = s
          /\ \A p \in New(c) : p.kind = "pipeline" => \E b \in New(c) : b.kind = "breaker" /\ b.of = c
      BY <2>1 DEF Row, IsRow, Kinds
    <2>4. req[c].op \in Creations /\ create_tenant.integrity = 409
      BY <1>op DEF Creations, create_tenant
    <2> QED
      BY <1>ins, <2>2, <2>3, <2>4, InsertForm DEF Serving
  <1>ref. CASE Refresh(c, create_tenant)
    BY <1>ref, RefreshForm DEF Serving, create_tenant
  <1> QED
    BY <1>goes, <1>ins, <1>ref DEF create_tenant_service

\* A tenant is read.
LEMMA get_tenant_forms ==
    ASSUME NEW c \in Callers, Serving(c), req[c].op = "get_tenant", get_tenant_service(c)
    PROVE  Forms(c)
  <1>adm. req[c].op \in TenantOps
    BY DEF TenantOps
  <1> QED
    BY <1>adm, GetForm DEF get_tenant_service, get_tenant

\* So are all of them.
LEMMA get_all_tenants_forms ==
    ASSUME NEW c \in Callers, Serving(c), req[c].op = "get_all_tenants", get_all_tenants_service(c)
    PROVE  Forms(c)
  <1>op. req[c].op = "get_all_tenants"
    OBVIOUS
  <1>adm. req[c].op \in TenantOps
    BY <1>op DEF TenantOps
  <1>goes. CASE at[c] = "load" /\ Keep /\ Goto(c, "list", {}) /\ UNCHANGED faults
    BY <1>goes, <1>op, GoesOnForm DEF PipelineOps
  <1>lst. CASE List(c, {r \in db : r.kind = "tenant"}, get_all_tenants)
    BY <1>lst, <1>adm, ListForm DEF get_all_tenants
  <1> QED
    BY <1>goes, <1>lst DEF get_all_tenants_service

\* A tenant is deleted by the admin.
LEMMA delete_tenant_forms ==
    ASSUME NEW c \in Callers, Serving(c), req[c].op = "delete_tenant", delete_tenant_service(c)
    PROVE  Forms(c)
  <1>op. req[c].op = "delete_tenant"
    OBVIOUS
  <1>adm. req[c].op \in TenantOps
    BY <1>op DEF TenantOps
  <1>goes. CASE at[c] = "load" /\ Keep /\ Goto(c, "delete", {}) /\ UNCHANGED faults
    BY <1>goes, <1>op, GoesOnForm DEF PipelineOps
  <1>del. CASE Delete(c, Tenant(c), delete_tenant)
    <2>1. Tenant(c) \in SUBSET db /\ \A r \in Tenant(c) : r.kind = "tenant" /\ MayChange(c, r)
      BY <1>adm DEF Tenant, Of, MayChange
    <2> QED
      BY <1>del, <2>1, DeleteForm DEF delete_tenant
  <1> QED
    BY <1>goes, <1>del DEF delete_tenant_service

\* A tenant is renamed or switched off by the admin.
LEMMA update_tenant_forms ==
    ASSUME NEW c \in Callers, Serving(c), req[c].op = "update_tenant", update_tenant_service(c)
    PROVE  Forms(c)
  <1>op. req[c].op = "update_tenant"
    OBVIOUS
  <1>load. CASE LoadForUpdate(c, Tenant(c), update_tenant)
    <2>1. Tenant(c) \in SUBSET db /\ \A r \in Tenant(c) : MayUpdate(c, r)
      BY <1>op DEF Tenant, Of, MayUpdate
    <2>2. req[c].op \in UpdateOps
      BY <1>op DEF UpdateOps
    <2>3. req[c].op \notin PipelineOps
      BY <1>op DEF PipelineOps
    <2> QED
      BY <1>load, <2>1, <2>2, <2>3, LoadForUpdateForm DEF update_tenant
  <1>upd. CASE Update(c, update_tenant)
    BY <1>upd, UpdateForm DEF Serving, update_tenant
  <1>ref. CASE Refresh(c, update_tenant)
    BY <1>ref, RefreshForm DEF Serving, update_tenant
  <1> QED
    BY <1>load, <1>upd, <1>ref DEF update_tenant_service

\* A new key of the tenant.
LEMMA create_api_key_forms ==
    ASSUME NEW c \in Callers, Serving(c), req[c].op = "create_api_key", create_api_key_service(c)
    PROVE  Forms(c)
  <1>op. req[c].op = "create_api_key"
    OBVIOUS
  <1>own. CASE LoadOwner(c, Tenant(c), create_api_key, "insert")
    BY <1>own, <1>op, LoadOwnerForm DEF PipelineOps, create_api_key
  <1>ins. CASE Insert(c, <<Row("key", c, req[c].tenant, req[c].value)>>, create_api_key)
    <2> DEFINE new == <<Row("key", c, req[c].tenant, req[c].value)>>
    <2>1. New(c) = {Row("key", c, req[c].tenant, req[c].value)}
      BY <1>op DEF New
    <2>2. {new[i] : i \in DOMAIN new} = New(c) /\ 1 \in DOMAIN new
      BY <2>1, Listed
    <2>3. /\ \A r \in New(c) : IsRow(r) \/ r.slot = "null"
          /\ \A r \in New(c) : r.id = c /\ (r.kind = "breaker" => r.of = c)
          /\ \A r, s \in New(c) : r.kind = s.kind => r = s
          /\ \A p \in New(c) : p.kind = "pipeline" => \E b \in New(c) : b.kind = "breaker" /\ b.of = c
      BY <2>1 DEF Row, IsRow, Kinds
    <2>4. req[c].op \in Creations /\ create_api_key.integrity = 409
      BY <1>op DEF Creations, create_api_key
    <2> QED
      BY <1>ins, <2>2, <2>3, <2>4, InsertForm DEF Serving
  <1>ref. CASE Refresh(c, create_api_key)
    BY <1>ref, RefreshForm DEF Serving, create_api_key
  <1> QED
    BY <1>own, <1>ins, <1>ref DEF create_api_key_service

\* A key is looked up among those of the tenant.
LEMMA get_api_key_forms ==
    ASSUME NEW c \in Callers, Serving(c), req[c].op = "get_api_key", get_api_key_service(c)
    PROVE  Forms(c)
  BY GetForm, FoundIsOwn DEF Serving, get_api_key_service, get_api_key

\* So are all of them.
LEMMA get_all_api_keys_forms ==
    ASSUME NEW c \in Callers, Serving(c), req[c].op = "get_all_api_keys", get_all_api_keys_service(c)
    PROVE  Forms(c)
  <1>op. req[c].op = "get_all_api_keys"
    OBVIOUS
  <1>own. CASE LoadOwner(c, Tenant(c), get_all_api_keys, "list")
    BY <1>own, <1>op, LoadOwnerForm DEF PipelineOps, get_all_api_keys
  <1>lst. CASE List(c, In("key", req[c].tenant), get_all_api_keys)
    BY <1>lst, FoundIsOwn, ListForm DEF Serving, get_all_api_keys
  <1> QED
    BY <1>own, <1>lst DEF get_all_api_keys_service

\* The row of a revoked key.
Off(s) == [s EXCEPT !.active = "off"]

\* A key of the tenant is switched off, unless it is off already.
LEMMA revoke_api_key_forms ==
    ASSUME NEW c \in Callers, Serving(c), req[c].op = "revoke_api_key", revoke_api_key_service(c)
    PROVE  Forms(c)
  <1>op. req[c].op = "revoke_api_key"
    OBVIOUS
  <1>1. CASE at[c] = "load"
    <2>1. Keep /\ UNCHANGED faults /\ (Done(c, 404, {}) \/ Done(c, 200, {}) \/ Goto(c, "revoke", ApiKey(c)))
      BY <1>1 DEF revoke_api_key_service, revoke_api_key
    <2>2. CASE Done(c, 404, {}) \/ Done(c, 200, {})
      BY <1>1, <2>1, <2>2 DEF Forms, Replies, Codes
    <2>3. CASE Goto(c, "revoke", ApiKey(c))
      <3>1. ApiKey(c) \in SUBSET db /\ \A r \in ApiKey(c) : r.kind = "key" /\ r.of = req[c].tenant
        BY DEF ApiKey, Of, In
      <3> QED
        BY <1>op, <1>1, <2>1, <2>3, <3>1 DEF Forms, Holds, PipelineOps
    <2> QED
      BY <2>1, <2>2, <2>3
  <1>2. CASE at[c] = "revoke"
    <2>1. PICK r \in saw[c] :
             \/ Of("key", r.id) = {} /\ Keep /\ Done(c, 500, {}) /\ UNCHANGED faults
             \/ /\ Of("key", r.id) # {}
                /\ Commit(c, (db \ Of("key", r.id)) \cup {Off(s) : s \in Of("key", r.id)})
                /\ Committed(c, 200)
      BY <1>2 DEF revoke_api_key_service, revoke_api_key, Off
    <2>2. Knows(c, r) /\ r.kind = "key" /\ r.of = req[c].tenant
      BY <1>2 DEF Serving, Well
    <2>3. CASE Of("key", r.id) = {} /\ Keep /\ Done(c, 500, {}) /\ UNCHANGED faults
      <3>1. c \in bereft
        BY <2>2, <2>3 DEF Knows, Same, Of
      <3> QED
        BY <1>2, <2>3, <3>1 DEF Forms, Replies, Codes
    <2>4. CASE /\ Of("key", r.id) # {}
               /\ Commit(c, (db \ Of("key", r.id)) \cup {Off(s) : s \in Of("key", r.id)})
               /\ Committed(c, 200)
      <3>1. PICK s \in db : Of("key", r.id) = {s} /\ s.kind = "key" /\ s.id = r.id
        BY <2>4, OneRow DEF Serving
      <3>2. s.of = r.of
        BY <2>2, <3>1 DEF Knows, Same
      <3> DEFINE t == [kind |-> s.kind, id |-> s.id, of |-> s.of, slot |-> s.slot, active |-> "off"]
      <3>3. Off(s) = t
        BY DEF Off, Serving, Tables, IsRow
      <3>8. {Off(q) : q \in Of("key", r.id)} = {t}
        BY <3>1, <3>3
      <3>4. Commit(c, (db \ {s}) \cup {t})
        <4> HIDE DEF t
        <4>1. Commit(c, (db \ Of("key", r.id)) \cup {t})
          BY <2>4, <3>8, Zenon
        <4> QED
          BY <4>1, <3>1
      <3>5. Rewrites(s, t)
        BY <3>1 DEF Rewrites, Same, IsRow, Serving, Tables, UniqueSlots
      <3>6. MayChange(c, s)
        BY <2>2, <3>1, <3>2 DEF MayChange
      <3>7. t.active = "off"
        OBVIOUS
      <3> HIDE DEF t
      <3> QED
        BY <1>2, <2>4, <3>4, <3>5, <3>6, <3>7 DEF Forms, Changes
    <2> QED
      BY <2>1, <2>3, <2>4
  <1> QED
    BY <1>1, <1>2 DEF revoke_api_key_service

\* A pipeline and its breaker.
LEMMA create_pipeline_forms ==
    ASSUME NEW c \in Callers, Serving(c), req[c].op = "create_pipeline", create_pipeline_service(c)
    PROVE  Forms(c)
  <1>op. req[c].op = "create_pipeline"
    OBVIOUS
  <1>own. CASE LoadOwner(c, Tenant(c), create_pipeline, "insert")
    BY <1>own, <1>op, LoadOwnerForm DEF PipelineOps, create_pipeline
  <1>ins. CASE Insert(c, <<Row("pipeline", c, req[c].tenant, "-"), Row("breaker", c, c, "-")>>, create_pipeline)
    <2> DEFINE new == <<Row("pipeline", c, req[c].tenant, "-"), Row("breaker", c, c, "-")>>
    <2>1. New(c) = {Row("pipeline", c, req[c].tenant, "-"), Row("breaker", c, c, "-")}
      BY <1>op DEF New
    <2>2. {new[i] : i \in DOMAIN new} = New(c) /\ 1 \in DOMAIN new
      BY <2>1, Listed
    <2>3. /\ \A r \in New(c) : IsRow(r) \/ r.slot = "null"
          /\ \A r \in New(c) : r.id = c /\ (r.kind = "breaker" => r.of = c)
          /\ \A r, s \in New(c) : r.kind = s.kind => r = s
          /\ \A p \in New(c) : p.kind = "pipeline" => \E b \in New(c) : b.kind = "breaker" /\ b.of = c
      BY <2>1 DEF Row, IsRow, Kinds
    <2>4. req[c].op \in Creations /\ create_pipeline.integrity = 409
      BY <1>op DEF Creations, create_pipeline
    <2> QED
      BY <1>ins, <2>2, <2>3, <2>4, InsertForm DEF Serving
  <1>ref. CASE Refresh(c, create_pipeline)
    BY <1>ref, RefreshForm DEF Serving, create_pipeline
  <1> QED
    BY <1>own, <1>ins, <1>ref DEF create_pipeline_service

\* A pipeline is looked up among those of the tenant.
LEMMA get_pipeline_forms ==
    ASSUME NEW c \in Callers, Serving(c), req[c].op = "get_pipeline", get_pipeline_service(c)
    PROVE  Forms(c)
  BY GetForm, FoundIsOwn DEF Serving, get_pipeline_service, get_pipeline

\* So are all of them.
LEMMA get_all_pipelines_forms ==
    ASSUME NEW c \in Callers, Serving(c), req[c].op = "get_all_pipelines", get_all_pipelines_service(c)
    PROVE  Forms(c)
  <1>op. req[c].op = "get_all_pipelines"
    OBVIOUS
  <1>own. CASE LoadOwner(c, Tenant(c), get_all_pipelines, "list")
    BY <1>own, <1>op, LoadOwnerForm DEF PipelineOps, get_all_pipelines
  <1>lst. CASE List(c, In("pipeline", req[c].tenant), get_all_pipelines)
    BY <1>lst, FoundIsOwn, ListForm DEF Serving, get_all_pipelines
  <1> QED
    BY <1>own, <1>lst DEF get_all_pipelines_service

\* A pipeline of the tenant is deleted.
LEMMA delete_pipeline_forms ==
    ASSUME NEW c \in Callers, Serving(c), req[c].op = "delete_pipeline", delete_pipeline_service(c)
    PROVE  Forms(c)
  <1>op. req[c].op = "delete_pipeline"
    OBVIOUS
  <1>goes. CASE at[c] = "load" /\ Keep /\ Goto(c, "delete", {}) /\ UNCHANGED faults
    BY <1>goes, <1>op, GoesOnForm DEF PipelineOps
  <1>del. CASE Delete(c, Pipeline(c), delete_pipeline)
    <2>1. /\ Pipeline(c) \in SUBSET db
          /\ \A r \in Pipeline(c) : r.kind = "pipeline" /\ MayChange(c, r)
      BY DEF Pipeline, Of, In, MayChange
    <2> QED
      BY <1>del, <2>1, DeleteForm DEF delete_pipeline
  <1> QED
    BY <1>goes, <1>del DEF delete_pipeline_service

\* A pipeline of the tenant is changed.
LEMMA update_pipeline_forms ==
    ASSUME NEW c \in Callers, Serving(c), req[c].op = "update_pipeline", update_pipeline_service(c)
    PROVE  Forms(c)
  <1>op. req[c].op = "update_pipeline"
    OBVIOUS
  <1>load. CASE LoadForUpdate(c, Pipeline(c), update_pipeline)
    <2>1. Pipeline(c) \in SUBSET db /\ \A r \in Pipeline(c) : MayUpdate(c, r)
      BY <1>op DEF Pipeline, Of, In, MayUpdate
    <2>2. req[c].op \in UpdateOps
      BY <1>op DEF UpdateOps
    <2>3. req[c].op \notin PipelineOps
      BY <1>op DEF PipelineOps
    <2> QED
      BY <1>load, <2>1, <2>2, <2>3, LoadForUpdateForm DEF update_pipeline
  <1>upd. CASE Update(c, update_pipeline)
    BY <1>upd, UpdateForm DEF Serving, update_pipeline
  <1>ref. CASE Refresh(c, update_pipeline)
    BY <1>ref, RefreshForm DEF Serving, update_pipeline
  <1> QED
    BY <1>load, <1>upd, <1>ref DEF update_pipeline_service

\* A step of a pipeline of the tenant.
LEMMA create_pipeline_step_forms ==
    ASSUME NEW c \in Callers, Serving(c), req[c].op = "create_pipeline_step", create_pipeline_step_service(c)
    PROVE  Forms(c)
  <1>op. req[c].op = "create_pipeline_step"
    OBVIOUS
  <1>own. CASE LoadOwner(c, Pipeline(c), create_pipeline_step, "check")
    BY <1>own, LoadOwnerForm, PipelineOwned DEF Serving, create_pipeline_step
  <1>chk. CASE CheckFree(c, {r \in In("step", req[c].pipeline) : r.slot = req[c].value}, create_pipeline_step)
    BY <1>chk, CheckForm DEF Serving, create_pipeline_step
  <1>ins. CASE Insert(c, <<Row("step", c, req[c].pipeline, req[c].value)>>, create_pipeline_step)
    <2> DEFINE new == <<Row("step", c, req[c].pipeline, req[c].value)>>
    <2>1. New(c) = {Row("step", c, req[c].pipeline, req[c].value)}
      BY <1>op DEF New
    <2>2. {new[i] : i \in DOMAIN new} = New(c) /\ 1 \in DOMAIN new
      BY <2>1, Listed
    <2>3. /\ \A r \in New(c) : IsRow(r) \/ r.slot = "null"
          /\ \A r \in New(c) : r.id = c /\ (r.kind = "breaker" => r.of = c)
          /\ \A r, s \in New(c) : r.kind = s.kind => r = s
          /\ \A p \in New(c) : p.kind = "pipeline" => \E b \in New(c) : b.kind = "breaker" /\ b.of = c
      BY <2>1 DEF Row, IsRow, Kinds
    <2>4. req[c].op \in Creations /\ create_pipeline_step.integrity = 409
      BY <1>op DEF Creations, create_pipeline_step
    <2> QED
      BY <1>ins, <2>2, <2>3, <2>4, InsertForm DEF Serving
  <1>ref. CASE Refresh(c, create_pipeline_step)
    BY <1>ref, RefreshForm DEF Serving, create_pipeline_step
  <1> QED
    BY <1>own, <1>chk, <1>ins, <1>ref DEF create_pipeline_step_service

\* A step is joined with the pipeline and its tenant.
LEMMA get_pipeline_step_forms ==
    ASSUME NEW c \in Callers, Serving(c), req[c].op = "get_pipeline_step", get_pipeline_step_service(c)
    PROVE  Forms(c)
  BY GetForm, FoundIsOwn DEF Serving, get_pipeline_step_service, get_pipeline_step

\* Steps are listed once the pipeline was found to be the tenant's.
LEMMA get_all_pipeline_steps_forms ==
    ASSUME NEW c \in Callers, Serving(c), req[c].op = "get_all_pipeline_steps", get_all_pipeline_steps_service(c)
    PROVE  Forms(c)
  <1>op. req[c].op = "get_all_pipeline_steps"
    OBVIOUS
  <1>own. CASE LoadOwner(c, Pipeline(c), get_all_pipeline_steps, "list")
    BY <1>own, LoadOwnerForm, PipelineOwned DEF Serving, get_all_pipeline_steps
  <1>lst. CASE List(c, In("step", req[c].pipeline), get_all_pipeline_steps)
    <2>1. OwnsPipeline(c)
      BY <1>lst, <1>op DEF List, Serving, Well, PipelineOps
    <2> QED
      BY <1>lst, <2>1, FoundIsOwn, ListForm DEF Serving, get_all_pipeline_steps
  <1> QED
    BY <1>own, <1>lst DEF get_all_pipeline_steps_service

\* A step is deleted by its id and pipeline.
LEMMA delete_pipeline_step_forms ==
    ASSUME NEW c \in Callers, Serving(c), req[c].op = "delete_pipeline_step", delete_pipeline_step_service(c)
    PROVE  Forms(c)
  <1>op. req[c].op = "delete_pipeline_step"
    OBVIOUS
  <1>own. CASE LoadOwner(c, Pipeline(c), delete_pipeline_step, "delete")
    BY <1>own, LoadOwnerForm, PipelineOwned DEF Serving, delete_pipeline_step
  <1>del. CASE Delete(c, (Of("step", req[c].row) \cap In("step", req[c].pipeline)), delete_pipeline_step)
    <2>0. OwnsPipeline(c)
      BY <1>del, <1>op DEF Delete, Serving, Well, PipelineOps
    <2>1. /\ (Of("step", req[c].row) \cap In("step", req[c].pipeline)) \in SUBSET db
          /\ \A r \in (Of("step", req[c].row) \cap In("step", req[c].pipeline)) : r.kind = "step" /\ MayChange(c, r)
      BY <2>0 DEF Of, In, MayChange
    <2> QED
      BY <1>del, <2>1, DeleteForm DEF delete_pipeline_step
  <1> QED
    BY <1>own, <1>del DEF delete_pipeline_step_service

\* A step of a pipeline of the tenant is changed.
LEMMA update_pipeline_step_forms ==
    ASSUME NEW c \in Callers, Serving(c), req[c].op = "update_pipeline_step", update_pipeline_step_service(c)
    PROVE  Forms(c)
  <1>op. req[c].op = "update_pipeline_step"
    OBVIOUS
  <1>load. CASE LoadForUpdate(c, Step(c), update_pipeline_step)
    <2>1. Step(c) \in SUBSET db /\ \A r \in Step(c) : MayUpdate(c, r)
      BY <1>op DEF Step, Of, In, MayUpdate, PipelineOps
    <2>2. req[c].op \in UpdateOps
      BY <1>op DEF UpdateOps
    <2>3. Step(c) # {} => OwnsPipeline(c)
      BY PipelineOwned DEF Serving, Step
    <2> QED
      BY <1>load, <2>1, <2>2, <2>3, LoadForUpdateForm DEF update_pipeline_step
  <1>upd. CASE Update(c, update_pipeline_step)
    BY <1>upd, UpdateForm DEF Serving, update_pipeline_step
  <1>ref. CASE Refresh(c, update_pipeline_step)
    BY <1>ref, RefreshForm DEF Serving, update_pipeline_step
  <1> QED
    BY <1>load, <1>upd, <1>ref DEF update_pipeline_step_service

\* The schedule of a pipeline of the tenant.
LEMMA create_schedule_forms ==
    ASSUME NEW c \in Callers, Serving(c), req[c].op = "create_schedule", create_schedule_service(c)
    PROVE  Forms(c)
  <1>op. req[c].op = "create_schedule"
    OBVIOUS
  <1>own. CASE LoadOwner(c, Pipeline(c), create_schedule, "check")
    BY <1>own, LoadOwnerForm, PipelineOwned DEF Serving, create_schedule
  <1>chk. CASE CheckFree(c, In("schedule", req[c].pipeline), create_schedule)
    BY <1>chk, CheckForm DEF Serving, create_schedule
  <1>ins. CASE Insert(c, <<Row("schedule", c, req[c].pipeline, "-")>>, create_schedule)
    <2> DEFINE new == <<Row("schedule", c, req[c].pipeline, "-")>>
    <2>1. New(c) = {Row("schedule", c, req[c].pipeline, "-")}
      BY <1>op DEF New
    <2>2. {new[i] : i \in DOMAIN new} = New(c) /\ 1 \in DOMAIN new
      BY <2>1, Listed
    <2>3. /\ \A r \in New(c) : IsRow(r) \/ r.slot = "null"
          /\ \A r \in New(c) : r.id = c /\ (r.kind = "breaker" => r.of = c)
          /\ \A r, s \in New(c) : r.kind = s.kind => r = s
          /\ \A p \in New(c) : p.kind = "pipeline" => \E b \in New(c) : b.kind = "breaker" /\ b.of = c
      BY <2>1 DEF Row, IsRow, Kinds
    <2>4. req[c].op \in Creations /\ create_schedule.integrity = 409
      BY <1>op DEF Creations, create_schedule
    <2> QED
      BY <1>ins, <2>2, <2>3, <2>4, InsertForm DEF Serving
  <1>ref. CASE Refresh(c, create_schedule)
    BY <1>ref, RefreshForm DEF Serving, create_schedule
  <1> QED
    BY <1>own, <1>chk, <1>ins, <1>ref DEF create_schedule_service

\* It is joined with the pipeline and its tenant.
LEMMA get_schedule_forms ==
    ASSUME NEW c \in Callers, Serving(c), req[c].op = "get_schedule", get_schedule_service(c)
    PROVE  Forms(c)
  BY GetForm, FoundIsOwn DEF Serving, get_schedule_service, get_schedule

\* It is deleted by its pipeline.
LEMMA delete_schedule_forms ==
    ASSUME NEW c \in Callers, Serving(c), req[c].op = "delete_schedule", delete_schedule_service(c)
    PROVE  Forms(c)
  <1>op. req[c].op = "delete_schedule"
    OBVIOUS
  <1>own. CASE LoadOwner(c, Pipeline(c), delete_schedule, "delete")
    BY <1>own, LoadOwnerForm, PipelineOwned DEF Serving, delete_schedule
  <1>del. CASE Delete(c, In("schedule", req[c].pipeline), delete_schedule)
    <2>0. OwnsPipeline(c)
      BY <1>del, <1>op DEF Delete, Serving, Well, PipelineOps
    <2>1. /\ In("schedule", req[c].pipeline) \in SUBSET db
          /\ \A r \in In("schedule", req[c].pipeline) : r.kind = "schedule" /\ MayChange(c, r)
      BY <2>0 DEF In, MayChange
    <2> QED
      BY <1>del, <2>1, DeleteForm DEF delete_schedule
  <1> QED
    BY <1>own, <1>del DEF delete_schedule_service

\* It is changed.
LEMMA update_schedule_forms ==
    ASSUME NEW c \in Callers, Serving(c), req[c].op = "update_schedule", update_schedule_service(c)
    PROVE  Forms(c)
  <1>op. req[c].op = "update_schedule"
    OBVIOUS
  <1>load. CASE LoadForUpdate(c, Schedule(c), update_schedule)
    <2>1. Schedule(c) \in SUBSET db /\ \A r \in Schedule(c) : MayUpdate(c, r)
      BY <1>op DEF Schedule, In, MayUpdate, PipelineOps
    <2>2. req[c].op \in UpdateOps
      BY <1>op DEF UpdateOps
    <2>3. Schedule(c) # {} => OwnsPipeline(c)
      BY PipelineOwned DEF Serving, Schedule
    <2> QED
      BY <1>load, <2>1, <2>2, <2>3, LoadForUpdateForm DEF update_schedule
  <1>upd. CASE Update(c, update_schedule)
    BY <1>upd, UpdateForm DEF Serving, update_schedule
  <1>ref. CASE Refresh(c, update_schedule)
    BY <1>ref, RefreshForm DEF Serving, update_schedule
  <1> QED
    BY <1>load, <1>upd, <1>ref DEF update_schedule_service

\* Every step of a handler takes one of the seven forms.
LEMMA ServeForms ==
    ASSUME IInv, NEW c \in Callers, Serve(c)
    PROVE  Forms(c)
  <1>1. Serving(c)
    BY DEF IInv, Serve, Serving
  <1>2. CASE req[c].op = "create_tenant" /\ create_tenant_service(c)
    BY <1>1, <1>2, create_tenant_forms
  <1>3. CASE req[c].op = "get_tenant" /\ get_tenant_service(c)
    BY <1>1, <1>3, get_tenant_forms
  <1>4. CASE req[c].op = "get_all_tenants" /\ get_all_tenants_service(c)
    BY <1>1, <1>4, get_all_tenants_forms
  <1>5. CASE req[c].op = "delete_tenant" /\ delete_tenant_service(c)
    BY <1>1, <1>5, delete_tenant_forms
  <1>6. CASE req[c].op = "update_tenant" /\ update_tenant_service(c)
    BY <1>1, <1>6, update_tenant_forms
  <1>7. CASE req[c].op = "create_api_key" /\ create_api_key_service(c)
    BY <1>1, <1>7, create_api_key_forms
  <1>8. CASE req[c].op = "get_api_key" /\ get_api_key_service(c)
    BY <1>1, <1>8, get_api_key_forms
  <1>9. CASE req[c].op = "get_all_api_keys" /\ get_all_api_keys_service(c)
    BY <1>1, <1>9, get_all_api_keys_forms
  <1>10. CASE req[c].op = "revoke_api_key" /\ revoke_api_key_service(c)
    BY <1>1, <1>10, revoke_api_key_forms
  <1>11. CASE req[c].op = "create_pipeline" /\ create_pipeline_service(c)
    BY <1>1, <1>11, create_pipeline_forms
  <1>12. CASE req[c].op = "get_pipeline" /\ get_pipeline_service(c)
    BY <1>1, <1>12, get_pipeline_forms
  <1>13. CASE req[c].op = "get_all_pipelines" /\ get_all_pipelines_service(c)
    BY <1>1, <1>13, get_all_pipelines_forms
  <1>14. CASE req[c].op = "delete_pipeline" /\ delete_pipeline_service(c)
    BY <1>1, <1>14, delete_pipeline_forms
  <1>15. CASE req[c].op = "update_pipeline" /\ update_pipeline_service(c)
    BY <1>1, <1>15, update_pipeline_forms
  <1>16. CASE req[c].op = "create_pipeline_step" /\ create_pipeline_step_service(c)
    BY <1>1, <1>16, create_pipeline_step_forms
  <1>17. CASE req[c].op = "get_pipeline_step" /\ get_pipeline_step_service(c)
    BY <1>1, <1>17, get_pipeline_step_forms
  <1>18. CASE req[c].op = "get_all_pipeline_steps" /\ get_all_pipeline_steps_service(c)
    BY <1>1, <1>18, get_all_pipeline_steps_forms
  <1>19. CASE req[c].op = "delete_pipeline_step" /\ delete_pipeline_step_service(c)
    BY <1>1, <1>19, delete_pipeline_step_forms
  <1>20. CASE req[c].op = "update_pipeline_step" /\ update_pipeline_step_service(c)
    BY <1>1, <1>20, update_pipeline_step_forms
  <1>21. CASE req[c].op = "create_schedule" /\ create_schedule_service(c)
    BY <1>1, <1>21, create_schedule_forms
  <1>22. CASE req[c].op = "get_schedule" /\ get_schedule_service(c)
    BY <1>1, <1>22, get_schedule_forms
  <1>23. CASE req[c].op = "delete_schedule" /\ delete_schedule_service(c)
    BY <1>1, <1>23, delete_schedule_forms
  <1>24. CASE req[c].op = "update_schedule" /\ update_schedule_service(c)
    BY <1>1, <1>24, update_schedule_forms
  <1> QED
    BY <1>2, <1>3, <1>4, <1>5, <1>6, <1>7, <1>8, <1>9, <1>10, <1>11, <1>12, <1>13,
       <1>14, <1>15, <1>16, <1>17, <1>18, <1>19, <1>20, <1>21, <1>22, <1>23, <1>24 DEF Serve

-----------------------------------------------------------------------------
(* Each form keeps the invariant *)

\* A step of c and of nobody else.
MovesOnly(c) ==
    /\ \A e \in Callers \ {c} : /\ at'[e] = at[e] /\ req'[e] = req[e]
                                /\ saw'[e] = saw[e] /\ answer'[e] = answer[e]
                                /\ e \in wrote' => e \in wrote
                                /\ e \in barred' => e \in barred
    /\ StaysIssued
    /\ \A e \in Callers : at[e] = "done" => at'[e] = "done"

\* To go on is a step of one request.
LEMMA GotoMoves ==
    ASSUME Control, NEW c \in Callers, NEW label \in Labels \ {"done"}, NEW rows, Goto(c, label, rows),
           at[c] # "done", at[c] # "refresh", wrote' \subseteq wrote \cup {c},
           bereft' \subseteq Callers, faults' \in 0..MaxFaults
    PROVE  /\ MovesOnly(c) /\ Control'
           /\ at'[c] = label /\ saw'[c] = rows /\ req'[c] = req[c] /\ answer'[c] = answer[c] /\ barred' = barred
  <1>1. /\ at'[c] = label /\ saw'[c] = rows /\ req' = req /\ answer' = answer /\ barred' = barred
        /\ \A e \in Callers \ {c} : at'[e] = at[e] /\ saw'[e] = saw[e]
    BY DEF Control, Goto
  <1>2. MovesOnly(c)
    BY <1>1 DEF MovesOnly, StaysIssued
  <1>3. at' \in [Callers -> Labels] /\ saw' = [e \in Callers |-> saw'[e]]
    BY DEF Control, Goto
  <1> QED
    BY <1>1, <1>2, <1>3 DEF Control

\* So is to answer.
LEMMA DoneMoves ==
    ASSUME Control, NEW c \in Callers, NEW code \in Codes, NEW rows, Done(c, code, rows),
           wrote' \subseteq wrote \cup {c}, bereft' \subseteq Callers, faults' \in 0..MaxFaults
    PROVE  /\ MovesOnly(c) /\ Control'
           /\ at'[c] = "done" /\ saw'[c] = rows /\ answer'[c] = code /\ barred' = barred
  <1>1. /\ at'[c] = "done" /\ saw'[c] = rows /\ answer'[c] = code /\ barred' = barred
        /\ \A e \in Callers \ {c} : /\ at'[e] = at[e] /\ saw'[e] = saw[e]
                                    /\ req'[e] = req[e] /\ answer'[e] = answer[e]
    BY DEF Control, Done
  <1>2. MovesOnly(c)
    BY <1>1 DEF MovesOnly, StaysIssued
  <1>3. at' \in [Callers -> Labels] /\ answer' \in [Callers -> Codes \cup {0}]
    BY DEF Control, Done, Labels
  <1>4. saw' = [e \in Callers |-> saw'[e]] /\ req' = [e \in Callers |-> req'[e]]
    BY DEF Control, Done
  <1>5. \A e \in Callers : at'[e] = "done" <=> answer'[e] # 0
    BY <1>1 DEF Control, Codes
  <1> QED
    BY <1>1, <1>2, <1>3, <1>4, <1>5 DEF Control

\* A request that is being served came through the door, and has answered nothing.
LEMMA BusyFacts ==
    ASSUME Control, NEW c \in Callers, Well(c), at[c] \notin {"idle", "verify", "done"}
    PROVE  /\ c \notin barred /\ answer[c] = 0 /\ req[c] \in Requests(c)
           /\ req[c].op \in TenantOps => req[c].key = Admin
           /\ req[c].op \notin TenantOps => KeyOfItsTenant(c)
           /\ c \in wrote => at[c] = "refresh"
  BY DEF Control, Well, Barred

\* Once it has answered it stays well, if it answers no refusal after a write and
\* no server error without a reason.
LEMMA DoneWell ==
    ASSUME Control, NEW c \in Callers, Well(c), at[c] \notin {"idle", "verify", "done"},
           at'[c] = "done", NEW code, answer'[c] = code, barred' = barred,
           c \in wrote' => code \notin 400..499,
           faults' = 0 /\ c \notin bereft' => code # 500
    PROVE  Well(c)'
  BY BusyFacts DEF Well

\* The wrote set after a commit.
LEMMA CommitFacts ==
    ASSUME Control, NEW c \in Callers, NEW rows, Commit(c, rows)
    PROVE  /\ wrote' \subseteq wrote \cup {c} /\ bereft' \subseteq Callers /\ db' = rows
           /\ bereft \subseteq bereft' /\ \A e \in Callers \ bereft' : \A q \in saw[e] : \E s \in db' : Same(q, s)
  BY DEF Control, Commit, Same

\* Database errors are counted up to their bound.
LEMMA FaultFacts ==
    ASSUME Control, UNCHANGED faults \/ Fault
    PROVE  faults' \in 0..MaxFaults /\ (faults' = 0 => faults = 0) /\ (Fault => faults' # 0)
  BY FaultsAssumption DEF Control, Fault

\* A step that writes nothing leaves the tables sound and is tame.
LEMMA KeepTables ==
    ASSUME Tables, Control, NEW c \in Callers, Keep, MovesOnly(c), UNCHANGED faults \/ Fault
    PROVE  Tables' /\ Tame
  <1>1. db' = db /\ bereft' = bereft /\ StaysIssued
    BY DEF Keep, MovesOnly
  <1>2. Tables'
    <2>1. \A r \in db' : IsRow(r) /\ Issued(r.id)'
      BY <1>1 DEF Tables, Issued, StaysIssued
    <2>2. UniqueIds' /\ UniqueSlots' /\ NothingOutlivesOwner' /\ HasBreaker'
      BY <1>1 DEF Tables, UniqueIds, UniqueSlots, NothingOutlivesOwner, HasBreaker, Of, In
    <2> QED
      BY <2>1, <2>2 DEF Tables, IsRow
  <1> QED
    BY <1>1, <1>2, FaultFacts DEF Tame, Same, MovesOnly

\* What is in the tables is known.
LEMMA RowsKnown == Tables => \A c \in Callers, r \in db : Knows(c, r)
  BY DEF Tables, UniqueIds, Same, Knows

\* The parts of the next state that a form is proved to establish.
Kept(c) == Tables' /\ Tame /\ MovesOnly(c) /\ Control' /\ Well(c)'

\* A SELECT that found what it should keeps the invariant.
LEMMA AdvancesKept ==
    ASSUME IInv, NEW c \in Callers, Advances(c)
    PROVE  Kept(c)
  <1>0. Tables /\ Control /\ Well(c)
    BY DEF IInv
  <1>1. PICK label \in {"check", "insert", "list", "delete"} : Goto(c, label, {})
    BY DEF Advances
  <1>2. /\ at[c] \in {"load", "check"} /\ Keep /\ UNCHANGED faults
        /\ req[c].op \in PipelineOps => OwnsPipeline(c)
    BY DEF Advances
  <1>3. /\ MovesOnly(c) /\ Control'
        /\ at'[c] = label /\ saw'[c] = {} /\ req'[c] = req[c] /\ answer'[c] = answer[c] /\ barred' = barred
    BY <1>0, <1>1, <1>2, GotoMoves, FaultFacts DEF Labels, Keep, Control
  <1>4. Tables' /\ Tame
    BY <1>0, <1>2, <1>3, KeepTables
  <1>5. /\ req[c].op \in PipelineOps => OwnsPipeline(c)'
        /\ req[c].op \notin TenantOps => KeyOfItsTenant(c)'
    BY <1>0, <1>2, <1>3, <1>4, StaysKnown, BusyFacts
  <1>6. Well(c)'
    BY <1>0, <1>1, <1>2, <1>3, <1>5, BusyFacts DEF Well, Keep
  <1> QED
    BY <1>3, <1>4, <1>6 DEF Kept

\* So does one of the rows to change, which the request then knows.
LEMMA HoldsKept ==
    ASSUME IInv, NEW c \in Callers, Holds(c)
    PROVE  Kept(c)
  <1>0. Tables /\ Control /\ Well(c)
    BY DEF IInv
  <1>1. PICK rows \in SUBSET db :
          \/ /\ Goto(c, "update", rows) /\ req[c].op \in UpdateOps /\ req[c].column # "none"
             /\ \A r \in rows : MayUpdate(c, r)
          \/ /\ Goto(c, "revoke", rows) /\ req[c].op = "revoke_api_key"
             /\ \A r \in rows : r.kind = "key" /\ r.of = req[c].tenant
    BY DEF Holds
  <1>2. /\ at[c] = "load" /\ Keep /\ UNCHANGED faults
        /\ req[c].op \in PipelineOps => OwnsPipeline(c)
    BY DEF Holds
  <1>3. /\ MovesOnly(c) /\ Control'
        /\ at'[c] \in {"update", "revoke"} /\ saw'[c] = rows /\ req'[c] = req[c] /\ answer'[c] = answer[c]
        /\ barred' = barred
    <2>1. faults' \in 0..MaxFaults /\ bereft' \subseteq Callers /\ wrote' \subseteq wrote \cup {c}
      BY <1>0, <1>2, FaultFacts DEF Keep, Control
    <2>2. CASE Goto(c, "update", rows)
      BY <1>0, <1>2, <2>1, <2>2, GotoMoves DEF Labels
    <2>3. CASE Goto(c, "revoke", rows)
      BY <1>0, <1>2, <2>1, <2>3, GotoMoves DEF Labels
    <2> QED
      BY <1>1, <2>2, <2>3
  <1>4. Tables' /\ Tame
    BY <1>0, <1>2, <1>3, KeepTables
  <1>5. /\ req[c].op \in PipelineOps => OwnsPipeline(c)'
        /\ req[c].op \notin TenantOps => KeyOfItsTenant(c)'
    BY <1>0, <1>2, <1>3, <1>4, StaysKnown, BusyFacts
  <1>9. \A r \in rows : Knows(c, r)'
    BY <1>2, <1>4 DEF Tables, UniqueIds, Same, Knows, Keep
  <1>6. /\ at'[c] = "update" => /\ req[c].op \in UpdateOps /\ req[c].column # "none"
                                /\ \A r \in rows : MayUpdate(c, r)'
        /\ at'[c] = "revoke" => /\ req[c].op = "revoke_api_key"
                                /\ \A r \in rows : r.kind = "key" /\ r.of = req[c].tenant
    BY <1>0, <1>1, <1>3 DEF MayUpdate, Goto, Control
  <1>7. at'[c] = "update" => req[c].column \in {"slot", "active"}
    BY <1>0, <1>2, <1>6, BusyFacts, RequestsAssumption
  <1>8. Well(c)'
    BY <1>0, <1>1, <1>2, <1>3, <1>5, <1>6, <1>7, <1>9, BusyFacts DEF Well, Keep
  <1> QED
    BY <1>3, <1>4, <1>8 DEF Kept

\* So does an answer.
LEMMA RepliesKept ==
    ASSUME IInv, NEW c \in Callers, Replies(c)
    PROVE  Kept(c)
  <1>0. Tables /\ Control /\ Well(c)
    BY DEF IInv
  <1>1. PICK code \in Codes : \E rows :
          /\ Done(c, code, rows)
          /\ at[c] = "refresh" => code \notin 400..499
          /\ code = 500 => c \in bereft
    BY DEF Replies
  <1>2. PICK rows :
          /\ Done(c, code, rows)
          /\ at[c] = "refresh" => code \notin 400..499
          /\ code = 500 => c \in bereft
    BY <1>1
  <1>3. at[c] \notin {"idle", "verify", "done"} /\ Keep /\ UNCHANGED faults
    BY DEF Replies
  <1>4. /\ MovesOnly(c) /\ Control'
        /\ at'[c] = "done" /\ answer'[c] = code /\ barred' = barred
    BY <1>0, <1>2, <1>3, DoneMoves, FaultFacts DEF Keep, Control
  <1>5. Tables' /\ Tame
    BY <1>0, <1>3, <1>4, KeepTables
  <1>6. Well(c)'
    BY <1>0, <1>2, <1>3, <1>4, BusyFacts, DoneWell DEF Keep
  <1> QED
    BY <1>4, <1>5, <1>6 DEF Kept

\* So does an UPDATE that is not sent.
LEMMA SkipsKept ==
    ASSUME IInv, NEW c \in Callers, Skips(c)
    PROVE  Kept(c)
  <1>0. Tables /\ Control /\ Well(c)
    BY DEF IInv
  <1>1. at[c] = "update" /\ Keep /\ UNCHANGED faults /\ Goto(c, "refresh", saw[c])
    BY DEF Skips
  <1>2. /\ MovesOnly(c) /\ Control'
        /\ at'[c] = "refresh" /\ saw'[c] = saw[c] /\ req'[c] = req[c] /\ answer'[c] = answer[c] /\ barred' = barred
    BY <1>0, <1>1, GotoMoves, FaultFacts DEF Labels, Keep, Control
  <1>3. Tables' /\ Tame
    BY <1>0, <1>1, <1>2, KeepTables
  <1>4. /\ \A r \in saw'[c] : Knows(c, r)'
        /\ req[c].op \notin TenantOps => KeyOfItsTenant(c)'
    BY <1>0, <1>1, <1>2, <1>3, StaysKnown, BusyFacts DEF Well
  <1>5. Well(c)'
    BY <1>0, <1>1, <1>2, <1>4, BusyFacts DEF Well, Keep
  <1> QED
    BY <1>2, <1>3, <1>5 DEF Kept

\* So does an INSERT.
LEMMA AddsKept ==
    ASSUME IInv, NEW c \in Callers, Adds(c)
    PROVE  Kept(c)
  <1>0. Tables /\ Control /\ Well(c)
    BY DEF IInv
  <1>1. at[c] = "insert" /\ UNCHANGED faults /\ Insertable(c, New(c)) /\ Commit(c, db \cup New(c))
    BY DEF Adds
  <1>2. PICK r \in New(c) : Goto(c, "refresh", {r})
    BY DEF Adds
  <1>3. /\ wrote' \subseteq wrote \cup {c} /\ bereft' \subseteq Callers /\ db' = db \cup New(c)
        /\ bereft \subseteq bereft' /\ \A e \in Callers \ bereft' : \A q \in saw[e] : \E s \in db' : Same(q, s)
    BY <1>0, <1>1, CommitFacts
  <1>4. /\ MovesOnly(c) /\ Control'
        /\ at'[c] = "refresh" /\ saw'[c] = {r} /\ req'[c] = req[c] /\ answer'[c] = answer[c] /\ barred' = barred
    BY <1>0, <1>1, <1>2, <1>3, GotoMoves, FaultFacts DEF Labels
  <1>5. Tables'
    BY <1>0, <1>1, <1>3, <1>4, InsertTables DEF MovesOnly
  <1>6. Tame
    BY <1>0, <1>1, <1>3, <1>4 DEF Tame, MovesOnly, Insertable, Same
  <1>7. /\ Knows(c, r)'
        /\ req[c].op \notin TenantOps => KeyOfItsTenant(c)'
    <2>1. Knows(c, r)'
      BY <1>2, <1>3, <1>5 DEF Tables, UniqueIds, Same, Knows
    <2>2. req[c].op \notin TenantOps => KeyOfItsTenant(c)'
      BY <1>0, <1>1, <1>4, <1>6, StaysKnown, BusyFacts
    <2> QED
      BY <2>1, <2>2
  <1>8. Well(c)'
    BY <1>0, <1>1, <1>4, <1>7, BusyFacts DEF Well
  <1> QED
    BY <1>4, <1>5, <1>6, <1>8 DEF Kept

\* So does an UPDATE, which revives no key.
LEMMA ChangesKept ==
    ASSUME IInv, NEW c \in Callers, Changes(c)
    PROVE  Kept(c)
  <1>0. Tables /\ Control /\ Well(c) /\ at[c] \in {"update", "revoke"}
    BY DEF IInv, Changes
  <1>1. PICK s \in db : \E t : /\ Rewrites(s, t) /\ Commit(c, (db \ {s}) \cup {t})
                               /\ s.kind = "key" => t.active = "off"
    BY DEF Changes
  <1>2. PICK t : /\ Rewrites(s, t) /\ Commit(c, (db \ {s}) \cup {t})
                 /\ s.kind = "key" => t.active = "off"
    BY <1>1
  <1>3. /\ wrote' \subseteq wrote \cup {c} /\ bereft' \subseteq Callers /\ db' = (db \ {s}) \cup {t}
        /\ bereft \subseteq bereft' /\ \A e \in Callers \ bereft' : \A q \in saw[e] : \E p \in db' : Same(q, p)
    BY <1>0, <1>2, CommitFacts
  <1>4. ASSUME MovesOnly(c), UNCHANGED faults \/ Fault
        PROVE  Tables' /\ Tame
    <2>1. Tables'
      BY <1>0, <1>2, <1>3, <1>4, UpdateTables DEF MovesOnly
    <2>2. \A q \in db' : \E r \in db : /\ Same(r, q) /\ r.of = q.of
                                       /\ q.kind = "key" /\ q.active = "on" => r.active = "on"
      BY <1>2, <1>3 DEF Rewrites, Same
    <2>3. \A r \in db : \E q \in db' : Same(r, q)
      BY <1>2, <1>3 DEF Rewrites, Same
    <2> QED
      BY <1>0, <1>3, <1>4, <2>1, <2>2, <2>3, FaultFacts DEF Tame, MovesOnly
  <1>5. CASE at[c] = "update" /\ Goto(c, "refresh", saw[c]) /\ UNCHANGED faults
    <2>1. /\ MovesOnly(c) /\ Control'
          /\ at'[c] = "refresh" /\ saw'[c] = saw[c] /\ req'[c] = req[c] /\ answer'[c] = answer[c]
          /\ barred' = barred
      BY <1>0, <1>3, <1>5, GotoMoves, FaultFacts DEF Labels
    <2>2. Tables' /\ Tame
      BY <1>4, <1>5, <2>1
    <2>3. /\ \A r \in saw'[c] : Knows(c, r)'
          /\ req[c].op \notin TenantOps => KeyOfItsTenant(c)'
      BY <1>0, <1>5, <2>1, <2>2, StaysKnown, BusyFacts DEF Well
    <2>4. Well(c)'
      BY <1>0, <1>5, <2>1, <2>3, BusyFacts DEF Well
    <2> QED
      BY <2>1, <2>2, <2>4 DEF Kept
  <1>6. CASE at[c] = "revoke" /\ Committed(c, 200)
    <2>1. PICK code \in {200, 500} : Done(c, code, {}) /\ (UNCHANGED faults \/ Fault) /\ (code = 500 => Fault)
      BY <1>6 DEF Committed
    <2>2. MovesOnly(c) /\ Control' /\ at'[c] = "done" /\ answer'[c] = code /\ barred' = barred
      BY <1>0, <1>3, <2>1, DoneMoves, FaultFacts DEF Codes
    <2>3. Well(c)'
      BY <1>0, <2>1, <2>2, FaultFacts, DoneWell
    <2> QED
      BY <1>4, <2>1, <2>2, <2>3 DEF Kept
  <1> QED
    BY <1>5, <1>6 DEF Changes

\* So does a DELETE.
LEMMA DropsKept ==
    ASSUME IInv, NEW c \in Callers, Drops(c)
    PROVE  Kept(c)
  <1>0. Tables /\ Control /\ Well(c) /\ at[c] = "delete"
    BY DEF IInv, Drops
  <1>1. PICK rows \in SUBSET db : /\ Commit(c, db \ Below(rows))
                                  /\ \A r \in rows : r.kind \in {"tenant", "pipeline", "step", "schedule"}
    BY DEF Drops
  <1>2. /\ wrote' \subseteq wrote \cup {c} /\ bereft' \subseteq Callers /\ db' = db \ Below(rows)
        /\ bereft \subseteq bereft' /\ \A e \in Callers \ bereft' : \A q \in saw[e] : \E s \in db' : Same(q, s)
    BY <1>0, <1>1, CommitFacts
  <1>3. PICK code \in {204, 500} : Done(c, code, {}) /\ (UNCHANGED faults \/ Fault) /\ (code = 500 => Fault)
    BY DEF Drops, Committed
  <1>4. MovesOnly(c) /\ Control' /\ at'[c] = "done" /\ answer'[c] = code /\ barred' = barred
    BY <1>0, <1>2, <1>3, DoneMoves, FaultFacts DEF Codes
  <1>5. Tables'
    BY <1>0, <1>1, <1>2, <1>4, DeleteTables DEF MovesOnly
  \* A key goes only with its tenant, which then is there no more.
  <1>8. ASSUME NEW k \in db, k.kind = "key", NEW t \in db', t.kind = "tenant", t.id = k.of
        PROVE  k \in db'
    <2>1. SUFFICES ASSUME k \in Below(rows) PROVE FALSE
      BY <1>2
    <2>2. k \notin rows
      BY <1>1, <1>8
    <2>3. PICK p \in Below(rows) : Parent[k.kind] = p.kind /\ k.of = p.id
      BY <1>0, <2>1, <2>2, BelowCloses
    <2>4. p \in db /\ p.kind = "tenant" /\ p.id = t.id
      BY <1>0, <1>8, <2>3, BelowCloses DEF Parent
    <2>5. p = t
      BY <1>0, <1>2, <1>8, <2>4 DEF Tables, UniqueIds, Same
    <2> QED
      BY <1>2, <2>3, <2>5
  <1>6. Tame
    <2>1. \A k \in db : k.kind = "key" /\ (\E t \in db' : t.kind = "tenant" /\ t.id = k.of) =>
             \E s \in db' : Same(k, s)
      BY <1>8 DEF Same
    <2>2. \A s \in db' : s \in db
      BY <1>2
    <2> QED
      BY <1>0, <1>2, <1>3, <1>4, <2>1, <2>2, FaultFacts DEF Tame, MovesOnly, Same
  <1>7. Well(c)'
    BY <1>0, <1>3, <1>4, FaultFacts, DoneWell
  <1> QED
    BY <1>4, <1>5, <1>6, <1>7 DEF Kept

-----------------------------------------------------------------------------
(* The steps outside the handlers *)

\* The steps of a handler keep the invariant, whichever form they take.
LEMMA ServeKept ==
    ASSUME IInv, NEW c \in Callers, Serve(c)
    PROVE  Kept(c)
  BY ServeForms, AdvancesKept, HoldsKept, RepliesKept, SkipsKept, AddsKept, ChangesKept, DropsKept DEF Forms

\* The door refuses a dead key.
LEMMA DoorKept ==
    ASSUME IInv, NEW c \in Callers, Door(c)
    PROVE  Kept(c)
  <1>0. Tables /\ Control /\ Well(c)
    BY DEF IInv
  <1>1. at[c] = "verify" /\ Keep /\ UNCHANGED faults
    BY DEF Door
  <1>2. answer[c] = 0 /\ req[c] \in Requests(c) /\ c \notin wrote
    BY <1>0, <1>1 DEF Control, Well
  <1>3. \/ /\ Goto(c, "load", {}) /\ c \notin barred
           /\ req[c].op \in TenantOps => req[c].key = Admin
           /\ req[c].op \notin TenantOps => KeyOfItsTenant(c)
        \/ \E code \in {401, 403} : Done(c, code, {}) /\ (c \in barred => code = 401)
    <2>1. CASE req[c].op \in TenantOps
      <3>1. c \notin barred
        BY <1>0, <1>1, <2>1 DEF Well, Barred
      <3> QED
        BY <2>1, <3>1 DEF Door, verify_admin
    <2>2. CASE req[c].op \notin TenantOps
      <3> DEFINE keys == {k \in Of("key", req[c].key) : k.active = "on"}
      <3>1. c \in barred => keys = {}
        BY <1>0, <1>1 DEF Well, Barred, LiveKey
      <3>2. \/ keys = {} /\ Done(c, 401, {})
            \/ keys # {} /\ Done(c, 403, {})
            \/ keys # {} /\ Goto(c, "load", {}) /\ \A k \in keys : k.of = req[c].tenant
        BY <2>2 DEF Door, verify_tenant
      <3>3. ASSUME NEW k \in keys, k.of = req[c].tenant PROVE KeyOfItsTenant(c)
        <4>1. k \in db /\ k.kind = "key" /\ k.id = req[c].key
          BY DEF Of
        <4>2. \A q \in db : q.kind = "key" /\ q.id = req[c].key => q = k
          BY <1>0, <4>1 DEF Tables, UniqueIds, Same
        <4>3. PICK t \in db : t.kind = "tenant" /\ t.id = req[c].tenant
          BY <1>0, <3>3, <4>1 DEF Tables, NothingOutlivesOwner, Of, Parent
        <4>4. Issued(req[c].key) /\ Issued(req[c].tenant)
          BY <1>0, <4>1, <4>3 DEF Tables
        <4> QED
          BY <3>3, <4>1, <4>2, <4>4 DEF KeyOfItsTenant
      <3> HIDE DEF keys
      <3> QED
        BY <2>2, <3>1, <3>2, <3>3
    <2> QED
      BY <2>1, <2>2
  <1>4. CASE /\ Goto(c, "load", {}) /\ c \notin barred
             /\ req[c].op \in TenantOps => req[c].key = Admin
             /\ req[c].op \notin TenantOps => KeyOfItsTenant(c)
    <2>1. /\ MovesOnly(c) /\ Control'
          /\ at'[c] = "load" /\ saw'[c] = {} /\ req'[c] = req[c] /\ answer'[c] = answer[c] /\ barred' = barred
      BY <1>0, <1>1, <1>4, GotoMoves, FaultFacts DEF Labels, Keep, Control
    <2>2. Tables' /\ Tame
      BY <1>0, <1>1, <2>1, KeepTables
    <2>4. req[c].op \notin TenantOps => KeyOfItsTenant(c)'
      BY <1>4, <2>1, <2>2, StaysKnown
    <2>3. Well(c)'
      BY <1>1, <1>2, <1>4, <2>1, <2>4 DEF Well, Keep
    <2> QED
      BY <2>1, <2>2, <2>3 DEF Kept
  <1>5. CASE \E code \in {401, 403} : Done(c, code, {}) /\ (c \in barred => code = 401)
    <2>1. PICK code \in {401, 403} : Done(c, code, {}) /\ (c \in barred => code = 401)
      BY <1>5
    <2>2. MovesOnly(c) /\ Control' /\ at'[c] = "done" /\ answer'[c] = code /\ barred' = barred
      BY <1>0, <1>1, <2>1, DoneMoves, FaultFacts DEF Codes, Keep, Control
    <2>3. Tables' /\ Tame
      BY <1>0, <1>1, <2>2, KeepTables
    <2>4. Well(c)'
      BY <1>1, <1>2, <2>1, <2>2 DEF Well, Keep, Barred
    <2> QED
      BY <2>2, <2>3, <2>4 DEF Kept
  <1> QED
    BY <1>3, <1>4, <1>5

\* A failed statement is answered 500, of which the count of faults tells.
LEMMA DatabaseFailsKept ==
    ASSUME IInv, NEW c \in Callers, DatabaseFails(c)
    PROVE  Kept(c)
  <1>0. Tables /\ Control /\ Well(c)
    BY DEF IInv
  <1>1. at[c] \notin {"idle", "done"} /\ Fault /\ Keep /\ Done(c, 500, {})
    BY DEF DatabaseFails
  <1>2. MovesOnly(c) /\ Control' /\ at'[c] = "done" /\ answer'[c] = 500 /\ barred' = barred
    BY <1>0, <1>1, DoneMoves, FaultFacts DEF Codes, Keep, Control
  <1>3. Tables' /\ Tame
    BY <1>0, <1>1, <1>2, KeepTables
  <1>4. faults' # 0
    BY <1>0, <1>1, FaultFacts
  <1>5. Well(c)'
    BY <1>2, <1>4 DEF Well, Barred
  <1> QED
    BY <1>2, <1>3, <1>5 DEF Kept

\* A request arrives with a key that is live, or is marked; a key that is not yet made
\* is not used.
LEMMA ArriveKept ==
    ASSUME IInv, NEW c \in Callers, Arrive(c)
    PROVE  Kept(c)
  <1>0. Tables /\ Control /\ Well(c)
    BY DEF IInv
  <1>1. PICK q \in Requests(c) :
          /\ q.key \in Callers => answer[q.key] = 201
          /\ req' = [req EXCEPT ![c] = q]
          /\ barred' = IF q.op \in TenantOps \/ LiveKey(q.key) THEN barred ELSE barred \cup {c}
    BY DEF Arrive
  <1>2. at[c] = "idle" /\ at' = [at EXCEPT ![c] = "verify"] /\ UNCHANGED <<db, saw, answer, wrote, bereft, faults>>
    BY DEF Arrive
  <1>3. /\ at'[c] = "verify" /\ req'[c] = q
        /\ \A e \in Callers \ {c} : at'[e] = at[e] /\ req'[e] = req[e]
    BY <1>0, <1>1, <1>2 DEF Control
  <1>4. answer[c] = 0 /\ c \notin wrote /\ c \notin barred
    BY <1>0, <1>2 DEF Control, Well, Barred
  <1>5. MovesOnly(c)
    BY <1>1, <1>2, <1>3 DEF MovesOnly, StaysIssued
  <1>6. Control'
    <2>1. at' \in [Callers -> Labels] /\ req' = [e \in Callers |-> req'[e]] /\ barred' \subseteq Callers
      BY <1>0, <1>1, <1>2 DEF Control, Labels
    <2>2. \A e \in Callers : at'[e] = "done" <=> answer'[e] # 0
      BY <1>0, <1>2, <1>3 DEF Control
    <2> QED
      BY <1>0, <1>2, <2>1, <2>2 DEF Control
  <1>7. Tables' /\ Tame
    BY <1>0, <1>2, <1>5, KeepTables DEF Keep
  <1>8. c \in barred' => q.op \notin TenantOps /\ ~LiveKey(q.key)
    BY <1>1, <1>4
  <1>9. LiveKey(q.key)' = LiveKey(q.key)
    BY <1>2 DEF LiveKey, Of
  <1>10. q.key \in Callers => at'[q.key] = "done"
    BY <1>0, <1>1, <1>2, <1>3 DEF Control
  <1>11. c \in barred' => Barred(c)'
    BY <1>2, <1>3, <1>4, <1>8, <1>9, <1>10 DEF Barred, LiveKey, Of
  <1>12. Well(c)'
    BY <1>2, <1>3, <1>4, <1>11 DEF Well
  <1> QED
    BY <1>5, <1>6, <1>7, <1>12 DEF Kept

\* The invariant is inductive.
LEMMA NextInv == IInv /\ [Next]_vars => IInv'
  <1> SUFFICES ASSUME IInv, [Next]_vars
               PROVE  IInv'
    OBVIOUS
  <1>1. ASSUME NEW c \in Callers, Kept(c) PROVE IInv'
    <2>1. Tables' /\ Tame /\ MovesOnly(c) /\ Control' /\ Well(c)'
      BY <1>1 DEF Kept
    <2>2. ASSUME NEW e \in Callers, e # c PROVE Well(e)'
      BY <2>1, <2>2, OthersStayWell DEF IInv, MovesOnly
    <2> QED
      BY <2>1, <2>2 DEF IInv
  <1>2. CASE \E c \in Callers : Arrive(c) \/ Door(c) \/ Serve(c) \/ DatabaseFails(c)
    BY <1>1, <1>2, ArriveKept, DoorKept, ServeKept, DatabaseFailsKept
  <1>3. CASE UNCHANGED vars
    <2> USE <1>3 DEF vars
    <2>1. Tables'
      BY DEF IInv, Tables, IsRow, Issued, UniqueIds, UniqueSlots, NothingOutlivesOwner, HasBreaker, Same, Of, In
    <2>2. Control'
      BY DEF IInv, Control
    <2>3. \A c \in Callers : Well(c)'
      BY OthersStayWell DEF IInv, Tame, StaysIssued, Same
    <2> QED
      BY <2>1, <2>2, <2>3 DEF IInv
  <1> QED
    BY <1>2, <1>3 DEF Next, Quiet

\* The invariant holds in every reachable state.
LEMMA InvAlways == Spec => []IInv
  BY InitInv, NextInv, PTL DEF Spec

-----------------------------------------------------------------------------
(* The safety properties *)

\* In every interleaving of requests, deletions and faults the tables are well typed,
\* each pipeline has one breaker, no slot is taken twice, and no row is left behind.
THEOREM TablesSoundAlways == Spec => []TablesSound
  BY InvAlways, InvSound, PTL

\* A refusal has changed nothing, and without a database error a request is answered
\* 500 only if a row it had loaded or inserted was deleted under it.
THEOREM AnswersTrueAlways == Spec => []AnswersTrue
  BY InvAlways, InvSound, PTL

\* A request that arrived with a revoked or deleted key is let through in no
\* interleaving.
THEOREM RevokedIsRefusedAlways == Spec => []RevokedIsRefused
  BY InvAlways, InvSound, PTL

-----------------------------------------------------------------------------
(* What a step may do *)

\* A tenant's estate is as it was if no row of it came or went.
LEMMA EstateSame ==
    ASSUME NEW t, \A r \in db \ db' : r \notin Estate(t), \A r \in db' \ db : r \notin Estate(t)'
    PROVE  Estate(t)' = Estate(t)
  <1>1. Of("tenant", t)' = Of("tenant", t)
    BY DEF Estate, Of
  <1>2. In("pipeline", t)' = In("pipeline", t) /\ In("key", t)' = In("key", t)
    BY DEF Estate, In
  <1> DEFINE below == {r \in db : \E p \in In("pipeline", t) :
                                    r.kind \in {"breaker", "step", "schedule"} /\ r.of = p.id}
  <1>3. below \subseteq Estate(t) /\ below' \subseteq Estate(t)'
    BY DEF Estate
  <1>4. below' = below
    BY <1>2, <1>3
  <1> QED
    BY <1>1, <1>2, <1>4 DEF Estate

\* Where a row of an estate hangs.
LEMMA EstateMember ==
    ASSUME NEW t, NEW r \in Estate(t)
    PROVE  /\ r \in db
           /\ \/ r.kind = "tenant" /\ r.id = t
              \/ r.kind \in {"key", "pipeline"} /\ r.of = t
              \/ /\ r.kind \in {"breaker", "step", "schedule"}
                 /\ \E p \in db : p.kind = "pipeline" /\ p.id = r.of /\ p.of = t
  BY DEF Estate, Of, In

\* A request creates rows of its own tenant.
LEMMA AddsForItsTenant ==
    ASSUME IInv, NEW c \in Callers, Adds(c), req[c].op \notin TenantOps, NEW t, t # req[c].tenant
    PROVE  Estate(t)' = Estate(t)
  <1>0. Tables /\ Control /\ Well(c) /\ Tables'
    BY AddsKept DEF IInv, Kept
  <1>1. /\ at[c] = "insert" /\ req[c].op \in Creations /\ db' = db \cup New(c)
        /\ req[c].op \in PipelineOps => OwnsPipeline(c)
    BY DEF Adds, Commit
  <1>2. req[c].op # "create_tenant"
    BY DEF TenantOps
  <1>3. \A r \in db : r.id # c
    BY <1>0, <1>1 DEF Tables, Issued
  <1>4. ASSUME NEW r \in New(c), r \in Estate(t)' PROVE FALSE
    <2>1. \/ r.kind = "tenant" /\ r.id = t
          \/ r.kind \in {"key", "pipeline"} /\ r.of = t
          \/ /\ r.kind \in {"breaker", "step", "schedule"}
             /\ \E p \in db' : p.kind = "pipeline" /\ p.id = r.of /\ p.of = t
      BY <1>4 DEF Estate, Of, In
    <2>2. CASE req[c].op = "create_api_key"
      BY <1>4, <2>1, <2>2 DEF New, Row, Estate, Of, In
    <2>3. CASE req[c].op = "create_pipeline"
      <3>1. New(c) = {Row("pipeline", c, req[c].tenant, "-"), Row("breaker", c, c, "-")}
        BY <2>3 DEF New
      <3> QED
        BY <1>1, <1>3, <1>4, <2>1, <3>1 DEF Row
    <2>4. CASE req[c].op \in {"create_pipeline_step", "create_schedule"}
      <3>1. \A q \in New(c) : q.kind \in {"step", "schedule"} /\ q.of = req[c].pipeline
        BY <2>4 DEF New, Row
      <3>2. OwnsPipeline(c)
        BY <1>1, <2>4 DEF PipelineOps
      <3> QED
        BY <1>1, <1>4, <2>1, <3>1, <3>2 DEF OwnsPipeline
    <2> QED
      BY <1>1, <1>2, <2>2, <2>3, <2>4 DEF Creations
  <1> QED
    BY <1>1, <1>4, EstateSame

\* It updates and revokes rows of its own tenant.
LEMMA ChangesForItsTenant ==
    ASSUME IInv, NEW c \in Callers, Changes(c), req[c].op \notin TenantOps, NEW t, t # req[c].tenant
    PROVE  Estate(t)' = Estate(t)
  <1>0. Tables /\ Tables'
    BY ChangesKept DEF IInv, Kept
  <1>1. PICK s \in db : MayChange(c, s) /\ \E u : Rewrites(s, u) /\ Commit(c, (db \ {s}) \cup {u})
    BY DEF Changes
  <1>2. PICK u : Rewrites(s, u) /\ db' = (db \ {s}) \cup {u}
    BY <1>1 DEF Commit
  <1>3. /\ u.kind = s.kind /\ u.id = s.id /\ u.of = s.of
        /\ \A p \in db' : \E q \in db : q.kind = p.kind /\ q.id = p.id /\ q.of = p.of
    BY <1>2 DEF Rewrites, Same
  <1>4. \/ s.kind \in {"key", "pipeline"} /\ s.of = req[c].tenant
        \/ s.kind \in {"step", "schedule"} /\ s.of = req[c].pipeline /\ OwnsPipeline(c)
    BY <1>1 DEF MayChange
  <1>5. s \notin Estate(t)
    <2> SUFFICES ASSUME s \in Estate(t) PROVE FALSE
      OBVIOUS
    <2> QED
      BY <1>0, <1>4, EstateMember DEF OwnsPipeline
  <1>6. u \notin Estate(t)'
    <2> SUFFICES ASSUME u \in Estate(t)' PROVE FALSE
      OBVIOUS
    <2>1. \/ u.kind = "tenant" /\ u.id = t
          \/ u.kind \in {"key", "pipeline"} /\ u.of = t
          \/ /\ u.kind \in {"breaker", "step", "schedule"}
             /\ \E p \in db' : p.kind = "pipeline" /\ p.id = u.of /\ p.of = t
      BY DEF Estate, Of, In
    <2>2. CASE s.kind \in {"key", "pipeline"} /\ s.of = req[c].tenant
      BY <1>3, <2>1, <2>2
    <2>3. CASE s.kind \in {"step", "schedule"} /\ s.of = req[c].pipeline /\ OwnsPipeline(c)
      BY <1>3, <2>1, <2>3 DEF OwnsPipeline
    <2> QED
      BY <1>4, <2>2, <2>3
  <1> QED
    BY <1>2, <1>5, <1>6, EstateSame

\* It deletes rows of its own tenant.
LEMMA DropsForItsTenant ==
    ASSUME IInv, NEW c \in Callers, Drops(c), req[c].op \notin TenantOps, NEW t, t # req[c].tenant
    PROVE  Estate(t)' = Estate(t)
  <1>0. Tables
    BY DEF IInv
  <1>1. PICK rows \in SUBSET db :
          /\ db' = db \ Below(rows)
          /\ \A r \in rows : r.kind \in {"tenant", "pipeline", "step", "schedule"} /\ MayChange(c, r)
    BY DEF Drops, Commit
  <1>2. \A r \in rows : \/ r.kind = "pipeline" /\ r.of = req[c].tenant
                        \/ r.kind \in {"step", "schedule"} /\ r.of = req[c].pipeline /\ OwnsPipeline(c)
    BY <1>1 DEF MayChange
  \* What hangs below these rows hangs below a pipeline of the tenant.
  <1>3. \A r \in Below(rows) : r.kind \in {"pipeline", "breaker", "step", "schedule"}
    <2> DEFINE Children(ps) == {r \in db : \E p \in ps : r.kind # "tenant" /\ Parent[r.kind] = p.kind /\ r.of = p.id}
               one == Children(rows)
               two == Children(one)
    <2>1. Below(rows) = (rows \cup one) \cup two
      BY DEF Below
    <2>2. \A r \in db : r.kind \in Kinds
      BY <1>0 DEF Tables, IsRow
    <2>3. \A r \in one : r.kind \in {"breaker", "step", "schedule"}
      BY <1>2, <2>2 DEF Kinds, Parent
    <2>4. \A r \in two : r.kind \in {"breaker", "step", "schedule"}
      <3> HIDE DEF one
      <3> QED
        BY <2>2, <2>3 DEF Kinds, Parent
    <2> HIDE DEF one, two
    <2> QED
      BY <1>2, <2>1, <2>3, <2>4
  <1>4. ASSUME NEW r \in Below(rows), r \in Estate(t) PROVE FALSE
    <2>1. \/ r.kind \in {"key", "pipeline"} /\ r.of = t
          \/ /\ r.kind \in {"breaker", "step", "schedule"}
             /\ \E p \in db : p.kind = "pipeline" /\ p.id = r.of /\ p.of = t
      BY <1>0, <1>3, <1>4, EstateMember
    <2>2. CASE r \in rows
      BY <1>2, <2>1, <2>2 DEF OwnsPipeline
    <2>3. CASE r \notin rows
      <3>1. PICK p \in Below(rows) : r.kind # "tenant" /\ Parent[r.kind] = p.kind /\ r.of = p.id
        BY <1>0, <2>3, BelowCloses
      <3>2. p.kind = "pipeline" /\ p \in db /\ r.kind \in {"breaker", "step", "schedule"}
        BY <1>0, <1>3, <3>1, BelowCloses DEF Parent
      <3>3. p \in rows
        <4>1. p \notin rows => \E q \in Below(rows) : Parent[p.kind] = q.kind
          BY <1>0, <3>1, BelowCloses
        <4> QED
          BY <1>3, <3>2, <4>1 DEF Parent
      <3>4. p.of = req[c].tenant
        BY <1>2, <3>2, <3>3
      <3> QED
        BY <1>0, <2>1, <3>1, <3>2, <3>4 DEF Tables, UniqueIds, Same
    <2> QED
      BY <2>2, <2>3
  <1>5. \A r \in db \ db' : r \notin Estate(t)
    BY <1>1, <1>4
  <1>6. \A r \in db' \ db : r \notin Estate(t)'
    BY <1>1
  <1> QED
    BY <1>5, <1>6, EstateSame

\* Only the handlers write.
LEMMA OnlyHandlersWrite ==
    ASSUME IInv, [Next]_vars, db' # db
    PROVE  \E c \in Callers : /\ Serve(c) /\ (Adds(c) \/ Changes(c) \/ Drops(c))
                              /\ at[c] \in {"insert", "update", "revoke", "delete"} /\ at'[c] # at[c]
                              /\ c \notin barred
  <1>1. PICK c \in Callers : Serve(c)
    BY DEF Next, Arrive, Door, DatabaseFails, Quiet, vars, Keep
  <1>2. Adds(c) \/ Changes(c) \/ Drops(c)
    BY <1>1, ServeForms DEF Forms, Advances, Holds, Replies, Skips, Keep
  <1>3. at[c] \in {"insert", "update", "revoke", "delete"}
    BY <1>2 DEF Adds, Changes, Drops
  <1>4. at'[c] \in {"refresh", "done"}
    BY <1>2 DEF Adds, Changes, Drops, Committed, Goto, Done, IInv, Control
  <1>5. c \notin barred
    BY <1>3, BusyFacts DEF IInv
  <1> QED
    BY <1>1, <1>2, <1>3, <1>4, <1>5

\* While a tenant is there, so is the key of a request that came through the door for it.
LEMMA HoldsItsKey ==
    ASSUME NEW c \in Callers, KeyOfItsTenant(c), Of("tenant", req[c].tenant) # {}
    PROVE  HoldsKeyOf(c, req[c].tenant)
  BY DEF KeyOfItsTenant, HoldsKeyOf, Of

\* No row of a tenant's estate is there without the tenant.
LEMMA EstateHasTenant ==
    ASSUME Tables, NEW t, NEW r \in Estate(t)
    PROVE  Of("tenant", t) # {}
  <1>1. CASE r.kind = "tenant" /\ r.id = t
    BY <1>1, EstateMember DEF Of
  <1>2. CASE r.kind \in {"key", "pipeline"} /\ r.of = t
    BY <1>2, EstateMember DEF Tables, NothingOutlivesOwner, Parent
  <1>3. CASE \E p \in db : p.kind = "pipeline" /\ p.id = r.of /\ p.of = t
    BY <1>3 DEF Tables, NothingOutlivesOwner, Parent
  <1> QED
    BY <1>1, <1>2, <1>3, EstateMember

\* What belongs to a tenant is changed only by the admin's requests about tenants, and
\* by requests that came through the door with a key that this tenant owns, whatever
\* tenant, pipeline or row their path names.
THEOREM ActsForItsTenantAlways == Spec => ActsForItsTenant
  <1>1. IInv /\ [Next]_vars =>
          [\A t \in TenantIds : Estate(t) # Estate(t)' =>
             \E c \in Callers : /\ at[c] \notin {"idle", "verify", "done"} /\ at'[c] # at[c]
                                /\ HoldsKeyOf(c, t) \/ (req[c].key = Admin /\ req[c].op \in TenantOps)]_vars
    <2> SUFFICES ASSUME IInv, [Next]_vars, NEW t \in TenantIds, Estate(t) # Estate(t)'
                 PROVE  \E c \in Callers :
                           /\ at[c] \notin {"idle", "verify", "done"} /\ at'[c] # at[c]
                           /\ HoldsKeyOf(c, t) \/ (req[c].key = Admin /\ req[c].op \in TenantOps)
      OBVIOUS
    <2>1. db' # db
      BY EstateSame
    <2>2. PICK c \in Callers : /\ Adds(c) \/ Changes(c) \/ Drops(c)
                               /\ at[c] \in {"insert", "update", "revoke", "delete"} /\ at'[c] # at[c]
      BY <2>1, OnlyHandlersWrite
    <2>3. /\ req[c].op \in TenantOps => req[c].key = Admin
          /\ req[c].op \notin TenantOps => KeyOfItsTenant(c)
      BY <2>2, BusyFacts DEF IInv
    <2>4. ASSUME req[c].op \notin TenantOps PROVE HoldsKeyOf(c, t)
      <3>1. req[c].tenant = t
        BY <2>2, <2>4, AddsForItsTenant, ChangesForItsTenant, DropsForItsTenant
      <3>2. Of("tenant", t) # {}
        BY DEF TenantIds, Of
      <3> QED
        BY <2>3, <2>4, <3>1, <3>2, HoldsItsKey
    <2> QED
      BY <2>2, <2>3, <2>4
  <1> QED
    BY <1>1, InvAlways, PTL DEF Spec, ActsForItsTenant

\* A request that is not the admin's is given rows of the one tenant that owns its key,
\* however the ids in its path are chosen and whatever other requests do meanwhile.
THEOREM ReadsOnlyItsOwnAlways == Spec => ReadsOnlyItsOwn
  <1>1. IInv /\ [Next]_vars =>
          [\A c \in Callers : at[c] # "done" /\ at'[c] = "done" /\ req[c].op \notin TenantOps =>
             saw'[c] \subseteq UNION {Estate(k.of) : k \in Of("key", req[c].key)}]_vars
    <2> SUFFICES ASSUME IInv, [Next]_vars, NEW c \in Callers,
                        at[c] # "done", at'[c] = "done", req[c].op \notin TenantOps
                 PROVE  saw'[c] \subseteq UNION {Estate(k.of) : k \in Of("key", req[c].key)}
      OBVIOUS
    <2>1. \E e \in Callers : Arrive(e) \/ Door(e) \/ Serve(e) \/ DatabaseFails(e)
      BY DEF Next, Quiet, vars
    <2>2. Arrive(c) \/ Door(c) \/ Serve(c) \/ DatabaseFails(c)
      BY <2>1, ArriveKept, DoorKept, ServeKept, DatabaseFailsKept DEF Kept, MovesOnly
    <2>3. CASE Arrive(c)
      BY <2>3 DEF Arrive, IInv, Control
    <2>4. CASE Door(c)
      <3>1. (\E code : Done(c, code, {})) \/ Goto(c, "load", {})
        BY <2>4 DEF Door, verify_admin, verify_tenant
      <3> QED
        BY <3>1 DEF Goto, Done, IInv, Control
    <2>5. CASE DatabaseFails(c)
      BY <2>5 DEF DatabaseFails, Done, IInv, Control
    <2>6. CASE Serve(c)
      <3>1. Forms(c)
        BY <2>6, ServeForms
      <3>2. CASE Replies(c)
        <4> SUFFICES ASSUME NEW r \in saw'[c]
                     PROVE  \E k \in Of("key", req[c].key) : r \in Estate(k.of)
          OBVIOUS
        <4>1. r \in Estate(req[c].tenant)
          BY <3>2 DEF Replies, Done, IInv, Control
        <4>2. KeyOfItsTenant(c)
          BY <3>2, BusyFacts DEF Replies, IInv
        <4>3. Of("tenant", req[c].tenant) # {}
          BY <4>1, EstateHasTenant DEF IInv
        <4> QED
          BY <4>1, <4>2, <4>3, HoldsItsKey DEF HoldsKeyOf
      <3>3. CASE ~Replies(c)
        <4>1. (\E code : Done(c, code, {})) \/ \E label \in Labels \ {"done"} : \E rows : Goto(c, label, rows)
          BY <3>1, <3>3 DEF Forms, Advances, Holds, Skips, Adds, Changes, Drops, Committed, Labels
        <4> QED
          BY <4>1 DEF Goto, Done, IInv, Control
      <3> QED
        BY <3>2, <3>3
    <2> QED
      BY <2>2, <2>3, <2>4, <2>5, <2>6
  <1> QED
    BY <1>1, InvAlways, PTL DEF Spec, ReadsOnlyItsOwn

\* A tenant whose keys are all revoked gets a live one only from a request with one of
\* its keys that had arrived before the last of them was revoked.
THEOREM LockedOutStaysAlways == Spec => LockedOutStays
  <1>1. IInv /\ [Next]_vars =>
          [\A t \in TenantIds : ~HasKey(t) /\ HasKey(t)' =>
             \E c \in Callers \ barred : /\ at[c] = "insert" /\ at'[c] # "insert"
                                         /\ req[c].op = "create_api_key" /\ HoldsKeyOf(c, t)]_vars
    <2> SUFFICES ASSUME IInv, [Next]_vars, NEW t \in TenantIds, ~HasKey(t), HasKey(t)'
                 PROVE  \E c \in Callers \ barred : /\ at[c] = "insert" /\ at'[c] # "insert"
                                                    /\ req[c].op = "create_api_key" /\ HoldsKeyOf(c, t)
      OBVIOUS
    <2>1. PICK k \in db' \ db : k.kind = "key" /\ k.of = t /\ k.active = "on"
      BY DEF HasKey, In
    <2>2. PICK c \in Callers : /\ Adds(c) \/ Changes(c) \/ Drops(c)
                               /\ at[c] \in {"insert", "update", "revoke", "delete"} /\ at'[c] # at[c]
                               /\ c \notin barred
      BY <2>1, OnlyHandlersWrite
    <2>3. CASE Adds(c)
      <3>1. at[c] = "insert" /\ req[c].op \in Creations /\ k \in New(c)
        BY <2>1, <2>3 DEF Adds, Commit
      <3>2. req[c].op \in {"create_tenant", "create_api_key"}
        BY <2>1, <3>1 DEF New, Creations, Row
      <3>3. req[c].op # "create_tenant"
        <4> SUFFICES ASSUME req[c].op = "create_tenant" PROVE FALSE
          OBVIOUS
        <4>1. k.of = c
          BY <2>1, <3>1 DEF New, Row
        <4>2. \E r \in db : r.id = c
          BY <2>1, <4>1 DEF TenantIds
        <4> QED
          BY <3>1, <4>2 DEF IInv, Tables, Issued
      <3>4. HoldsKeyOf(c, t)
        <4>1. req[c].op \notin TenantOps /\ req[c].tenant = t
          BY <2>1, <3>1, <3>2, <3>3 DEF New, Row, TenantOps
        <4>2. KeyOfItsTenant(c)
          BY <2>2, <4>1, BusyFacts DEF IInv
        <4>3. Of("tenant", t) # {}
          BY DEF TenantIds, Of
        <4> QED
          BY <4>1, <4>2, <4>3, HoldsItsKey
      <3> QED
        BY <2>2, <3>1, <3>2, <3>3, <3>4
    <2>4. CASE Changes(c)
      <3>1. PICK s \in db : \E u : /\ Rewrites(s, u) /\ db' = (db \ {s}) \cup {u}
                                   /\ s.kind = "key" => u.active = "off"
        BY <2>4 DEF Changes, Commit
      <3> QED
        BY <2>1, <3>1 DEF Rewrites, Same
    <2>5. CASE Drops(c)
      BY <2>1, <2>5 DEF Drops, Commit
    <2> QED
      BY <2>2, <2>3, <2>4, <2>5
  <1> QED
    BY <1>1, InvAlways, PTL DEF Spec, LockedOutStays
=============================================================================
