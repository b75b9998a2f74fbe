-------------------------- MODULE MigrationsProofs --------------------------
(***************************************************************************)
(* Migrations for any number of init containers and of failures, or for a  *)
(* process alone with a database at any version that runs scripts up and   *)
(* down in any order: what one script does, TLC evaluates (KnownAssumption *)
(* and ScriptsAssumption); what processes that run them at the same time   *)
(* or fail between them leave behind, is proved here.                      *)
(*                                                                         *)
(* The argument: the version rows are those of one version v, and the      *)
(* tables are known at v (Recorded), or no version was ever recorded.      *)
(* A process that is alone runs the script next to the version it has      *)
(* read.  Init containers may run one that another has run meanwhile, but  *)
(* from version 6 on that fails.                                           *)
(***************************************************************************)
EXTENDS Migrations, TLAPS

Recorded(v) == applied = Versions(v) /\ db \in KnownAt(v)

Unrecorded == applied = Null /\ db \in {Null, NoTables}

\* What process r knows if nobody else is about.
KnowsAlone(r) ==
  /\ pc[r] \in {"version", "create", "script"} => db # Null
  /\ pc[r] = "create" => applied = Null
  /\ pc[r] = "script" => applied = Versions(read[r])
  /\ pc[r] = "script" /\ cmd[r] = "up" => read[r] < Latest
  /\ pc[r] = "script" /\ cmd[r] # "up" => cmd[r] = "down" /\ read[r] >= 1

Alone ==
  /\ \A r, s \in Runs : pc[r] # "away" /\ pc[s] # "away" => r = s
  /\ \A r \in Runs : KnowsAlone(r)

\* What init container r knows beside others: a version that was current.
KnowsBeside(r, v) ==
  /\ r \in Containers
  /\ pc[r] # "create"
  /\ pc[r] = "script" => read[r] \in 6..v /\ read[r] < Latest

Rollout ==
  \E v \in 6..Latest :
    /\ Recorded(v)
    /\ \A r \in Runs : pc[r] # "away" => KnowsBeside(r, v)

MigrationInv ==
  /\ TypeOK
  /\ Unrecorded \/ \E v \in 0..Latest : Recorded(v)
  /\ \A r \in Containers : cmd[r] = "up" /\ (pc[r] = "done" => Recorded(Latest))
  /\ Alone \/ Rollout

----------------------------------------------------------------------------
(* Version rows *)

LEMMA LatestType == Latest \in Nat \ {0}
BY DEF Latest, Scripts

LEMMA VersionRows ==
  ASSUME NEW v \in 0..Latest
  PROVE  /\ Versions(v) \in Seq(0..Latest) /\ Versions(v) # << >> /\ Versions(v) # Null
         /\ Len(Versions(v)) = v + 1 /\ Versions(v)[Len(Versions(v))] = v
<1>1. Versions(v) \in Seq(0..Latest) /\ Len(Versions(v)) = v + 1
  BY LatestType DEF Versions
<1>2. Versions(v)[v + 1] = v
  BY DEF Versions
<1> QED
  BY <1>1, <1>2, KnownAssumption

LEMMA OneVersion ==
  ASSUME NEW v \in 0..Latest, NEW w \in 0..Latest, Versions(v) = Versions(w)
  PROVE  v = w
BY VersionRows

LEMMA SameVersion ==
  ASSUME NEW u \in 0..Latest, NEW v \in 0..Latest, applied = Versions(u), Recorded(v)
  PROVE  u = v /\ Recorded(u)
BY OneVersion DEF Recorded

LEMMA Later ==
  ASSUME NEW v \in 6..Latest
  PROVE  v \in 0..Latest
BY LatestType

LEMMA NextVersion ==
  ASSUME NEW v \in 1..Latest
  PROVE  Append(Versions(v - 1), v) = Versions(v)
BY DEF Versions

LEMMA NewTableRows == <<0>> = Versions(0)
BY DEF Versions

----------------------------------------------------------------------------
(* One process moves *)

LEMMA KnownDatabase ==
  ASSUME MigrationInv
  PROVE  /\ IsDatabase(NoTables) /\ NoTables # Null
         /\ applied # Null => \E v \in 0..Latest : Recorded(v)
         /\ applied = Null => Unrecorded
         /\ \A v \in 0..Latest : Recorded(v) => /\ applied # Null /\ db # Null /\ IsDatabase(db)
                                               /\ Current = v
<1>1. NoTables \in KnownAt(0) /\ 0 \in 0..Latest
  BY KnownAssumption, LatestType
<1> QED
  BY <1>1, VersionRows, KnownAssumption DEF MigrationInv, Recorded, Unrecorded, Current

\* Only r changes.
OnlyOf(r) ==
  /\ \A s \in Runs \ {r} : pc'[s] = pc[s] /\ read'[s] = read[s] /\ cmd'[s] = cmd[s]
  /\ pc[r] # "away" /\ pc'[r] # "away"
  /\ r \in Containers => cmd'[r] = "up"

GoodAlone(r) ==
  /\ KnowsAlone(r)'
  /\ Unrecorded' \/ \E v \in 0..Latest : Recorded(v)'
  /\ r \in Containers /\ pc'[r] = "done" => Recorded(Latest)'

GoodBeside(r) ==
  \A v \in 6..Latest : Recorded(v) /\ KnowsBeside(r, v) =>
    \E w \in v..Latest :
      /\ Recorded(w)' /\ KnowsBeside(r, w)'
      /\ pc'[r] = "done" => w = Latest

LEMMA StepKeeps ==
  ASSUME MigrationInv, TypeOK', NEW r \in Runs, OnlyOf(r),
         Alone => GoodAlone(r), GoodBeside(r)
  PROVE  MigrationInv'
<1>1. CASE Alone
  <2>1. \A s \in Runs \ {r} : pc[s] = "away" /\ pc'[s] = "away"
    BY <1>1 DEF Alone, OnlyOf
  <2>2. Alone'
    BY <1>1, <2>1 DEF Alone, GoodAlone, KnowsAlone
  <2>3. \A s \in Containers : cmd'[s] = "up" /\ (pc'[s] = "done" => Recorded(Latest)')
    BY <1>1, <2>1, RunsAssumption DEF GoodAlone, MigrationInv, OnlyOf
  <2> QED
    BY <1>1, <2>2, <2>3 DEF GoodAlone, MigrationInv
<1>2. CASE Rollout
  <2>1. PICK v \in 6..Latest : /\ Recorded(v)
                               /\ \A s \in Runs : pc[s] # "away" => KnowsBeside(s, v)
    BY <1>2 DEF Rollout
  <2>2. PICK w \in v..Latest : /\ Recorded(w)' /\ KnowsBeside(r, w)'
                               /\ pc'[r] = "done" => w = Latest
    BY <2>1 DEF OnlyOf, GoodBeside
  <2>3. w \in 6..Latest /\ w \in 0..Latest /\ v \in 0..Latest /\ Latest \in 0..Latest
    BY LatestType
  <2>4. \A s \in Runs : pc'[s] # "away" => KnowsBeside(s, w)'
    BY <2>1, <2>2, <2>3 DEF OnlyOf, KnowsBeside
  <2>5. \A s \in Containers \ {r} : pc'[s] = "done" => w = Latest
    <3> SUFFICES ASSUME NEW s \in Containers \ {r}, pc'[s] = "done"
                 PROVE  w = Latest
      OBVIOUS
    <3>1. Recorded(Latest)
      BY RunsAssumption DEF OnlyOf, MigrationInv
    <3>2. v = Latest
      BY <2>1, <2>3, <3>1, OneVersion DEF Recorded
    <3> QED
      BY <2>2, <3>2, LatestType
  <2>6. \A s \in Containers : cmd'[s] = "up" /\ (pc'[s] = "done" => Recorded(Latest)')
    BY <2>2, <2>5, RunsAssumption DEF MigrationInv, OnlyOf
  <2> QED
    BY <2>2, <2>3, <2>4, <2>6 DEF MigrationInv, Rollout
<1> QED
  BY <1>1, <1>2 DEF MigrationInv

\* Neither the tables nor the version rows change.
LEMMA ReadsKeep ==
  ASSUME MigrationInv, TypeOK', NEW r \in Runs, OnlyOf(r), UNCHANGED <<db, applied>>,
         Alone => KnowsAlone(r)',
         \A v \in 6..Latest : Recorded(v) /\ KnowsBeside(r, v) => KnowsBeside(r, v)',
         pc'[r] = "done" => Recorded(Latest)
  PROVE  MigrationInv'
<1>1. \A v : Recorded(v)' <=> Recorded(v)
  BY DEF Recorded
<1>2. Unrecorded' <=> Unrecorded
  BY DEF Unrecorded
<1>3. Alone => GoodAlone(r)
  BY <1>1, <1>2 DEF GoodAlone, MigrationInv
<1>4. ASSUME NEW v \in 6..Latest, Recorded(v), KnowsBeside(r, v)
      PROVE  pc'[r] = "done" => v = Latest
  <2>1. r \in Containers /\ v \in 0..Latest /\ Latest \in 0..Latest
    BY <1>4, LatestType DEF KnowsBeside
  <2> QED
    BY <1>4, <2>1, OneVersion DEF Recorded
<1>5. GoodBeside(r)
  BY <1>1, <1>4 DEF GoodBeside
<1> QED
  BY <1>3, <1>5, StepKeeps

----------------------------------------------------------------------------
(* The actions *)

LEMMA StartKeeps ==
  ASSUME MigrationInv, NEW r \in Runs, Start(r)
  PROVE  MigrationInv'
<1>1. TypeOK'
  BY DEF Start, MigrationInv, TypeOK, Commands
<1>2. pc'[r] = "schema" /\ OnlyOf(r) /\ UNCHANGED <<db, applied>>
  BY DEF Start, MigrationInv, TypeOK, OnlyOf
<1>3. KnowsAlone(r)' /\ \A v : KnowsBeside(r, v) => KnowsBeside(r, v)'
  BY <1>2 DEF KnowsAlone, KnowsBeside
<1> QED
  BY <1>1, <1>2, <1>3, ReadsKeep

LEMMA StopKeeps ==
  ASSUME MigrationInv, NEW r \in Runs, Stop(r)
  PROVE  MigrationInv'
<1>1. TypeOK'
  BY LatestType, RunsAssumption DEF Stop, MigrationInv, TypeOK
<1>2. pc'[r] = "off" /\ OnlyOf(r) /\ UNCHANGED <<db, applied>>
  BY DEF Stop, MigrationInv, TypeOK, OnlyOf
<1>3. KnowsAlone(r)' /\ \A v : KnowsBeside(r, v) => KnowsBeside(r, v)'
  BY <1>2 DEF KnowsAlone, KnowsBeside
<1> QED
  BY <1>1, <1>2, <1>3, ReadsKeep

\* Where a process goes on to a step other than "script", types are kept.
LEMMA GotoTypes ==
  ASSUME TypeOK, NEW r \in Runs, NEW v \in 0..Latest,
         NEW step \in {"off", "version", "create", "script", "done"}, Goto(r, step, v),
         step = "script" => v \in IF cmd[r] = "up" THEN 0..Latest - 1 ELSE 1..Latest,
         db' # Null => IsDatabase(db'),
         applied' # Null => db' # Null /\ applied' \in Seq(0..Latest) /\ applied' # << >>
  PROVE  /\ TypeOK' /\ pc'[r] = step /\ read'[r] = v /\ cmd' = cmd
         /\ \A s \in Runs \ {r} : pc'[s] = pc[s] /\ read'[s] = read[s]
<1>1. /\ pc' = [pc EXCEPT ![r] = step] /\ read' = [read EXCEPT ![r] = v]
      /\ cmd' = cmd /\ stops' = stops
  BY DEF Goto
<1> QED
  BY <1>1 DEF TypeOK

LEMMA FatalKeeps ==
  ASSUME MigrationInv, NEW r \in Runs, pc[r] # "away", Fatal(r), UNCHANGED <<db, applied>>
  PROVE  MigrationInv'
<1>1. TypeOK' /\ pc'[r] = "off" /\ OnlyOf(r)
  BY GotoTypes, LatestType DEF Fatal, MigrationInv, TypeOK, OnlyOf
<1>2. KnowsAlone(r)' /\ \A v : KnowsBeside(r, v) => KnowsBeside(r, v)'
  BY <1>1 DEF KnowsAlone, KnowsBeside
<1> QED
  BY <1>1, <1>2, ReadsKeep

LEMMA CreateSchemaKeeps ==
  ASSUME MigrationInv, NEW r \in Runs, CreateSchema(r)
  PROVE  MigrationInv'
<1>1. /\ applied' = applied /\ db' # Null /\ (db # Null => db' = db)
      /\ db = Null => db' = NoTables /\ applied = Null
  BY KnownDatabase DEF CreateSchema, Unrecorded
<1>2. TypeOK' /\ pc'[r] = "version" /\ OnlyOf(r)
  BY <1>1, GotoTypes, KnownDatabase, LatestType
     DEF CreateSchema, MigrationInv, TypeOK, OnlyOf
<1>3. KnowsAlone(r)' /\ \A v : KnowsBeside(r, v) => KnowsBeside(r, v)'
  BY <1>1, <1>2 DEF KnowsAlone, KnowsBeside
<1>4. CASE db # Null
  BY <1>1, <1>2, <1>3, <1>4, ReadsKeep
<1>5. CASE db = Null
  <2>1. GoodAlone(r)
    BY <1>1, <1>2, <1>3, <1>5 DEF GoodAlone, Unrecorded
  <2>2. \A v \in 6..Latest : ~Recorded(v)
    BY <1>5, KnownDatabase, LatestType
  <2> QED
    BY <1>2, <2>1, <2>2, StepKeeps DEF GoodBeside
<1> QED
  BY <1>4, <1>5

LEMMA ChooseKeeps ==
  ASSUME MigrationInv, NEW r \in Runs, pc[r] = "version", cmd[r] \in {"up", "down"},
         NEW v \in 0..Latest, Recorded(v), Choose(r, v), UNCHANGED <<db, applied>>
  PROVE  MigrationInv'
<1>1. db # Null /\ (db # Null => IsDatabase(db)) /\ applied = Versions(v) /\ TypeOK
  BY KnownDatabase DEF Recorded, MigrationInv
<1>2. CASE Fatal(r)
  BY <1>2, FatalKeeps
<1>3. CASE Finish(r) /\ v = Latest
  <2>1. TypeOK' /\ pc'[r] = "done" /\ OnlyOf(r)
    BY <1>1, <1>3, GotoTypes, LatestType DEF Finish, MigrationInv, TypeOK, OnlyOf
  <2>2. KnowsAlone(r)' /\ \A u : KnowsBeside(r, u) => KnowsBeside(r, u)'
    BY <2>1 DEF KnowsAlone, KnowsBeside
  <2> QED
    BY <1>3, <2>1, <2>2, ReadsKeep
<1>4. CASE Goto(r, "script", v) /\ IF cmd[r] = "up" THEN v # Latest ELSE v # 0
  <2>1. /\ TypeOK' /\ pc'[r] = "script" /\ read'[r] = v /\ cmd' = cmd /\ OnlyOf(r)
        /\ IF cmd[r] = "up" THEN v < Latest ELSE v >= 1
    BY <1>1, <1>4, GotoTypes, LatestType DEF MigrationInv, TypeOK, OnlyOf
  <2>2. KnowsAlone(r)'
    BY <1>1, <2>1 DEF KnowsAlone
  <2>3. ASSUME NEW u \in 6..Latest, Recorded(u), KnowsBeside(r, u)
        PROVE  KnowsBeside(r, u)'
    <3>1. u = v
      BY <1>1, <2>3, SameVersion, Later
    <3>2. cmd[r] = "up"
      BY <2>3 DEF KnowsBeside, MigrationInv
    <3> QED
      BY <2>1, <2>3, <3>1, <3>2 DEF KnowsBeside
  <2> QED
    BY <2>1, <2>2, <2>3, ReadsKeep
<1> QED
  BY <1>2, <1>3, <1>4 DEF Choose

LEMMA ReadVersionKeeps ==
  ASSUME MigrationInv, NEW r \in Runs, ReadVersion(r)
  PROVE  MigrationInv'
<1>1. CASE Fatal(r)
  BY <1>1, FatalKeeps DEF ReadVersion
<1>2. CASE Goto(r, "create", 0) /\ applied = Null
  <2>1. TypeOK' /\ pc'[r] = "create" /\ OnlyOf(r) /\ UNCHANGED <<db, applied>>
    BY <1>2, GotoTypes, LatestType DEF ReadVersion, MigrationInv, TypeOK, OnlyOf
  <2>2. Alone => KnowsAlone(r)'
    BY <1>2, <2>1 DEF Alone, KnowsAlone, ReadVersion
  <2>3. \A v \in 6..Latest : ~Recorded(v)
    BY <1>2, KnownDatabase, LatestType
  <2> QED
    BY <2>1, <2>2, <2>3, ReadsKeep
<1>3. CASE /\ cmd[r] \in {"up", "down"} /\ applied # Null
           /\ Choose(r, Current)
  <2>1. PICK v \in 0..Latest : Recorded(v) /\ Current = v
    BY <1>3, KnownDatabase
  <2> QED
    BY <1>3, <2>1, ChooseKeeps DEF ReadVersion
<1> QED
  BY <1>1, <1>2, <1>3 DEF ReadVersion

LEMMA CreateVersionTableKeeps ==
  ASSUME MigrationInv, NEW r \in Runs, CreateVersionTable(r)
  PROVE  MigrationInv'
<1>1. CASE Fatal(r) /\ applied' = applied
  BY <1>1, FatalKeeps DEF CreateVersionTable
<1>2. CASE applied = Null /\ applied' = <<0>> /\ Choose(r, 0)
  <2>1. Alone /\ 0 \in 0..Latest /\ 0 # Latest
    BY <1>2, KnownDatabase, LatestType DEF MigrationInv, Rollout
  <2>2. db = NoTables /\ db' = db /\ db # Null
    BY <1>2, <2>1, KnownDatabase DEF CreateVersionTable, Alone, KnowsAlone, Unrecorded
  <2>3. Recorded(0)'
    BY <1>2, <2>2, NewTableRows, KnownAssumption DEF Recorded
  <2>4. \/ Goto(r, "script", 0) /\ cmd[r] = "up"
        \/ Goto(r, "off", 0)
    BY <1>2, <2>1 DEF Choose, Fatal
  <2>5. /\ TypeOK' /\ read'[r] = 0 /\ cmd' = cmd /\ OnlyOf(r)
        /\ pc'[r] = "off" \/ (pc'[r] = "script" /\ cmd[r] = "up")
    <3>1. applied' \in Seq(0..Latest) /\ applied' # << >>
      BY <1>2, <2>1, NewTableRows, VersionRows
    <3>2. IsDatabase(db') /\ TypeOK /\ pc[r] = "create" /\ 0 \in 0..Latest - 1
      BY <2>2, KnownDatabase, LatestType DEF MigrationInv, CreateVersionTable
    <3> QED
      BY <2>1, <2>2, <2>4, <3>1, <3>2, GotoTypes DEF MigrationInv, OnlyOf
  <2>6. GoodAlone(r)
    BY <1>2, <2>1, <2>2, <2>3, <2>5, NewTableRows, LatestType DEF GoodAlone, KnowsAlone
  <2>7. GoodBeside(r)
    BY <1>2, KnownDatabase, LatestType DEF GoodBeside
  <2> QED
    BY <2>5, <2>6, <2>7, StepKeeps
<1> QED
  BY <1>1, <1>2 DEF CreateVersionTable

\* Whoever can run a script up has read the version the database is at.
LEMMA UpLeads ==
  ASSUME MigrationInv, NEW r \in Runs, pc[r] = "script", cmd[r] = "up",
         NEW e \in Script(db, Scripts[read[r] + 1].up)
  PROVE  /\ read[r] \in 0..Latest - 1 /\ Recorded(read[r])
         /\ e \in KnownAt(read[r] + 1) /\ (HoldsTrips(db) => HoldsTrips(e))
<1>1. PICK n \in 0..Latest - 1 : n = read[r]
  BY LatestType DEF MigrationInv, TypeOK
<1>2. Recorded(n)
  <2>1. CASE Alone
    <3>1. n \in 0..Latest
      BY LatestType
    <3>2. applied = Versions(n)
      BY <1>1, <2>1 DEF Alone, KnowsAlone
    <3>3. PICK v \in 0..Latest : Recorded(v)
      BY <3>1, <3>2, VersionRows, KnownDatabase
    <3> QED
      BY <3>1, <3>2, <3>3, SameVersion
  <2>2. CASE Rollout
    <3>1. PICK v \in 6..Latest : Recorded(v) /\ n \in 6..v
      BY <1>1, <2>2 DEF Rollout, KnowsBeside
    <3>2. n < v => v \in 7..Latest /\ n + 1 \in 7..v
      BY <1>1, <3>1, LatestType
    <3>3. ~(n < v)
      BY <1>1, <3>1, <3>2, ScriptsAssumption DEF Recorded
    <3> QED
      BY <3>1, <3>3, LatestType
  <2> QED
    BY <2>1, <2>2 DEF MigrationInv
<1>3. n + 1 \in 1..Latest /\ (n + 1) - 1 = n
  BY LatestType
<1>4. db \in KnownAt((n + 1) - 1) /\ e \in Script(db, Scripts[n + 1].up)
  BY <1>1, <1>2, <1>3 DEF Recorded
<1>5. e \in KnownAt(n + 1) /\ (HoldsTrips(db) => HoldsTrips(e))
  BY <1>3, <1>4, ScriptsAssumption
<1> QED
  BY <1>1, <1>2, <1>5

LEMMA ApplyUpKeeps ==
  ASSUME MigrationInv, NEW r \in Runs, ApplyUp(r)
  PROVE  MigrationInv'
<1>1. CASE Fatal(r) /\ UNCHANGED <<db, applied>>
  BY <1>1, FatalKeeps DEF ApplyUp
<1>2. CASE /\ db' \in Script(db, Scripts[read[r] + 1].up)
           /\ applied' = Append(applied, read[r] + 1)
           /\ Goto(r, "version", 0)
  <2>1. PICK n \in 0..Latest - 1 : n = read[r]
    BY <1>2, UpLeads DEF ApplyUp
  <2>2. Recorded(n) /\ db' \in KnownAt(n + 1) /\ n + 1 \in 1..Latest /\ (n + 1) - 1 = n
    <3>1. \A e \in Script(db, Scripts[read[r] + 1].up) :
            Recorded(read[r]) /\ e \in KnownAt(read[r] + 1)
      BY UpLeads DEF ApplyUp
    <3> QED
      BY <1>2, <2>1, <3>1, LatestType
  <2>3. applied' = Versions(n + 1)
    BY <1>2, <2>1, <2>2, NextVersion DEF Recorded
  <2>4. Recorded(n + 1)' /\ n + 1 \in 0..Latest
    BY <2>2, <2>3 DEF Recorded
  <2>5. /\ db' # Null /\ IsDatabase(db')
        /\ applied' \in Seq(0..Latest) /\ applied' # << >>
    BY <2>2, <2>3, <2>4, VersionRows, KnownAssumption
  <2>6. /\ TypeOK' /\ pc'[r] = "version" /\ cmd' = cmd /\ OnlyOf(r)
    BY <1>2, <2>5, GotoTypes, LatestType DEF ApplyUp, MigrationInv, OnlyOf
  <2>7. GoodAlone(r)
    BY <2>4, <2>5, <2>6 DEF GoodAlone, KnowsAlone
  <2>8. ASSUME NEW v \in 6..Latest, Recorded(v), KnowsBeside(r, v)
        PROVE  n + 1 \in v..Latest /\ KnowsBeside(r, n + 1)'
    <3>1. v = n
      <4>1. applied = Versions(n) /\ n \in 0..Latest
        BY <2>2, LatestType DEF Recorded
      <4> QED
        BY <2>8, <4>1, SameVersion, Later
    <3> QED
      BY <2>2, <2>6, <2>8, <3>1 DEF KnowsBeside
  <2>9. GoodBeside(r)
    BY <2>4, <2>6, <2>8 DEF GoodBeside
  <2> QED
    BY <2>6, <2>7, <2>9, StepKeeps
<1> QED
  BY <1>1, <1>2 DEF ApplyUp

\* Only who is alone runs scripts down.
LEMMA DownLeads ==
  ASSUME MigrationInv, NEW r \in Runs, pc[r] = "script", cmd[r] = "down",
         NEW e \in Script(db, Scripts[read[r]].down) \ {Null}
  PROVE  /\ ~Rollout /\ r \notin Containers
         /\ read[r] \in 1..Latest /\ Recorded(read[r])
         /\ e \in KnownAt(read[r] - 1) /\ (HoldsTrips(db) => HoldsTrips(e))
<1>1. PICK n \in 1..Latest : n = read[r]
  BY LatestType DEF MigrationInv, TypeOK
<1>2. ~Rollout /\ r \notin Containers
  BY DEF MigrationInv, Rollout, KnowsBeside
<1>3. applied = Versions(n)
  BY <1>1, <1>2 DEF MigrationInv, Alone, KnowsAlone
<1>4. n \in 0..Latest /\ \E v \in 0..Latest : Recorded(v)
  BY <1>3, VersionRows, KnownDatabase, LatestType
<1>5. Recorded(n)
  BY <1>3, <1>4, SameVersion
<1>6. e \in KnownAt(n - 1) /\ (HoldsTrips(db) => HoldsTrips(e))
  BY <1>1, <1>5, ScriptsAssumption DEF Recorded
<1> QED
  BY <1>1, <1>2, <1>5, <1>6

LEMMA ApplyDownKeeps ==
  ASSUME MigrationInv, NEW r \in Runs, ApplyDown(r)
  PROVE  MigrationInv'
<1>1. CASE Fatal(r) /\ UNCHANGED <<db, applied>>
  BY <1>1, FatalKeeps DEF ApplyDown
<1>2. CASE /\ db' \in Script(db, Scripts[read[r]].down) \ {Null}
           /\ applied' = Deleted(applied, read[r])
           /\ Finish(r)
  <2>1. PICK n \in 1..Latest : n = read[r]
    BY <1>2, DownLeads DEF ApplyDown
  <2>2. /\ Recorded(n) /\ db' \in KnownAt(n - 1) /\ n - 1 \in 0..Latest
        /\ ~Rollout /\ r \notin Containers
    <3>1. \A e \in Script(db, Scripts[read[r]].down) \ {Null} :
            /\ Recorded(read[r]) /\ e \in KnownAt(read[r] - 1)
            /\ ~Rollout /\ r \notin Containers
      BY DownLeads DEF ApplyDown
    <3> QED
      BY <1>2, <2>1, <3>1, LatestType
  <2>3. applied' = Versions(n - 1)
    BY <1>2, <2>1, <2>2, ScriptsAssumption DEF Recorded
  <2>4. Recorded(n - 1)'
    BY <2>2, <2>3 DEF Recorded
  <2>5. /\ db' # Null /\ IsDatabase(db')
        /\ applied' \in Seq(0..Latest) /\ applied' # << >>
    BY <2>2, <2>3, VersionRows, KnownAssumption
  <2>6. /\ TypeOK' /\ pc'[r] = "done" /\ cmd' = cmd /\ OnlyOf(r)
    BY <1>2, <2>2, <2>5, GotoTypes, LatestType DEF ApplyDown, Finish, MigrationInv, OnlyOf
  <2>7. GoodAlone(r)
    BY <2>2, <2>4, <2>5, <2>6 DEF GoodAlone, KnowsAlone
  <2>8. GoodBeside(r)
    BY <2>2 DEF GoodBeside, KnowsBeside
  <2> QED
    BY <2>6, <2>7, <2>8, StepKeeps
<1> QED
  BY <1>1, <1>2 DEF ApplyDown

\* The service stores rows at the latest version only.
LEMMA StoreTripKeeps ==
  ASSUME MigrationInv, StoreTrip
  PROVE  MigrationInv' /\ HoldsTrips(db')
<1>1. Recorded(Latest)
  <2>1. ~Unrecorded
    BY KnownAssumption, LatestType DEF StoreTrip, Unrecorded, FitsModels
  <2>2. PICK v \in 0..Latest : Recorded(v)
    BY <2>1 DEF MigrationInv
  <2> QED
    BY <2>2, KnownAssumption DEF StoreTrip, Recorded
<1>2. /\ db' \in KnownAt(Latest) /\ HoldsTrips(db')
      /\ IsDatabase(db') /\ db' # Null /\ Latest \in 0..Latest
  BY <1>1, KnownAssumption, LatestType DEF StoreTrip, Recorded
<1>3. TypeOK' /\ UNCHANGED <<applied, pc, cmd, read>> /\ Recorded(Latest)'
  BY <1>1, <1>2 DEF StoreTrip, MigrationInv, TypeOK, Recorded
<1>4. \A v \in 0..Latest : Recorded(v) => Recorded(v)'
  BY <1>1, <1>2, <1>3, OneVersion DEF Recorded
<1>5. Alone => Alone'
  BY <1>2, <1>3 DEF Alone, KnowsAlone
<1>6. Rollout => Rollout'
  <2> SUFFICES ASSUME NEW v \in 6..Latest, Recorded(v),
                      \A r \in Runs : pc[r] # "away" => KnowsBeside(r, v)
               PROVE  Recorded(v)' /\ \A r \in Runs : pc'[r] # "away" => KnowsBeside(r, v)'
    BY DEF Rollout
  <2>1. v \in 0..Latest
    BY LatestType
  <2> QED
    BY <1>3, <1>4, <2>1 DEF KnowsBeside
<1> QED
  BY <1>2, <1>3, <1>4, <1>5, <1>6 DEF MigrationInv

LEMMA NextMigrationInv == MigrationInv /\ [Next]_vars => MigrationInv'
<1> SUFFICES ASSUME MigrationInv, [Next]_vars PROVE MigrationInv'
  OBVIOUS
<1>1. CASE UNCHANGED vars
  BY <1>1 DEF vars, MigrationInv, TypeOK, Recorded, Unrecorded, Alone, KnowsAlone, Rollout,
     KnowsBeside
<1> QED
  BY <1>1, StartKeeps, StopKeeps, CreateSchemaKeeps, ReadVersionKeeps,
     CreateVersionTableKeeps, ApplyUpKeeps, ApplyDownKeeps, StoreTripKeeps DEF Next, Step

LEMMA InitMigrationInv ==
  ASSUME Init, RolloutOrAlone
  PROVE  MigrationInv
<1>1. PICK case \in Cases :
        /\ IF case.version = 0 THEN db = Null /\ applied = Null ELSE DatabaseAt(case.version)
        /\ pc = [r \in Runs |-> IF r \in case.runs THEN "off" ELSE "away"]
  BY DEF Init
<1>2. /\ cmd = [r \in Runs |-> "up"] /\ read = [r \in Runs |-> 0] /\ stops = 0
      /\ case.version \in 0..Latest
      /\ \/ case.version >= 6 /\ case.runs \subseteq Containers
         \/ \A r, s \in case.runs : r = s
  BY <1>1 DEF Init, RolloutOrAlone
<1>3. case.version # 0 => Recorded(case.version)
  BY <1>1 DEF DatabaseAt, Recorded, KnownAt
<1>4. \/ db = Null /\ applied = Null
      \/ /\ IsDatabase(db) /\ db # Null
         /\ applied # Null /\ applied \in Seq(0..Latest) /\ applied # << >>
  BY <1>1, <1>2, <1>3, VersionRows, KnownAssumption DEF Recorded
<1>5. TypeOK
  BY <1>1, <1>2, <1>4, LatestType, RunsAssumption DEF TypeOK, Commands
<1>6. Unrecorded \/ \E v \in 0..Latest : Recorded(v)
  BY <1>1, <1>2, <1>3 DEF Unrecorded
<1>7. \A r \in Containers : cmd[r] = "up" /\ pc[r] # "done"
  BY <1>1, <1>2, RunsAssumption
<1>8. Alone \/ Rollout
  <2>1. ASSUME \A r, s \in case.runs : r = s
        PROVE  Alone
    BY <1>1, <2>1 DEF Alone, KnowsAlone
  <2>2. ASSUME case.version >= 6, case.runs \subseteq Containers
        PROVE  Rollout
    <3>1. case.version \in 6..Latest
      BY <1>2, <2>2, LatestType
    <3>2. \A r \in Runs : pc[r] # "away" => KnowsBeside(r, case.version)
      BY <1>1, <2>2 DEF KnowsBeside
    <3> QED
      BY <1>3, <3>1, <3>2 DEF Rollout
  <2> QED
    BY <1>2, <2>1, <2>2
<1> QED
  BY <1>5, <1>6, <1>7, <1>8 DEF MigrationInv

LEMMA AlwaysMigrationInv ==
  ASSUME RolloutOrAlone
  PROVE  Spec => []MigrationInv
BY InitMigrationInv, NextMigrationInv, PTL DEF Spec

----------------------------------------------------------------------------
(* Theorems *)

\* Every variable keeps its type: there are tables wherever there are version
\* rows, and no process runs a script that is not there.
THEOREM MigrationTypeCorrect ==
  ASSUME RolloutOrAlone
  PROVE  Spec => []TypeOK
<1>1. MigrationInv => TypeOK
  BY DEF MigrationInv
<1> QED
  BY <1>1, AlwaysMigrationInv, PTL

\* The tables are what the last version row says, after any ups and downs
\* of an operator alone or any number of init containers side by side, wherever
\* they failed; at versions 3 and 4 the column start may lack its NOT NULL.
THEOREM SchemasAreAsRecorded ==
  ASSUME RolloutOrAlone
  PROVE  Spec => []SchemaAsRecorded
<1>1. MigrationInv => SchemaAsRecorded
  BY KnownDatabase, KnownAssumption DEF SchemaAsRecorded, Recorded
<1> QED
  BY <1>1, AlwaysMigrationInv, PTL

\* When an init container has succeeded, the columns the generated code names
\* are there, and stay whatever the containers of other pods still do.
THEOREM ColumnsAreThere ==
  ASSUME RolloutOrAlone
  PROVE  Spec => []ServiceFindsItsColumns
<1>1. MigrationInv => ServiceFindsItsColumns
  BY KnownAssumption, LatestType DEF MigrationInv, ServiceFindsItsColumns, Recorded
<1> QED
  BY <1>1, AlwaysMigrationInv, PTL

\* No step loses the trips the service stored, be it a script down.
THEOREM TripsAreKept ==
  ASSUME RolloutOrAlone
  PROVE  Spec => TripsSurvive
<1>1. MigrationInv /\ [Next]_vars => [HoldsTrips(db) => HoldsTrips(db')]_db
  <2> SUFFICES ASSUME MigrationInv, Next, db' # db, HoldsTrips(db)
               PROVE  HoldsTrips(db')
    BY DEF vars
  <2>1. ASSUME NEW r \in Runs, CreateSchema(r)
        PROVE  HoldsTrips(db')
    BY <2>1 DEF CreateSchema, HoldsTrips
  <2>2. ASSUME NEW r \in Runs, ApplyUp(r)
        PROVE  HoldsTrips(db')
    BY <2>2, UpLeads DEF ApplyUp
  <2>3. ASSUME NEW r \in Runs, ApplyDown(r)
        PROVE  HoldsTrips(db')
    BY <2>3, DownLeads DEF ApplyDown
  <2>4. CASE StoreTrip
    BY <2>4, StoreTripKeeps
  <2> QED
    BY <2>1, <2>2, <2>3, <2>4
       DEF Next, Step, Start, Stop, ReadVersion, CreateVersionTable
<1> QED
  BY <1>1, AlwaysMigrationInv, PTL DEF Spec, TripsSurvive

=============================================================================
