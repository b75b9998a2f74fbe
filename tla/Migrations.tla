----------------------------- MODULE Migrations -----------------------------
(***************************************************************************)
(* trips-api migrate: the nine scripts of migrations/, up and down, run by *)
(* the init containers of the pods that start and by an operator.          *)
(*                                                                         *)
(* goose (v2.7.0, outside this repository) takes no lock.  It reads the    *)
(* version, which is the row last inserted into trips_api.migrations, and  *)
(* then runs one script and writes its row in one transaction: between the *)
(* two steps every other process may run.  One that fails exits and, if it *)
(* is an init container, is started again.                                 *)
(***************************************************************************)
EXTENDS Integers, SequencesExt

CONSTANTS Runs,       \* processes that run trips-api migrate
          Containers, \* those of them that are init containers
          Cases,      \* the version the database may be at in the beginning, and
                      \* who of them is about then
          MaxStops,   \* bound: processes that die, calls that fail
          Null        \* no such table; no schema

\* Words migrate hands to goose: the default and its inverse, and the two it
\* treats itself, where the version ends up in the same word, which goose does
\* not know.  It passes on any other word as well (redo, reset, up-by-one);
\* those are left out.
Commands == {"up", "down", "down-to N", "up-to N"}

ASSUME RunsAssumption == Containers \subseteq Runs /\ MaxStops \in Nat

VARIABLES db,      \* db[t]: the table t of schema trips_api, or Null; or Null
          applied, \* the rows of trips_api.migrations in the order of their ids, or Null
          pc,      \* pc[r]: the next step of process r
          cmd,     \* cmd[r]: its command
          read,    \* read[r]: the version it has read
          stops    \* how much of the bound is used

vars == <<db, applied, pc, cmd, read, stops>>

Tables == {"fulltrips", "trips", "vehicles"}

----------------------------------------------------------------------------
(* The statements.  A table has columns, which may be NOT NULL; it may hold *)
(* rows, and an index beside that of its key.                               *)

CreateTable(t, cols) == [do |-> "create", table |-> t, cols |-> cols]
DropTable(t)    == [do |-> "drop table", table |-> t]
RenameTable(t, u) == [do |-> "rename table", table |-> t, to |-> u]
DropSchema      == [do |-> "drop schema", table |-> "trips"]

\* The others are about table trips.
RenameTo(c, d)  == [do |-> "rename", table |-> "trips", col |-> c, to |-> d]
Add(c, null)    == [do |-> "add", table |-> "trips", col |-> c, null |-> null]
AddRequired(c) == Add(c, "not null")
Drop(c)         == [do |-> "drop", table |-> "trips", col |-> c]
SetNotNull(c)   == [do |-> "set not null", table |-> "trips", col |-> c]
DropNotNull(c)  == [do |-> "drop not null", table |-> "trips", col |-> c]
CreateIndex     == [do |-> "index", table |-> "trips", on |-> TRUE]
DropIndex       == [do |-> "index", table |-> "trips", on |-> FALSE]

Without(cols, c) == Restrict(cols, DOMAIN cols \ {c})
With(cols, c, notNull) == (c :> notNull) @@ cols

\* Does the statement run?
Runnable(d, s) ==
  LET tab == IF d = Null THEN Null ELSE d[s.table] IN
  \/ s.do = "create" /\ d # Null /\ tab = Null
  \/ s.do = "drop schema"
  \/ /\ s.do # "create" /\ tab # Null
     /\ s.do = "rename table" => d[s.to] = Null
     /\ s.do = "rename" => s.to \notin DOMAIN tab.cols
     /\ s.do = "add" => /\ s.col \notin DOMAIN tab.cols
                        /\ s.null = "not null" => ~tab.rows
     /\ s.do \in {"rename", "drop", "set not null", "drop not null"} =>
          s.col \in DOMAIN tab.cols
     /\ s.do = "set not null" => ~tab.rows \/ tab.cols[s.col]
     /\ s.do = "index" => s.on # tab.indexed

\* What it does to the tables.
Effect(d, s) ==
  LET cols == d[s.table].cols IN
  CASE s.do = "create"        -> [d EXCEPT ![s.table] = [cols |-> s.cols, rows |-> FALSE, indexed |-> FALSE]]
    [] s.do = "drop table"    -> [d EXCEPT ![s.table] = Null]
    [] s.do = "rename table"  -> [d EXCEPT ![s.to] = d[s.table], ![s.table] = Null]
    [] s.do = "rename"        -> [d EXCEPT ![s.table].cols = With(Without(cols, s.col), s.to, cols[s.col])]
    [] s.do = "add"           -> [d EXCEPT ![s.table].cols = With(cols, s.col, s.null # "null")]
    [] s.do = "drop"          -> [d EXCEPT ![s.table].cols = Without(cols, s.col),
                                          ![s.table].indexed = @ /\ s.col # "vehicle_token_id"]
    [] s.do = "set not null"  -> [d EXCEPT ![s.table].cols = With(cols, s.col, TRUE)]
    [] s.do = "drop not null" -> [d EXCEPT ![s.table].cols = With(cols, s.col, FALSE)]
    [] s.do = "index"         -> [d EXCEPT ![s.table].indexed = s.on]
    [] s.do = "drop schema"   -> Null

\* A script runs to its end or not at all: what it makes of the database d, if
\* anything.
Script(d, statements) ==
  FoldLeft(LAMBDA ds, s : {Effect(e, s) : e \in {x \in ds : Runnable(x, s)}},
           {d}, statements)

----------------------------------------------------------------------------
(* The scripts of migrations/, in the order of their names *)

CreateSchemaTrips ==        \* CREATE SCHEMA IF NOT EXISTS
  [up |-> << >>, down |-> << DropSchema >>]

CreateFulltrips ==
  [up |-> << CreateTable("fulltrips", [trip_id |-> TRUE, device_id |-> FALSE,
                                       trip_start |-> FALSE, trip_end |-> FALSE]) >>,
   down |-> << DropTable("fulltrips") >>]

TripNameTweaks ==
  [up |-> << RenameTable("fulltrips", "trips"),
             RenameTo("trip_id", "id"), RenameTo("device_id", "user_device_id"),
             RenameTo("trip_start", "start"), RenameTo("trip_end", "end"),
             SetNotNull("user_device_id"), SetNotNull("start") >>,
   down |-> << DropNotNull("user_device_id"), DropNotNull("start"),
               RenameTo("id", "trip_id"), RenameTo("user_device_id", "device_id"),
               RenameTo("start", "trip_start"), RenameTo("end", "trip_end"),
               RenameTable("trips", "fulltrips") >>]

VehiclesTbl ==
  [up |-> << CreateTable("vehicles", [token_id |-> TRUE, user_device_id |-> TRUE]),
             AddRequired("vehicle_token_id"), Drop("user_device_id"),
             Add("encryption_key", "null"), Add("bundlr_id", "null") >>,
   down |-> << Drop("bundlr_id"), Drop("encryption_key"), Drop("vehicle_token_id"),
               AddRequired("user_device_id"), DropTable("vehicles") >>]

AddLatLon ==
  [up |-> << RenameTo("start", "start_time"), RenameTo("end", "end_time"),
             Add("start_position", "null"), Add("end_position", "null"),
             SetNotNull("start_time"), SetNotNull("start_position") >>,
   down |-> << DropNotNull("start_position"), DropNotNull("start_time"),
               Drop("start_position"), Drop("end_position"),
               RenameTo("start_time", "start"), RenameTo("end_time", "end") >>]

RemovePoints ==
  [up |-> << Drop("start_position"), Drop("end_position") >>,
   down |-> << AddRequired("start_position"), Add("end_position", "null") >>]

AddGeos ==
  [up |-> << Add("start_position", "null"), Add("start_position_estimate", "null"),
             Add("end_position", "null") >>,
   down |-> << Drop("start_position"), Drop("end_position"),
               Drop("start_position_estimate") >>]

AddVehicleIndex == [up |-> << CreateIndex >>, down |-> << DropIndex >>]

AddDroppedData ==
  [up |-> << Add("dropped_data", "default") >>, down |-> << Drop("dropped_data") >>]

Scripts ==
  << CreateSchemaTrips, CreateFulltrips, TripNameTweaks, VehiclesTbl, AddLatLon,
     RemovePoints, AddGeos, AddVehicleIndex, AddDroppedData >>

Latest == Len(Scripts)

NoTables == [t \in Tables |-> Null]

\* The tables after the first v scripts.
SchemaOf(v) == CHOOSE d \in Script(NoTables, FlattenSeq([i \in 1..v |-> Scripts[i].up])) : TRUE

\* What the generated code reads and writes (models/trips.go, vehicles.go).
TripColumns ==
  [id |-> TRUE, start_time |-> TRUE, end_time |-> FALSE, vehicle_token_id |-> TRUE,
   encryption_key |-> FALSE, bundlr_id |-> FALSE, start_position |-> FALSE,
   start_position_estimate |-> FALSE, end_position |-> FALSE, dropped_data |-> TRUE]

VehicleColumns == [token_id |-> TRUE, user_device_id |-> TRUE]

FitsModels(d) ==
  /\ d # Null /\ d["trips"] # Null /\ d["vehicles"] # Null
  /\ d["trips"].cols = TripColumns
  /\ d["vehicles"].cols = VehicleColumns

\* The tables of version v if it was reached on the way down: the script of
\* version 5 has dropped the NOT NULL of start, which it had not added.
WithoutStart(v) == [SchemaOf(v) EXCEPT !["trips"].cols["start"] = FALSE]

\* The schema without the rows in it.
Shape(d) == [t \in Tables |-> IF d[t] = Null THEN Null ELSE [d[t] EXCEPT !.rows = FALSE]]

\* Are the tables those of version v?  At versions 3 and 4 the column start may
\* have lost its NOT NULL on the way down.
AsRecorded(d, v) ==
  \/ Shape(d) = SchemaOf(v)
  \/ v \in {3, 4} /\ Shape(d) = WithoutStart(v)

HoldsTrips(d) == d # Null /\ \E t \in {"trips", "fulltrips"} : d[t] # Null /\ d[t].rows

\* The tables ts of d hold rows.
Filled(d, ts) == [t \in Tables |-> IF t \in ts THEN [d[t] EXCEPT !.rows = TRUE] ELSE d[t]]

\* Which of them may before the service has come: an older release stored trips
\* that the scripts after the sixth keep.
FilledBefore(v) == {{}} \cup IF v < 6 THEN {} ELSE {{"trips"}}

\* The service has stored a vehicle and a trip.
WithTrip(d) == [d EXCEPT !["trips"].rows = TRUE, !["vehicles"].rows = TRUE]

\* The version rows of a database at version v, and those that DELETE leaves.
Versions(v) == [i \in 1..v + 1 |-> i - 1]
Deleted(rows, v) == SelectSeq(rows, LAMBDA w : w # v)

IsDatabase(d) ==
  /\ DOMAIN d = Tables
  /\ \A t \in Tables : d[t] # Null =>
       /\ \A c \in DOMAIN d[t].cols : d[t].cols[c] \in BOOLEAN
       /\ d[t].rows \in BOOLEAN /\ d[t].indexed \in BOOLEAN

----------------------------------------------------------------------------
(* What the scripts do, one at a time.  All of it is closed: TLC evaluates *)
(* it, and the proofs about processes that run them rest on it.            *)

\* The databases that are found at version v.  On the way down the column start
\* has lost its NOT NULL, which the next way up restores.
KnownAt(v) ==
  {Filled(SchemaOf(v), ts) : ts \in FilledBefore(v) \cup
                                    IF v < 6 THEN {} ELSE {{"trips", "vehicles"}}}
  \cup IF v \in {3, 4} THEN {WithoutStart(v)} ELSE {}

\* What is known of a database at version v, for the service and for who counts.
ASSUME KnownAssumption ==
  /\ NoTables \in KnownAt(0)
  /\ \A v \in 0..Latest :
       /\ Versions(v) # Null
       /\ \A d \in KnownAt(v) :
            /\ d # Null /\ IsDatabase(d)
            /\ AsRecorded(d, v)
            /\ FitsModels(d) <=> v = Latest
            /\ v = Latest => WithTrip(d) \in KnownAt(v) /\ HoldsTrips(WithTrip(d))

\* A script up leads from one version to the next, a script down back, and
\* neither loses trips.  From version 6 on, one that is run again fails.
ASSUME ScriptsAssumption ==
  /\ \A v \in 1..Latest : \A d \in KnownAt(v - 1) : \A e \in Script(d, Scripts[v].up) :
       e \in KnownAt(v) /\ (HoldsTrips(d) => HoldsTrips(e))
  /\ \A v \in 1..Latest : \A d \in KnownAt(v) : \A e \in Script(d, Scripts[v].down) \ {Null} :
       e \in KnownAt(v - 1) /\ (HoldsTrips(d) => HoldsTrips(e))
  /\ \A v \in 1..Latest : Deleted(Versions(v), v) = Versions(v - 1)
  /\ \A w \in 7..Latest : \A v \in 7..w, d \in KnownAt(w) : Script(d, Scripts[v].up) = {}

----------------------------------------------------------------------------

TypeOK ==
  /\ db # Null => IsDatabase(db)
  /\ applied # Null => db # Null /\ applied \in Seq(0..Latest) /\ applied # << >>
  /\ pc \in [Runs -> {"away", "off", "schema", "version", "create", "script", "done"}]
  /\ cmd \in [Runs -> Commands]
  /\ read \in [Runs -> 0..Latest]
  /\ \A r \in Runs : pc[r] = "script" =>
       read[r] \in IF cmd[r] = "up" THEN 0..Latest - 1 ELSE 1..Latest
  /\ stops \in 0..MaxStops

\* A database that has been migrated to version v before, by itself.
DatabaseAt(v) ==
  /\ \E ts \in FilledBefore(v) : db = Filled(SchemaOf(v), ts)
  /\ applied = Versions(v)

Init ==
  /\ \E case \in Cases :
       /\ IF case.version = 0 THEN db = Null /\ applied = Null ELSE DatabaseAt(case.version)
       /\ pc = [r \in Runs |-> IF r \in case.runs THEN "off" ELSE "away"]
  /\ cmd = [r \in Runs |-> "up"]
  /\ read = [r \in Runs |-> 0]
  /\ stops = 0

\* Hypothesis of the invariants: whoever meets a database at a version before 6
\* is alone with it; at a later one there may be any number of init containers.
RolloutOrAlone ==
  \A case \in Cases :
    /\ case.version \in 0..Latest /\ case.runs \subseteq Runs
    /\ \/ case.version >= 6 /\ case.runs \subseteq Containers
       \/ \A r, s \in case.runs : r = s

\* Process r goes on, knowing version v.
Goto(r, step, v) ==
  /\ pc' = [pc EXCEPT ![r] = step]
  /\ read' = [read EXCEPT ![r] = v]
  /\ UNCHANGED <<cmd, stops>>

\* log.Fatal, and what the process knows is gone.
Fatal(r) == Goto(r, "off", 0)

Finish(r) == Goto(r, "done", 0)

\* An init container runs "up" until it has succeeded once, an operator any of
\* the commands, again and again.
Start(r) ==
  /\ pc[r] = "off" \/ (pc[r] = "done" /\ r \notin Containers)
  /\ \E c \in IF r \in Containers THEN {"up"} ELSE Commands :
       cmd' = [cmd EXCEPT ![r] = c]
  /\ pc' = [pc EXCEPT ![r] = "schema"]
  /\ UNCHANGED <<db, applied, read, stops>>

\* Mutant: CREATE SCHEMA without IF NOT EXISTS.
CreateSchemaOnce(r) ==
  /\ pc[r] = "schema"
  /\ IF db = Null THEN db' = NoTables /\ Goto(r, "version", 0)
     ELSE Fatal(r) /\ UNCHANGED db
  /\ UNCHANGED applied

\* Mutant: it begins with a clean schema.
CreateSchemaAnew(r) ==
  /\ pc[r] = "schema"
  /\ db' = NoTables
  /\ Goto(r, "version", 0)
  /\ UNCHANGED applied

CreateSchema(r) ==
  /\ pc[r] = "schema"
  /\ db' = IF db = Null THEN NoTables ELSE db
  /\ Goto(r, "version", 0)
  /\ UNCHANGED applied

Current == applied[Len(applied)]

\* Mutant: the last script is not run.
LookForAllButOne(r, v) ==
  IF cmd[r] = "up" THEN IF v >= Latest - 1 THEN Finish(r) ELSE Goto(r, "script", v)
  ELSE IF v = 0 THEN Fatal(r) ELSE Goto(r, "script", v)

\* Mutant: goose looks for one script more than there are.
LookForOneMore(r, v) ==
  IF cmd[r] = "up" THEN IF v > Latest THEN Finish(r) ELSE Goto(r, "script", v)
  ELSE IF v = 0 THEN Fatal(r) ELSE Goto(r, "script", v)

\* goose knows the version and looks for the script.
Choose(r, v) ==
  IF cmd[r] = "up" THEN IF v = Latest THEN Finish(r) ELSE Goto(r, "script", v)
  ELSE IF v = 0 THEN Fatal(r) ELSE Goto(r, "script", v)

ReadVersion(r) ==
  /\ pc[r] = "version"
  /\ IF cmd[r] \notin {"up", "down"} THEN Fatal(r)
     ELSE IF applied = Null THEN Goto(r, "create", 0)
     ELSE Choose(r, Current)
  /\ UNCHANGED <<db, applied>>

\* CREATE TABLE trips_api.migrations, which now says version 0.
CreateVersionTable(r) ==
  /\ pc[r] = "create"
  /\ IF applied = Null THEN applied' = <<0>> /\ Choose(r, 0)
     ELSE Fatal(r) /\ UNCHANGED applied
  /\ UNCHANGED db

\* Mutant: the row is not in the transaction of the script.
ApplyUpRecorded(r) ==
  LET made == Script(db, Scripts[read[r] + 1].up) IN
  /\ pc[r] = "script" /\ cmd[r] = "up"
  /\ applied' = Append(applied, read[r] + 1)
  /\ \/ made = {} /\ Fatal(r) /\ UNCHANGED db
     \/ db' \in made /\ Goto(r, "version", 0)

\* The next script and its version row, in one transaction.
ApplyUp(r) ==
  LET made == Script(db, Scripts[read[r] + 1].up) IN
  /\ pc[r] = "script" /\ cmd[r] = "up"
  /\ \/ made = {} /\ Fatal(r) /\ UNCHANGED <<db, applied>>
     \/ /\ db' \in made
        /\ applied' = Append(applied, read[r] + 1)
        /\ Goto(r, "version", 0)

\* The same for the script down.  That of the first version drops the schema
\* and the version table in it, so that its row cannot be deleted any more.
ApplyDown(r) ==
  LET made == Script(db, Scripts[read[r]].down) \ {Null} IN
  /\ pc[r] = "script" /\ cmd[r] = "down"
  /\ \/ made = {} /\ Fatal(r) /\ UNCHANGED <<db, applied>>
     \/ /\ db' \in made
        /\ applied' = Deleted(applied, read[r])
        /\ Finish(r)

\* A process dies, or a call of it fails.
Stop(r) ==
  /\ stops < MaxStops
  /\ pc[r] \notin {"away", "off", "done"}
  /\ pc' = [pc EXCEPT ![r] = "off"]
  /\ read' = [read EXCEPT ![r] = 0]
  /\ stops' = stops + 1
  /\ UNCHANGED <<db, applied, cmd>>

\* The service, this release or the one before, stores a vehicle and a trip.
StoreTrip ==
  /\ FitsModels(db)
  /\ db' = WithTrip(db)
  /\ UNCHANGED <<applied, pc, cmd, read, stops>>

Step(r) ==
  CreateSchema(r) \/ ReadVersion(r) \/ CreateVersionTable(r) \/ ApplyUp(r) \/ ApplyDown(r)

Next == (\E r \in Runs : Start(r) \/ Step(r) \/ Stop(r)) \/ StoreTrip

Spec == Init /\ [][Next]_vars

\* An init container that exits is started again, and what runs goes on.
FairSpec == Spec /\ \A r \in Containers : WF_vars(Start(r)) /\ WF_vars(Step(r))

----------------------------------------------------------------------------

\* The tables are what the recorded version says, whatever has been run down
\* and up again, by how many, and however it ended.  What the way down drops
\* without having added it, the NOT NULL of start, is all that is ever missing,
\* at versions 3 and 4 only, and the next way up restores it.
SchemaAsRecorded == applied # Null => AsRecorded(db, Current)

\* Once one init container has succeeded, the models find their columns, and
\* nothing a slower container still does takes them away.
ServiceFindsItsColumns == (\E r \in Containers : pc[r] = "done") => FitsModels(db)

\* No sequence of migrations down and up loses the trips the service stored.
TripsSurvive == [][HoldsTrips(db) => HoldsTrips(db')]_db

\* Every init container succeeds in the end: "MigrateDatabase creates new
\* schema and table using goose" (internal/database/migrate.go).
MigratedInTheEnd == \A r \in Containers : <>[](pc[r] \in {"away", "done"})

=============================================================================
