------------------------ MODULE WorkflowVersionsProofs ------------------------
(***************************************************************************)
(* Proofs, for every value of the constants, that creating tasks of a      *)
(* workflow never becomes ambiguous, nor impossible but by an operator's   *)
(* save, and, when operators overwrite nothing, that a task's version      *)
(* keeps its meaning.                                                      *)
(***************************************************************************)
EXTENDS WorkflowVersions, Induction

\* The rows of the table, and what is kept of a task.
Rows == [config : Configs \union {NoConfig}, active : BOOLEAN]
TaskRows == [at : {"idle", "insert", "created", "failed"}, name : Names \union {0},
             version : Versions, config : Configs \union {NoConfig}]

\* save_version keeps the type of the table.
LEMMA SavedType ==
    ASSUME TypeOK, NEW n \in Names, NEW v \in Versions,
           NEW config \in Configs \union {NoConfig}, NEW active \in BOOLEAN
    PROVE  Saved(n, v, config, active) \in [Versions -> Rows]
<1>1. table[n] \in [Versions -> Rows]
  BY DEF TypeOK, Rows
<1>2. \A w \in Versions : [table[n][w] EXCEPT !.active = @ /\ ~active] \in Rows
  <2> SUFFICES ASSUME NEW w \in Versions
               PROVE  [table[n][w] EXCEPT !.active = @ /\ ~active] \in Rows
    OBVIOUS
  <2>1. table[n][w] \in Rows
    BY <1>1
  <2> QED
    BY <2>1 DEF Rows
<1>3. [config |-> config, active |-> active] \in Rows
  BY DEF Rows
<1> QED
  BY <1>2, <1>3 DEF Saved

\* save_version changes one configuration, and gives the flag to its version or to none.
LEMMA SavedRows ==
    ASSUME TypeOK, NEW n \in Names, NEW v \in Versions, NEW w \in Versions,
           NEW config, NEW active \in BOOLEAN
    PROVE  /\ w = v => /\ Saved(n, v, config, active)[w].config = config
                       /\ Saved(n, v, config, active)[w].active <=> active
           /\ w # v => /\ Saved(n, v, config, active)[w].config = table[n][w].config
                       /\ Saved(n, v, config, active)[w].active <=> table[n][w].active /\ ~active
<1>1. table[n][w] \in Rows
  BY DEF TypeOK, Rows
<1> QED
  BY <1>1 DEF Saved, Rows

\* Types, and what is loaded are files.
LEMMA TypeInvariant == Spec => [](TypeOK /\ LoadInv)
<1>1. Init => TypeOK /\ LoadInv
  <2> SUFFICES ASSUME Init PROVE TypeOK /\ LoadInv
    OBVIOUS
  <2>1. NoRow \in Rows /\ NoTask \in TaskRows
    BY VersionsAssumption DEF NoRow, NoTask, Rows, TaskRows, VersionsAssumption
  <2>2. table \in [Names -> [Versions -> Rows]] /\ task \in [Tasks -> TaskRows]
    BY <2>1 DEF Init
  <2>3. \A t \in Tasks : task[t].at = "idle"
    BY DEF Init, NoTask
  <2>4. used \in [Tasks -> SUBSET (Configs \union {NoConfig})]
    BY DEF Init
  <2> QED
    BY <2>2, <2>3, <2>4, VersionsAssumption
       DEF Init, TypeOK, LoadInv, Files, Rows, TaskRows, VersionsAssumption
<1>2. TypeOK /\ LoadInv /\ [Next]_vars => (TypeOK /\ LoadInv)'
  <2> SUFFICES ASSUME TypeOK, LoadInv, [Next]_vars PROVE (TypeOK /\ LoadInv)'
    OBVIOUS
  <2> USE DEF catalogue, server, vars
  <2>1. ASSUME NEW n \in Names, Load(n) PROVE (TypeOK /\ LoadInv)'
    <3>1. Saved(n, First, file[n], TRUE) \in [Versions -> Rows]
      BY SavedType, VersionsAssumption DEF TypeOK, VersionsAssumption
    <3>2. table' \in [Names -> [Versions -> Rows]]
      BY <2>1, <3>1 DEF Load, SaveVersion, TypeOK, Rows
    <3> QED
      BY <2>1, <3>2 DEF Load, TypeOK, LoadInv, Files, Rows
  <2>2. CASE Serve
    BY <2>2 DEF Serve, TypeOK, LoadInv, Files
  <2>3. CASE Restart
    <3>1. \A t \in Tasks :
             /\ task'[t] \in TaskRows
             /\ task'[t].at = "created" => task[t].at = "created"
             /\ task'[t].at # "insert"
             /\ task'[t].name = task[t].name /\ task'[t].config = task[t].config
      <4> SUFFICES ASSUME NEW t \in Tasks
                   PROVE  /\ task'[t] \in TaskRows
                          /\ task'[t].at = "created" => task[t].at = "created"
                          /\ task'[t].at # "insert"
                          /\ task'[t].name = task[t].name /\ task'[t].config = task[t].config
        OBVIOUS
      <4>1. task[t] \in TaskRows
        BY DEF TypeOK, TaskRows
      <4>2. task'[t] = IF task[t].at = "insert" THEN [task[t] EXCEPT !.at = "failed"] ELSE task[t]
        BY <2>3 DEF Restart
      <4> QED
        BY <4>1, <4>2 DEF TaskRows
    <3>2. task' = [t \in Tasks |-> task'[t]]
      BY <2>3 DEF Restart
    <3>3. task' \in [Tasks -> TaskRows]
      BY <3>1, <3>2
    <3>4. \A t \in Tasks : task'[t].at \in {"insert", "created"} =>
            task'[t].name \in Names /\ task'[t].config # NoConfig
      BY <3>1 DEF TypeOK
    <3>5. LoadInv' /\ toLoad' \subseteq Names
      BY <2>3 DEF Restart, LoadInv, Files
    <3>6. UNCHANGED <<table, file, used>>
      BY <2>3 DEF Restart
    <3>7. serving' \in BOOLEAN
      BY <2>3 DEF Restart
    <3>8. restarts' \in Nat
      BY <2>3 DEF Restart, TypeOK
    <3> QED
      BY <3>3, <3>4, <3>5, <3>6, <3>7, <3>8 DEF TypeOK, TaskRows
  <2>4. ASSUME NEW n \in Names, NEW v \in Versions, NEW config \in Configs,
               NEW active \in BOOLEAN, SaveByHand(n, v, config, active)
        PROVE  (TypeOK /\ LoadInv)'
    <3>1. Saved(n, v, config, active) \in [Versions -> Rows]
      BY SavedType
    <3>2. table' \in [Names -> [Versions -> Rows]]
      BY <2>4, <3>1 DEF SaveByHand, SaveVersion, TypeOK, Rows
    <3> QED
      BY <2>4, <3>2 DEF SaveByHand, TypeOK, LoadInv, Files, Rows
  <2>5. ASSUME NEW n \in Names, NEW config \in Configs \union {NoConfig}, EditFile(n, config)
        PROVE  (TypeOK /\ LoadInv)'
    BY <2>5 DEF EditFile, TypeOK, LoadInv, Files
  <2>6. ASSUME NEW t \in Tasks, NEW n \in Names, GetActive(t, n) PROVE (TypeOK /\ LoadInv)'
    <3>1. LoadInv'
      BY <2>6 DEF GetActive, LoadInv, Files
    <3>2. CASE \E v \in ActiveVersions(n) :
                  task' = [task EXCEPT ![t] =
                     [at |-> "insert", name |-> n, version |-> v, config |-> table[n][v].config]]
      BY <2>6, <3>1, <3>2 DEF GetActive, TypeOK, ActiveVersions
    <3>3. CASE task' = [task EXCEPT ![t].at = "failed"]
      BY <2>6, <3>1, <3>3 DEF GetActive, TypeOK
    <3> QED
      BY <2>6, <3>2, <3>3 DEF GetActive
  <2>7. ASSUME NEW t \in Tasks, CreateTask(t) PROVE (TypeOK /\ LoadInv)'
    BY <2>7 DEF CreateTask, TypeOK, LoadInv, Files
  <2>8. ASSUME NEW t \in Tasks, UseVersion(t) PROVE (TypeOK /\ LoadInv)'
    <3>1. table[task[t].name][task[t].version] \in Rows
      <4>1. task[t] \in TaskRows /\ task[t].name \in Names
        BY <2>8 DEF UseVersion, TypeOK, TaskRows
      <4>2. task[t].version \in Versions
        BY <4>1 DEF TaskRows
      <4>3. table \in [Names -> [Versions -> Rows]]
        BY DEF TypeOK, Rows
      <4> QED
        BY <4>1, <4>2, <4>3
    <3>2. ByVersion(task[t].name, task[t].version) \in Configs \union {NoConfig}
      BY <3>1 DEF ByVersion, Rows
    <3> QED
      BY <2>8, <3>2 DEF UseVersion, TypeOK, LoadInv, Files
  <2>9. CASE UNCHANGED vars
    BY <2>9 DEF TypeOK, LoadInv, Files
  <2> QED
    BY <2>1, <2>2, <2>3, <2>4, <2>5, <2>6, <2>7, <2>8, <2>9 DEF Next
<1> QED
  BY <1>1, <1>2, PTL DEF Spec

\* Every state is well typed.
THEOREM TypeCorrect == Spec => []TypeOK
  BY TypeInvariant, PTL

\* At most one version of each workflow is active.
THEOREM ActiveIsUnique == Spec => []OneActive
<1>1. Init => OneActive
  BY DEF Init, OneActive, ActiveVersions, NoRow
<1>2. TypeOK /\ OneActive /\ [Next]_vars => OneActive'
  <2> SUFFICES ASSUME TypeOK, OneActive, [Next]_vars PROVE OneActive'
    OBVIOUS
  <2>1. ASSUME NEW n \in Names, NEW v \in Versions, NEW config, NEW active \in BOOLEAN,
               SaveVersion(n, v, config, active)
        PROVE  OneActive'
    <3>1. \A m \in Names : table'[m] = IF m = n THEN Saved(n, v, config, active) ELSE table[m]
      BY <2>1 DEF SaveVersion, TypeOK
    <3> QED
      BY <3>1, SavedRows DEF OneActive, ActiveVersions
  <2>2. CASE UNCHANGED table
    BY <2>2 DEF OneActive, ActiveVersions
  <2>3. ASSUME NEW n \in Names, Load(n) PROVE OneActive'
    BY <2>1, <2>3, VersionsAssumption DEF Load, VersionsAssumption
  <2>4. ASSUME NEW n \in Names, NEW v \in Versions, NEW config \in Configs,
               NEW active \in BOOLEAN, SaveByHand(n, v, config, active)
        PROVE  OneActive'
    BY <2>1, <2>4 DEF SaveByHand
  <2> QED
    BY <2>2, <2>3, <2>4
       DEF Next, Serve, Restart, EditFile, GetActive, CreateTask, UseVersion, vars, catalogue
<1> QED
  BY <1>1, <1>2, TypeCorrect, PTL DEF Spec

\* save_version keeps an active version of every workflow, unless it saves the active
\* one as inactive.
LEMMA SavedStays ==
    ASSUME TypeOK, NEW n \in Names, NEW v \in Versions, NEW config \in Configs,
           NEW active \in BOOLEAN, active \/ v \notin ActiveVersions(n),
           SaveVersion(n, v, config, active),
           NEW m \in Names, ActiveVersions(m) # {}
    PROVE  ActiveVersions(m)' # {}
<1> USE VersionsAssumption DEF VersionsAssumption
<1>1. table'[m] = IF m = n THEN Saved(n, v, config, active) ELSE table[m]
  BY DEF SaveVersion, TypeOK
<1>2. CASE m = n /\ active
  <2>1. Saved(n, v, config, active)[v].config = config
    BY SavedRows
  <2>2. Saved(n, v, config, active)[v].active
    BY <1>2, SavedRows
  <2>3. v \in ActiveVersions(m)'
    BY <1>1, <1>2, <2>1, <2>2 DEF ActiveVersions
  <2> QED
    BY <2>3
<1>3. CASE m = n /\ ~active
  <2>1. PICK w \in ActiveVersions(m) : TRUE
    OBVIOUS
  <2>2. w \in Versions /\ w # v
    BY <1>3, <2>1 DEF ActiveVersions
  <2>3. w \in ActiveVersions(m)'
    BY <1>1, <1>3, <2>1, <2>2, SavedRows DEF ActiveVersions
  <2> QED
    BY <2>3
<1>4. CASE m # n
  BY <1>1, <1>4 DEF ActiveVersions
<1> QED
  BY <1>2, <1>3, <1>4

\* The only step after which a workflow that had an active version has none is a
\* save_version that makes that version inactive.
THEOREM AvailabilityIsKept == Spec => StaysAvailable
<1> DEFINE Lost(n) == ActiveVersions(n) # {} /\ ActiveVersions(n)' = {}
           MadeInactive(n) == \E v \in ActiveVersions(n), config \in Configs :
                                 SaveByHand(n, v, config, FALSE)
<1>1. TypeOK /\ LoadInv /\ [Next]_vars => \A m \in Names : Lost(m) => MadeInactive(m)
  <2> SUFFICES ASSUME TypeOK, LoadInv, [Next]_vars, NEW m \in Names, Lost(m)
               PROVE  MadeInactive(m)
    OBVIOUS
  <2>1. CASE UNCHANGED table
    BY <2>1 DEF ActiveVersions
  <2>2. ASSUME NEW n \in Names, Load(n) PROVE FALSE
    <3>1. file[n] \in Configs
      BY <2>2 DEF Load, LoadInv, Files, TypeOK
    <3> QED
      BY <2>2, <3>1, SavedStays, VersionsAssumption DEF Load, VersionsAssumption
  <2>3. ASSUME NEW n \in Names, NEW v \in Versions, NEW config \in Configs,
               NEW active \in BOOLEAN, SaveByHand(n, v, config, active)
        PROVE  MadeInactive(m)
    <3>1. SaveVersion(n, v, config, active)
      BY <2>3 DEF SaveByHand
    <3>2. active = FALSE /\ v \in ActiveVersions(n)
      BY <3>1, SavedStays
    <3>3. m = n
      <4> SUFFICES ASSUME m # n PROVE FALSE
        OBVIOUS
      <4>1. table'[m] = table[m]
        BY <3>1 DEF SaveVersion, TypeOK
      <4> QED
        BY <4>1 DEF ActiveVersions
    <3> QED
      BY <2>3, <3>2, <3>3
  <2> QED
    BY <2>1, <2>2, <2>3
       DEF Next, Serve, Restart, EditFile, GetActive, CreateTask, UseVersion, vars, catalogue
<1>2. TypeOK /\ LoadInv /\ [Next]_vars =>
        [\A n \in Names : ActiveVersions(n) # {} /\ ActiveVersions(n)' = {} =>
            \E v \in ActiveVersions(n), config \in Configs :
               SaveByHand(n, v, config, FALSE)]_vars
  BY <1>1
<1> QED
  BY <1>2, TypeInvariant, PTL DEF Spec, StaysAvailable

\* save_version of contents that agree with the row keeps the rows tasks are pinned to.
LEMMA PinnedRowsStay ==
    ASSUME TypeOK, PinnedInv, NEW n \in Names, NEW v \in Versions,
           NEW config \in Configs \union {NoConfig}, NEW active \in BOOLEAN,
           SaveVersion(n, v, config, active),
           table[n][v].config \in {NoConfig, config},
           v = First => file[n] \in {NoConfig, config},
           UNCHANGED <<file, task, used>>
    PROVE  PinnedInv'
<1>1. \A m \in Names, w \in Versions :
         table'[m][w].config = IF m = n /\ w = v THEN config ELSE table[m][w].config
  <2>1. \A m \in Names : table'[m] = IF m = n THEN Saved(n, v, config, active) ELSE table[m]
    BY DEF SaveVersion, TypeOK
  <2> QED
    BY <2>1, SavedRows
<1>2. \A m \in Files : table'[m][First].config \in {NoConfig, file[m]}
  BY <1>1, VersionsAssumption DEF VersionsAssumption, Files, PinnedInv
<1>3. ASSUME NEW t \in Tasks, task[t].at \in {"insert", "created"}
      PROVE  table'[task[t].name][task[t].version].config = task[t].config
  <2>1. task[t] \in TaskRows /\ task[t].name \in Names /\ task[t].config # NoConfig
    BY <1>3 DEF TypeOK, TaskRows
  <2>2. task[t].version \in Versions
    BY <2>1 DEF TaskRows
  <2>3. table[task[t].name][task[t].version].config = task[t].config
    BY <1>3 DEF PinnedInv
  <2> QED
    BY <1>1, <2>1, <2>2, <2>3
<1> QED
  BY <1>2, <1>3 DEF PinnedInv, Files

\* When operators overwrite neither files nor saved versions, whatever looks up the
\* version of a task finds the configuration its graph was built from.
THEOREM VersionsKeepTheirMeaning ==
    ASSUME Overwritten = {}
    PROVE  Spec => []OneConfig
<1> USE VersionsAssumption DEF VersionsAssumption
<1>1. Init => PinnedInv
  BY DEF Init, PinnedInv, NoRow, NoTask, Files
<1>2. TypeOK /\ LoadInv /\ PinnedInv /\ [Next]_vars => PinnedInv'
  <2> SUFFICES ASSUME TypeOK, LoadInv, PinnedInv, [Next]_vars PROVE PinnedInv'
    OBVIOUS
  <2> USE DEF catalogue, server, vars
  <2>1. ASSUME NEW n \in Names, Load(n) PROVE PinnedInv'
    <3>1. n \in Files /\ file[n] \in Configs \union {NoConfig}
      BY <2>1 DEF Load, LoadInv, TypeOK
    <3>2. table[n][First].config \in {NoConfig, file[n]}
      BY <3>1 DEF PinnedInv
    <3> QED
      BY <2>1, <3>1, <3>2, PinnedRowsStay DEF Load
  <2>2. CASE Serve
    BY <2>2 DEF Serve, PinnedInv, Files
  <2>3. CASE Restart
    <3>1. \A t \in Tasks :
             /\ task'[t].at \in {"insert", "created"} => task'[t] = task[t]
             /\ task'[t].at # "created" => task[t].at # "created"
             /\ task'[t].config = task[t].config
      <4> SUFFICES ASSUME NEW t \in Tasks
                   PROVE  /\ task'[t].at \in {"insert", "created"} => task'[t] = task[t]
                          /\ task'[t].at # "created" => task[t].at # "created"
                          /\ task'[t].config = task[t].config
        OBVIOUS
      <4>1. task[t] \in TaskRows
        BY DEF TypeOK, TaskRows
      <4>2. task'[t] = IF task[t].at = "insert" THEN [task[t] EXCEPT !.at = "failed"] ELSE task[t]
        BY <2>3 DEF Restart
      <4> QED
        BY <4>1, <4>2 DEF TaskRows
    <3>2. UNCHANGED <<table, file, used>>
      BY <2>3 DEF Restart
    <3> QED
      BY <3>1, <3>2 DEF PinnedInv, Files
  <2>4. ASSUME NEW n \in Names, NEW v \in Versions, NEW config \in Configs,
               NEW active \in BOOLEAN, SaveByHand(n, v, config, active)
        PROVE  PinnedInv'
    BY <2>4, PinnedRowsStay DEF SaveByHand
  <2>5. ASSUME NEW n \in Names, NEW config \in Configs \union {NoConfig}, EditFile(n, config)
        PROVE  PinnedInv'
    <3>1. \A m \in Names : file'[m] = IF m = n THEN config ELSE file[m]
      BY <2>5 DEF EditFile, TypeOK
    <3> QED
      BY <2>5, <3>1 DEF EditFile, PinnedInv, Files
  <2>6. ASSUME NEW t \in Tasks, NEW n \in Names, GetActive(t, n) PROVE PinnedInv'
    <3>1. used[t] = {} /\ task[t].at = "idle" /\ UNCHANGED <<table, file, used>>
      BY <2>6 DEF GetActive, PinnedInv
    <3>2. \/ /\ task'[t].at = "insert"
             /\ table[task'[t].name][task'[t].version].config = task'[t].config
          \/ task'[t].at = "failed"
      BY <2>6 DEF GetActive, TypeOK
    <3>3. \A u \in Tasks : u # t => task'[u] = task[u]
      BY <2>6 DEF GetActive, TypeOK
    <3> QED
      BY <3>1, <3>2, <3>3 DEF PinnedInv, Files
  <2>7. ASSUME NEW t \in Tasks, CreateTask(t) PROVE PinnedInv'
    <3>1. task' = [task EXCEPT ![t].at = "created"] /\ task[t] \in TaskRows /\ task[t].at = "insert"
      BY <2>7 DEF CreateTask, TypeOK, TaskRows
    <3>2. /\ task'[t].at = "created" /\ task'[t].name = task[t].name
          /\ task'[t].version = task[t].version /\ task'[t].config = task[t].config
      BY <3>1 DEF TypeOK, TaskRows
    <3>3. \A u \in Tasks : u # t => task'[u] = task[u] /\ used'[u] = used[u]
      BY <2>7 DEF CreateTask, TypeOK
    <3>4. used'[t] = {task[t].config} /\ UNCHANGED <<table, file>>
      BY <2>7 DEF CreateTask, TypeOK
    <3> QED
      BY <3>1, <3>2, <3>3, <3>4 DEF PinnedInv, Files
  <2>8. ASSUME NEW t \in Tasks, UseVersion(t) PROVE PinnedInv'
    <3>1. ByVersion(task[t].name, task[t].version) = task[t].config
      BY <2>8 DEF UseVersion, ByVersion, PinnedInv
    <3>2. \A u \in Tasks : used'[u] \subseteq used[u] \union {task[u].config}
      BY <2>8, <3>1 DEF UseVersion, TypeOK
    <3>3. \A u \in Tasks : task[u].at # "created" => used'[u] = used[u]
      BY <2>8 DEF UseVersion, TypeOK
    <3>4. UNCHANGED <<table, file, task>>
      BY <2>8 DEF UseVersion
    <3> QED
      BY <3>2, <3>3, <3>4 DEF PinnedInv, Files
  <2>9. CASE UNCHANGED vars
    BY <2>9 DEF PinnedInv, Files
  <2> QED
    BY <2>1, <2>2, <2>3, <2>4, <2>5, <2>6, <2>7, <2>8, <2>9 DEF Next
<1>3. PinnedInv => OneConfig
  BY DEF PinnedInv, OneConfig
<1> QED
  BY <1>1, <1>2, <1>3, TypeInvariant, PTL DEF Spec

------------------------------------------------------------------------------
(* Pages                                                                   *)

\* The active rows are finitely many, however many names and versions there are.
LEMMA ActiveAreFinite == Spec => []IsFiniteSet(ActiveRows)
<1>1. Init => IsFiniteSet(ActiveRows)
  <2> SUFFICES ASSUME Init PROVE ActiveRows = {}
    BY FS_EmptySet
  <2> QED
    BY DEF Init, ActiveRows, ActiveVersions, NoRow
<1>2. TypeOK /\ IsFiniteSet(ActiveRows) /\ [Next]_vars => IsFiniteSet(ActiveRows)'
  <2> SUFFICES ASSUME TypeOK, IsFiniteSet(ActiveRows), [Next]_vars PROVE IsFiniteSet(ActiveRows')
    OBVIOUS
  <2>1. ASSUME NEW n \in Names, NEW v \in Versions, NEW config, NEW active \in BOOLEAN,
               SaveVersion(n, v, config, active)
        PROVE  IsFiniteSet(ActiveRows')
    <3>1. \A m \in Names : table'[m] = IF m = n THEN Saved(n, v, config, active) ELSE table[m]
      BY <2>1 DEF SaveVersion, TypeOK
    <3>2. ActiveRows' \in SUBSET (ActiveRows \union {<<n, v>>})
      <4> SUFFICES ASSUME NEW m \in Names, NEW w \in ActiveVersions(m)', m # n \/ w # v
                   PROVE  w \in ActiveVersions(m)
        BY DEF ActiveRows
      <4> QED
        BY <3>1, SavedRows DEF ActiveVersions
    <3>3. IsFiniteSet(ActiveRows \union {<<n, v>>})
      BY FS_AddElement
    <3> QED
      BY <3>2, <3>3, FS_Subset
  <2>2. CASE UNCHANGED table
    BY <2>2 DEF ActiveRows, ActiveVersions
  <2>3. ASSUME NEW n \in Names, Load(n) PROVE IsFiniteSet(ActiveRows')
    BY <2>1, <2>3, VersionsAssumption DEF Load, VersionsAssumption
  <2>4. ASSUME NEW n \in Names, NEW v \in Versions, NEW config \in Configs,
               NEW active \in BOOLEAN, SaveByHand(n, v, config, active)
        PROVE  IsFiniteSet(ActiveRows')
    BY <2>1, <2>4 DEF SaveByHand
  <2> QED
    BY <2>2, <2>3, <2>4
       DEF Next, Serve, Restart, EditFile, GetActive, CreateTask, UseVersion, vars, catalogue
<1> QED
  BY <1>1, <1>2, TypeCorrect, PTL DEF Spec

\* As no name has two active rows, the count of names is the count of rows.
LEMMA TotalIsRows ==
    ASSUME OneActive, IsFiniteSet(ActiveRows)
    PROVE  Total \in Nat /\ Cardinality(ActiveRows) = Total
<1> DEFINE A == {r[1] : r \in ActiveRows}
           f == [r \in ActiveRows |-> r[1]]
<1>1. f \in Bijection(ActiveRows, A)
  <2>1. \A r \in ActiveRows : r = <<r[1], r[2]>> /\ r[1] \in Names /\ r[2] \in ActiveVersions(r[1])
    BY DEF ActiveRows
  <2>2. \A r, q \in ActiveRows : f[r] = f[q] => r = q
    BY <2>1 DEF OneActive
  <2> QED
    BY <2>2 DEF Bijection, Injection, Surjection, IsInjective
<1>2. ExistsBijection(ActiveRows, A)
  BY <1>1 DEF ExistsBijection
<1>3. IsFiniteSet(A) /\ Cardinality(A) = Cardinality(ActiveRows)
  BY <1>2, FS_Bijection
<1> QED
  BY <1>3, FS_CardinalityType DEF Total

\* Every number of rows before one ends on a page.
LEMMA PageOf ==
    ASSUME NEW size \in Nat \ {0}, NEW before \in Nat
    PROVE  \E k \in Nat : k * size <= before /\ before < k * size + size
<1> DEFINE S == {n \in Nat : \E k \in Nat : k * size <= n /\ n < k * size + size}
<1>1. 0 \in S
  <2>1. 0 * size = 0
    OBVIOUS
  <2> QED
    BY <2>1
<1>2. ASSUME NEW n \in Nat, n \in S PROVE n + 1 \in S
  <2>1. PICK k \in Nat : k * size <= n /\ n < k * size + size
    BY <1>2
  <2>2. (k + 1) * size = k * size + size /\ k * size \in Nat
    OBVIOUS
  <2>3. CASE n + 1 < k * size + size
    BY <2>1, <2>2, <2>3
  <2>4. CASE n + 1 = k * size + size
    <3> DEFINE j == k + 1
    <3>1. j \in Nat /\ j * size <= n + 1 /\ n + 1 < j * size + size
      BY <2>2, <2>4
    <3> HIDE DEF j
    <3> QED
      BY <3>1
  <2> QED
    BY <2>1, <2>2, <2>3, <2>4
<1> HIDE DEF S
<1>3. before \in S
  BY <1>1, <1>2, SetInduction
<1> QED
  BY <1>3 DEF S

\* Pages of any size show every workflow that has an active version.
LEMMA PagesShowAll ==
    ASSUME OneActive, IsFiniteSet(ActiveRows), NEW size \in Nat \ {0}
    PROVE  UNION {Page(page, size) : page \in {k \in 1..Total : (k - 1) * size < Total}}
               = {n \in Names : ActiveVersions(n) # {}}
<1> DEFINE Shown == UNION {Page(page, size) : page \in {k \in 1..Total : (k - 1) * size < Total}}
<1>1. ASSUME NEW page, NEW n \in Page(page, size) PROVE n \in Names /\ ActiveVersions(n) # {}
  BY DEF Page, ActiveRows
<1>2. ASSUME NEW n \in Names, NEW v \in ActiveVersions(n)
      PROVE  \E page \in {k \in 1..Total : (k - 1) * size < Total} : n \in Page(page, size)
  <2> DEFINE Before == {q \in ActiveRows : q[1] < n}
             Upto == {q \in ActiveRows : q[1] <= n}
             before == Cardinality(Before)
             upto == Cardinality(Upto)
  <2>1. <<n, v>> \in ActiveRows
    BY <1>2 DEF ActiveRows, ActiveVersions
  <2>2. n \in Nat /\ \A q \in ActiveRows : q[1] \in Nat
    BY VersionsAssumption DEF VersionsAssumption, ActiveRows
  <2>3. /\ Before \subseteq Upto /\ Upto \subseteq ActiveRows
        /\ <<n, v>> \in Upto /\ <<n, v>> \notin Before
    BY <2>1, <2>2
  <2> HIDE DEF Before, Upto
  <2>4. /\ before \in Nat /\ upto \in Nat /\ before < upto /\ upto <= Total /\ Total \in Nat
    <3>1. IsFiniteSet(Upto) /\ upto <= Cardinality(ActiveRows)
      BY <2>3, FS_Subset
    <3>2. IsFiniteSet(Before) /\ before <= upto /\ before # upto
      BY <2>3, <3>1, FS_Subset
    <3> QED
      BY <3>1, <3>2, FS_CardinalityType, TotalIsRows
  <2>5. PICK k \in Nat : k * size <= before /\ before < k * size + size
    BY <2>4, PageOf
  <2>6. k <= k * size /\ k * size \in Nat
    OBVIOUS
  <2>7. k + 1 \in 1..Total /\ ((k + 1) - 1) * size = k * size
    BY <2>4, <2>5, <2>6
  <2>8. k + 1 \in {j \in 1..Total : (j - 1) * size < Total}
    BY <2>4, <2>5, <2>6, <2>7
  <2>9. before < Offset(k + 1, size) + size /\ upto > Offset(k + 1, size)
    BY <2>4, <2>5, <2>6, <2>7 DEF Offset
  <2>10. n \in Page(k + 1, size)
    BY <2>1, <2>9 DEF Page, Before, Upto
  <2> QED
    BY <2>8, <2>10
<1> QED
  BY <1>1, <1>2

\* Whatever the page size, whoever reads the pages 1, 2, ... up to `total` misses no workflow that has an active
\* version (workflow_repo.py:140-187).
THEOREM PagesAreComplete == Spec => []PagesComplete
<1>1. OneActive /\ IsFiniteSet(ActiveRows) => PagesComplete
  BY PagesShowAll, VersionsAssumption DEF PagesComplete, VersionsAssumption
<1> QED
  BY <1>1, ActiveIsUnique, ActiveAreFinite, PTL

=============================================================================
