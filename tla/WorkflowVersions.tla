--------------------------- MODULE WorkflowVersions ---------------------------
(***************************************************************************)
(* The workflow_versions table (app/infrastructure/workflow_repo.py), its  *)
(* loading from YAML files at every start (app/api/main.py), and those who *)
(* read it: create_task, which pins a task to the active version, and the  *)
(* requests that look the pinned version up again later (callback, decide  *)
(* and the forms of GET /v1/orchestrations/.../nodes/...).                 *)
(*                                                                         *)
(* Every statement sequence of the repository is one transaction.          *)
(***************************************************************************)
EXTENDS Naturals, FiniteSets

CONSTANTS
    Names,         \* workflow names, numbered in alphabetical order
    Versions,      \* version strings
    First,         \* "v1", what files are loaded as
    Configs,       \* contents of a workflow
    NoConfig,      \* no file, no row
    Tasks,         \* POST /v1/tasks requests and their tasks
    Shipped,       \* the YAML files at the first start
    Overwritten,   \* what operators give other contents to, once it is there: "file"s,
                   \* saved "version"s, both or neither
    PageSizes,     \* values of page_size
    MaxRestarts

ASSUME VersionsAssumption ==
    /\ Names \subseteq Nat
    /\ First \in Versions
    /\ NoConfig \notin Configs
    /\ Shipped \in [Names -> Configs \union {NoConfig}]
    /\ Overwritten \subseteq {"file", "version"}
    /\ PageSizes \subseteq Nat \ {0}
    /\ MaxRestarts \in Nat

VARIABLES
    table,       \* workflow_versions: config and active flag of each name and version
    file,        \* workflow/config/<name>.yml
    toLoad,      \* files the starting server has yet to load; none: it serves
    serving,     \* lifespan has reached its yield
    task,        \* each task: its request, the version it is pinned to, and the
                 \* configuration create_task built its graph from
    used,        \* history: configurations requests about each task have worked with
    restarts

catalogue == <<table, file>>
server == <<toLoad, serving, restarts>>
vars == <<catalogue, server, task, used>>

NoRow == [config |-> NoConfig, active |-> FALSE]
NoTask == [at |-> "idle", name |-> 0, version |-> First, config |-> NoConfig]

Files == {n \in Names : file[n] # NoConfig}

Init ==
    /\ table = [n \in Names |-> [v \in Versions |-> NoRow]]
    /\ file = Shipped
    /\ toLoad = {n \in Names : Shipped[n] # NoConfig}
    /\ serving = FALSE
    /\ restarts = 0
    /\ task = [t \in Tasks |-> NoTask]
    /\ used = [t \in Tasks |-> {}]

------------------------------------------------------------------------------
(* save_version                                                            *)

\* Mutant: the other versions stay active.
Added(n, v, config, active) ==
    [table[n] EXCEPT ![v] = [config |-> config, active |-> active]]

\* Mutant: the UPDATE is made for an inactive version, too.
AlwaysCleared(n, v, config, active) ==
    [w \in Versions |-> IF w = v THEN [config |-> config, active |-> active]
                        ELSE [table[n][w] EXCEPT !.active = FALSE]]

\* UPDATE the other versions if this one is to be active, INSERT OR REPLACE it.
Saved(n, v, config, active) ==
    [w \in Versions |->
        IF w = v THEN [config |-> config, active |-> active]
        ELSE [table[n][w] EXCEPT !.active = @ /\ ~active]]

SaveVersion(n, v, config, active) ==
    table' = [table EXCEPT ![n] = Saved(n, v, config, active)]

------------------------------------------------------------------------------
(* Start-up                                                                *)

\* _load_workflow_configs: one file after the other, in any order.
Load(n) ==
    /\ n \in toLoad
    /\ SaveVersion(n, First, file[n], TRUE)
    /\ toLoad' = toLoad \ {n}
    /\ UNCHANGED <<file, serving, restarts, task, used>>

Serve ==
    /\ ~serving
    /\ toLoad = {}
    /\ serving' = TRUE
    /\ UNCHANGED <<catalogue, toLoad, restarts, task, used>>

\* The server stops, at any await, and starts again; requests in flight are lost.
Restart ==
    /\ restarts < MaxRestarts
    /\ restarts' = restarts + 1
    /\ serving' = FALSE
    /\ toLoad' = Files
    /\ task' = [t \in Tasks |-> IF task[t].at = "insert" THEN [task[t] EXCEPT !.at = "failed"]
                                ELSE task[t]]
    /\ UNCHANGED <<catalogue, used>>

------------------------------------------------------------------------------
(* Operators                                                               *)

\* save_version for any version, made active or inactive.  Operators who overwrite no
\* version give one that exists, or that a file will be loaded as, its own contents.
SaveByHand(n, v, config, active) ==
    /\ "version" \notin Overwritten =>
          /\ table[n][v].config \in {NoConfig, config}
          /\ v = First => file[n] \in {NoConfig, config}
    /\ SaveVersion(n, v, config, active)
    /\ UNCHANGED <<file, server, task, used>>

\* Change or remove a file; or only add one, to a workflow without, that agrees with
\* its saved version.  No file is removed under a starting server, which would end it.
EditFile(n, config) ==
    /\ config = NoConfig => n \notin toLoad
    /\ "file" \notin Overwritten =>
          file[n] = NoConfig /\ table[n][First].config \in {NoConfig, config}
    /\ file' = [file EXCEPT ![n] = config]
    /\ UNCHANGED <<table, server, task, used>>

------------------------------------------------------------------------------
(* Requests                                                                *)

ActiveVersions(n) == {v \in Versions : table[n][v].config # NoConfig /\ table[n][v].active}

\* Mutant: get_active is taken to return a row.
UncheckedActive(t, n) ==
    /\ serving
    /\ task[t].at = "idle"
    /\ \E v \in Versions :
          /\ ActiveVersions(n) \subseteq {v}
          /\ task' = [task EXCEPT ![t] =
                [at |-> "insert", name |-> n, version |-> v, config |-> table[n][v].config]]
    /\ UNCHANGED <<catalogue, server, used>>

\* create_task: get_active; 404 when there is none.
GetActive(t, n) ==
    /\ serving
    /\ task[t].at = "idle"
    /\ \/ \E v \in ActiveVersions(n) :
             task' = [task EXCEPT ![t] =
                [at |-> "insert", name |-> n, version |-> v, config |-> table[n][v].config]]
       \/ ActiveVersions(n) = {} /\ task' = [task EXCEPT ![t].at = "failed"]
    /\ UNCHANGED <<catalogue, server, used>>

\* create_task: the row with the pinned version; the graph of the configuration read.
CreateTask(t) ==
    /\ serving
    /\ task[t].at = "insert"
    /\ task' = [task EXCEPT ![t].at = "created"]
    /\ used' = [used EXCEPT ![t] = {task[t].config}]
    /\ UNCHANGED <<catalogue, server>>

\* Mutant: a callback works with what is active now.
Newest(n, v) == LET active == ActiveVersions(n)
                IN IF active = {} THEN NoConfig ELSE table[n][CHOOSE w \in active : TRUE].config

\* get_by_version; NoConfig when there is no such row.
ByVersion(n, v) == table[n][v].config

\* A callback, a decision or a form, at any time later.
UseVersion(t) ==
    /\ serving
    /\ task[t].at = "created"
    /\ used' = [used EXCEPT ![t] = @ \union {ByVersion(task[t].name, task[t].version)}]
    /\ UNCHANGED <<catalogue, server, task>>

------------------------------------------------------------------------------

Next ==
    \/ \E n \in Names : Load(n)
    \/ Serve
    \/ Restart
    \/ \E n \in Names, v \in Versions, config \in Configs, active \in BOOLEAN :
          SaveByHand(n, v, config, active)
    \/ \E n \in Names, config \in Configs \union {NoConfig} : EditFile(n, config)
    \/ \E t \in Tasks : (\E n \in Names : GetActive(t, n)) \/ CreateTask(t) \/ UseVersion(t)

Spec == Init /\ [][Next]_vars

------------------------------------------------------------------------------
(* list_orchestrations                                                     *)

ActiveRows == {r \in Names \X Versions : r[2] \in ActiveVersions(r[1])}

\* COUNT(DISTINCT workflow_name).
Total == Cardinality({r[1] : r \in ActiveRows})

\* Mutant: an offset of page * page_size.
SkippingOffset(page, size) == page * size

Offset(page, size) == (page - 1) * size

\* ORDER BY workflow_name LIMIT size OFFSET ...; the names a page can show, when rows
\* of one name may come in any order.
Page(page, size) ==
    {n \in Names :
        \E r \in ActiveRows :
            LET before == Cardinality({q \in ActiveRows : q[1] < n})
                upto   == Cardinality({q \in ActiveRows : q[1] <= n})
            IN /\ r[1] = n
               /\ before < Offset(page, size) + size
               /\ upto > Offset(page, size)}

------------------------------------------------------------------------------

\* Types; a task past get_active has a configuration.
TypeOK ==
    /\ table \in [Names -> [Versions -> [config : Configs \union {NoConfig}, active : BOOLEAN]]]
    /\ file \in [Names -> Configs \union {NoConfig}]
    /\ toLoad \subseteq Names
    /\ serving \in BOOLEAN
    /\ restarts \in Nat
    /\ task \in [Tasks -> [at : {"idle", "insert", "created", "failed"},
                           name : Names \union {0}, version : Versions,
                           config : Configs \union {NoConfig}]]
    /\ \A t \in Tasks : task[t].at \in {"insert", "created"} =>
          task[t].name \in Names /\ task[t].config # NoConfig
    /\ used \in [Tasks -> SUBSET (Configs \union {NoConfig})]

\* At most one version of a workflow is active, while the server starts, operators
\* save versions and a start is cut short: create_task's choice is never arbitrary
\* (workflow_repo.py:121-138).
OneActive ==
    \A n \in Names : \A v, w \in ActiveVersions(n) : v = w

\* A workflow that tasks can be created of stays so, unless an operator saves its
\* active version as inactive: no start, half start or edited file, and no save of
\* another version, leaves it without an active one, although the UPDATE takes away
\* every flag before the INSERT gives one back (workflow_repo.py:121-138).
StaysAvailable ==
    [][\A n \in Names : ActiveVersions(n) # {} /\ ActiveVersions(n)' = {} =>
          \E v \in ActiveVersions(n), config \in Configs :
             SaveByHand(n, v, config, FALSE)]_vars

\* The version a task is pinned to is there and means one configuration, that of its
\* graph, for as long as the task lives: no callback is validated against another one
\* and no form comes from another one (task_service.py:62-83, 176-182).  For operators
\* who overwrite nothing; save_version replaces what a version means
\* (test_workflow_repo.py:94-111), whoever is pinned to it.
OneConfig ==
    \A t \in Tasks : used[t] \subseteq {task[t].config}

\* Whoever reads the pages 1, 2, ... up to `total` finds every workflow that has an
\* active version: the count of names agrees with the rows that are paged.
PagesComplete ==
    \A size \in PageSizes :
        UNION {Page(page, size) : page \in {k \in 1..Total : (k - 1) * size < Total}}
            = {n \in Names : ActiveVersions(n) # {}}

------------------------------------------------------------------------------
(* Why they hold: the inductive invariants                                 *)

\* A starting server loads files that are there.
LoadInv == toLoad \subseteq Files

\* When nothing is overwritten: the first version of a workflow that has a file is the
\* file; the version of a task's row is the configuration of its graph; what its
\* requests have used is that configuration.
PinnedInv ==
    /\ \A n \in Files : table[n][First].config \in {NoConfig, file[n]}
    /\ \A t \in Tasks :
          /\ task[t].at \in {"insert", "created"} =>
                table[task[t].name][task[t].version].config = task[t].config
          /\ task[t].at # "created" => used[t] = {}
          /\ used[t] \subseteq {task[t].config}

VersionInv == TypeOK /\ LoadInv /\ PinnedInv

==============================================================================
