------------------------------- MODULE Server -------------------------------
(***************************************************************************)
(* The life of the server process (run in cmd/toise-server): the OTLP        *)
(* receiver, the HTTP server and the maintenance loops over the tenant       *)
(* stores, and the order in which a signal or a fatal serve error takes them *)
(* down again.  The deferred calls of run are the stages of the shutdown.    *)
(*                                                                           *)
(* Abstractions.  One tenant.  What a pass or an export does is whether it   *)
(* uses the store and whether it commits.                                    *)
(***************************************************************************)
EXTENDS Naturals, FiniteSets

CONSTANTS ServerExports,     \* concurrent OTLP requests
          MaxLoops,    \* bound: loops that are on at once
          MaxCommits   \* bound: commits

ASSUME ServerAssumption == MaxLoops \in Nat /\ MaxCommits \in Nat

Loops == {"sweep", "compaction", "snapshot", "backup", "logship"}

VARIABLES stage,      \* where run is
          loops,      \* maintenance loop -> "off", "waiting", "pass" or "joined"
          exports,    \* export -> "idle", "running" or "refused"
          streams,    \* whether an HTTP stream is open
          cancelled,  \* ctx is done
          commits,    \* events committed
          snapshotAt, \* the commits the last snapshot covers
          backupAt    \* the commits the last checkpoint covers

serverVars == <<stage, loops, exports, streams, cancelled, commits, snapshotAt, backupAt>>

workVars == <<loops, exports, streams, cancelled, commits, snapshotAt, backupAt>>

-----------------------------------------------------------------------------
ServerInit ==
    /\ stage = "starting"
    /\ loops = [l \in Loops |-> "off"]
    /\ exports = [x \in ServerExports |-> "idle"]
    /\ streams = FALSE /\ cancelled = FALSE
    /\ commits = 0 /\ snapshotAt = 0 /\ backupAt = 0

receiving == stage \in {"listening", "serving", "draining", "joining"}

(* The receiver serves before anything else does. *)
Listen ==
    /\ stage = "starting"
    /\ stage' = "listening"
    /\ UNCHANGED workVars

(* The audit log or the log sink cannot be opened: run returns, and its         *)
(* deferred calls run.                                                          *)
FailStartup ==
    /\ stage = "listening"
    /\ stage' = "joining" /\ cancelled' = TRUE
    /\ UNCHANGED <<loops, exports, streams, commits, snapshotAt, backupAt>>

(* The loops whose interval is set, and the HTTP server. *)
Serve ==
    /\ stage = "listening"
    /\ \E on \in SUBSET Loops :
         /\ Cardinality(on) <= MaxLoops
         /\ loops' = [l \in Loops |-> IF l \in on THEN "waiting" ELSE "off"]
    /\ stage' = "serving"
    /\ UNCHANGED <<exports, streams, cancelled, commits, snapshotAt, backupAt>>

(* A tick and ctx.Done may both be ready, and select takes either. *)
LoopTick(l) ==
    /\ loops[l] = "waiting"
    /\ loops' = [loops EXCEPT ![l] = "pass"]
    /\ UNCHANGED <<stage, exports, streams, cancelled, commits, snapshotAt, backupAt>>

LoopReturns(l) ==
    /\ loops[l] = "waiting" /\ cancelled
    /\ loops' = [loops EXCEPT ![l] = "joined"]
    /\ UNCHANGED <<stage, exports, streams, cancelled, commits, snapshotAt, backupAt>>

endPass(l) ==
    /\ loops[l] = "pass"
    /\ loops' = [loops EXCEPT ![l] = "waiting"]
    /\ UNCHANGED <<stage, exports, streams, cancelled>>

(* A liveness sweep appends the deletions it decides. *)
SweepPass ==
    /\ endPass("sweep")
    /\ commits' = IF commits < MaxCommits THEN commits + 1 ELSE commits
    /\ UNCHANGED <<snapshotAt, backupAt>>

(* Coalescing, then pruning to the tenant's retention or to the global one. *)
CompactionPass ==
    /\ endPass("compaction")
    /\ UNCHANGED <<commits, snapshotAt, backupAt>>

(* writeTenantSnapshot; a failed write leaves the last one. *)
SnapshotPass ==
    /\ endPass("snapshot")
    /\ snapshotAt' \in {snapshotAt, commits}
    /\ UNCHANGED <<commits, backupAt>>

BackupPass ==
    /\ endPass("backup")
    /\ backupAt' \in {backupAt, commits}
    /\ UNCHANGED <<commits, snapshotAt>>

(* Ship and SyncOnce, modules LogShip and Annotations. *)
LogshipPass ==
    /\ endPass("logship")
    /\ UNCHANGED <<commits, snapshotAt, backupAt>>

-----------------------------------------------------------------------------
ExportBegins(x) ==
    /\ receiving /\ exports[x] = "idle"
    /\ exports' = [exports EXCEPT ![x] = "running"]
    /\ UNCHANGED <<stage, loops, streams, cancelled, commits, snapshotAt, backupAt>>

ExportEnds(x, commit) ==
    /\ exports[x] = "running" /\ (commit => commits < MaxCommits)
    /\ exports' = [exports EXCEPT ![x] = "idle"]
    /\ commits' = IF commit THEN commits + 1 ELSE commits
    /\ UNCHANGED <<stage, loops, streams, cancelled, snapshotAt, backupAt>>

StreamOpens ==
    /\ stage = "serving" /\ ~streams
    /\ streams' = TRUE
    /\ UNCHANGED <<stage, loops, exports, cancelled, commits, snapshotAt, backupAt>>

StreamCloses ==
    /\ streams
    /\ streams' = FALSE
    /\ UNCHANGED <<stage, loops, exports, cancelled, commits, snapshotAt, backupAt>>

-----------------------------------------------------------------------------
(* SIGTERM cancels ctx at once and begins httpSrv.Shutdown. *)
Signal ==
    /\ stage = "serving"
    /\ stage' = "draining" /\ cancelled' = TRUE
    /\ UNCHANGED <<loops, exports, streams, commits, snapshotAt, backupAt>>

(* Mutant: a serve error does not cancel ctx. *)
ServeErrorUncancelled ==
    /\ stage = "serving"
    /\ stage' = "joining"
    /\ UNCHANGED workVars

(* A serve error from either server returns from run without draining HTTP. *)
ServeError ==
    /\ stage = "serving"
    /\ stage' = "joining" /\ cancelled' = TRUE
    /\ UNCHANGED <<loops, exports, streams, commits, snapshotAt, backupAt>>

(* Shutdown returns when no stream is left, or its grace elapses and Close cuts *)
(* them.                                                                        *)
Drained ==
    /\ stage = "draining"
    /\ streams' = FALSE
    /\ stage' = "joining"
    /\ UNCHANGED <<loops, exports, cancelled, commits, snapshotAt, backupAt>>

(* wg.Wait. *)
LoopsJoined ==
    /\ stage = "joining" /\ \A l \in Loops : loops[l] \in {"off", "joined"}
    /\ stage' = "stopping"
    /\ UNCHANGED workVars

(* Mutant: the final snapshot does not wait for the exports in flight. *)
ReceiverStopsHard ==
    /\ stage = "stopping"
    /\ stage' = "snapshotting"
    /\ UNCHANGED workVars

(* receiver.Stop returns once the exports in flight have. *)
ReceiverStopped ==
    /\ stage = "stopping" /\ \A x \in ServerExports : exports[x] = "idle"
    /\ stage' = "snapshotting"
    /\ UNCHANGED workVars

(* The final snapshot, and reg.Close. *)
FinalSnapshot ==
    /\ stage = "snapshotting"
    /\ snapshotAt' = commits
    /\ stage' = "closed"
    /\ UNCHANGED <<loops, exports, streams, cancelled, commits, backupAt>>

ServerNext ==
    \/ Listen \/ FailStartup \/ Serve
    \/ \E l \in Loops : LoopTick(l) \/ LoopReturns(l)
    \/ SweepPass \/ CompactionPass \/ SnapshotPass \/ BackupPass \/ LogshipPass
    \/ \E x \in ServerExports : ExportBegins(x) \/ \E commit \in BOOLEAN : ExportEnds(x, commit)
    \/ StreamOpens \/ StreamCloses
    \/ Signal \/ ServeError \/ Drained \/ LoopsJoined \/ ReceiverStopped \/ FinalSnapshot

-----------------------------------------------------------------------------
ServerTypeOK ==
    /\ stage \in {"starting", "listening", "serving", "draining", "joining", "stopping",
                  "snapshotting", "closed"}
    /\ loops \in [Loops -> {"off", "waiting", "pass", "joined"}]
    /\ exports \in [ServerExports -> {"idle", "running"}]
    /\ snapshotAt \in 0..commits /\ backupAt \in 0..commits

(* Nothing that writes uses a store once it is closed: the loops are joined and *)
(* the exports answered on every way out of run, the early returns included     *)
(* (the deferred calls of run).                                                 *)
StoresOutliveWriters ==
    stage = "closed" => /\ \A l \in Loops : loops[l] \in {"off", "joined"}
                        /\ \A x \in ServerExports : exports[x] = "idle"

(* The final snapshot misses nothing: an export or a sweep that commits while   *)
(* the process shuts down is in it (the deferred final snapshot).               *)
FinalSnapshotComplete ==
    stage = "closed" => snapshotAt = commits

(* The process leaves its stores as its writers left them, on every way out     *)
(* (the deferred calls of run).                                                 *)
ShutdownSound ==
    StoresOutliveWriters /\ FinalSnapshotComplete

-----------------------------------------------------------------------------
(* The loops, the handlers and run itself make progress. *)
ServerFairness ==
    /\ WF_serverVars(Drained \/ LoopsJoined \/ ReceiverStopped \/ FinalSnapshot)
    /\ WF_serverVars(SweepPass \/ CompactionPass \/ SnapshotPass \/ BackupPass \/ LogshipPass)
    /\ SF_serverVars(\E l \in Loops : LoopReturns(l))
    /\ \A x \in ServerExports : WF_serverVars(ExportEnds(x, FALSE))

(* A shutdown ends: whatever is running when it begins, run returns (run). *)
ShutdownCompletes ==
    ServerFairness => stage \in {"draining", "joining"} ~> stage = "closed"
=============================================================================
