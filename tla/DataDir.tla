------------------------------ MODULE DataDir ------------------------------
(***************************************************************************)
(* The data directory: the boot migration of a single-tenant layout          *)
(* (migrateLegacy), the tenant directories a boot opens, and the cold tools   *)
(* that run against the same directory (checkpoint, drop-snapshot and         *)
(* delete-tenant).  Whoever opens a store holds its lock.                     *)
(*                                                                           *)
(* Abstractions.  A path is the sequence of the directories it goes through,  *)
(* and a legacy store is a few files of which CURRENT marks the layout.  The  *)
(* tools' flags, and their output, are left out.                              *)
(***************************************************************************)
EXTENDS Naturals, Sequences, FiniteSets, Functions, TLC

CONSTANTS DirTenants,      \* tenants that may have a directory, DefaultDir aside
          DefaultDir,
          LegacyFiles,     \* the files of a root store, "CURRENT" among them
          Stagings,        \* the names MkdirTemp picks
          DirDeployments,  \* sets of "start": the server may boot, or open one
                           \* more tenant, while delete-tenant runs
          MaxNesting       \* bound: the depth of staging at which a boot may crash

ASSUME DirAssumption ==
    /\ "CURRENT" \in LegacyFiles /\ DefaultDir \notin DirTenants
    /\ DirDeployments \subseteq SUBSET {"start"} /\ MaxNesting \in Nat

VARIABLES dirFaults,
          files,      \* legacy file -> the directories of its path
          staged,     \* the staging directories at the root
          tmp,        \* the one this boot made, {} before
          moving,     \* the listing the running boot still has to move
          server,     \* "down", "moving" or "up"
          tenantDirs, \* the directories named after a tenant
          locks,      \* tenant -> who has its store open
          tool        \* the running tool

dirVars == <<dirFaults, files, staged, tmp, moving, server, tenantDirs, locks, tool>>

AllDirs == DirTenants \cup {DefaultDir}

noTool == [kind |-> "none", todo |-> {}, target |-> DefaultDir]

atRoot == {f \in DOMAIN files : files[f] = <<>>}

release(who) == [id \in AllDirs |-> IF locks[id] = who THEN "free" ELSE locks[id]]

-----------------------------------------------------------------------------
DirInit ==
    /\ dirFaults \in DirDeployments
    /\ files \in {<< >>, [f \in LegacyFiles |-> <<>>]}
    /\ tenantDirs \in IF files = << >> THEN SUBSET AllDirs ELSE {{}}
    /\ staged = {} /\ tmp = {} /\ moving = {}
    /\ server = "down"
    /\ locks = [id \in AllDirs |-> "free"]
    /\ tool = noTool

(* migrateLegacy up to the listing of the root, stagings of earlier boots       *)
(* included.  With no marker at the root there is nothing to migrate; with a    *)
(* default directory beside it the boot is refused.                             *)
BeginMigration ==
    /\ server = "down"
    /\ "CURRENT" \in atRoot /\ DefaultDir \notin tenantDirs
    /\ \E name \in Stagings \ staged :
         /\ tmp' = {name}
         /\ moving' = atRoot \cup staged \cup tenantDirs
         /\ staged' = staged \cup {name}
    /\ server' = "moving"
    /\ UNCHANGED <<dirFaults, files, tenantDirs, locks, tool>>

(* One Rename into the staging directory: a file, or a directory and all in it. *)
MoveEntry(e) ==
    LET name == CHOOSE n \in tmp : TRUE
        under(path) == path # <<>> /\ path[1] = e
    IN  /\ server = "moving" /\ e \in moving
        /\ moving' = moving \ {e}
        /\ files' = [f \in DOMAIN files |->
                        IF f = e \/ under(files[f]) THEN <<name>> \o files[f] ELSE files[f]]
        /\ staged' = staged \ {e}
        /\ tenantDirs' = tenantDirs \ {e}
        /\ UNCHANGED <<dirFaults, tmp, server, locks, tool>>

(* The last Rename, from the staging directory to the default tenant's. *)
FinishMigration ==
    LET name == CHOOSE n \in tmp : TRUE
    IN  /\ server = "moving" /\ moving = {}
        /\ files' = [f \in DOMAIN files |->
                        IF files[f] # <<>> /\ files[f][1] = name
                        THEN <<DefaultDir>> \o Tail(files[f]) ELSE files[f]]
        /\ staged' = staged \ tmp
        /\ tmp' = {}
        /\ tenantDirs' = tenantDirs \cup {DefaultDir}
        /\ server' = "down"
        /\ UNCHANGED <<dirFaults, moving, locks, tool>>

MigrationCrash ==
    /\ server = "moving" /\ \A f \in DOMAIN files : Len(files[f]) <= MaxNesting
    /\ server' = "down" /\ moving' = {} /\ tmp' = {}
    /\ UNCHANGED <<dirFaults, files, staged, tenantDirs, locks, tool>>

(* The rest of the boot: every tenant directory is opened, the default one made *)
(* if it is missing.  A store a tool has open is quarantined, the default's     *)
(* failure ends the boot.                                                       *)
DirBoot ==
    /\ server = "down" /\ "CURRENT" \notin atRoot
    /\ tool.kind = "delete" => "start" \in dirFaults
    /\ IF locks[DefaultDir] # "free" THEN UNCHANGED <<server, tenantDirs, locks>>
       ELSE /\ server' = "up"
            /\ tenantDirs' = tenantDirs \cup {DefaultDir}
            /\ locks' = [id \in AllDirs |-> IF id \in tenantDirs' /\ locks[id] = "free"
                                            THEN "server" ELSE locks[id]]
    /\ UNCHANGED <<dirFaults, files, staged, tmp, moving, tool>>

(* A request for a tenant the server does not have open: made if it is new. *)
ServeTenant(id) ==
    /\ server = "up" /\ locks[id] = "free"
    /\ tool.kind = "delete" => "start" \in dirFaults
    /\ tenantDirs' = tenantDirs \cup {id}
    /\ locks' = [locks EXCEPT ![id] = "server"]
    /\ UNCHANGED <<dirFaults, files, staged, tmp, moving, server, tool>>

DirStop ==
    /\ server = "up"
    /\ server' = "down"
    /\ locks' = release("server")
    /\ UNCHANGED <<dirFaults, files, staged, tmp, moving, tenantDirs, tool>>

-----------------------------------------------------------------------------
(* openExistingStores for checkpoint and drop-snapshot: nothing is made, and a  *)
(* legacy layout or a directory without tenants is an error.                    *)
OpenExisting(kind) ==
    /\ tool = noTool /\ server # "moving"
    /\ "CURRENT" \notin atRoot /\ tenantDirs # {}
    /\ tool' = [noTool EXCEPT !.kind = kind, !.todo = tenantDirs]
    /\ UNCHANGED <<dirFaults, files, staged, tmp, moving, server, tenantDirs, locks>>

(* One store of the loop; a lock held elsewhere closes those already open. *)
OpenNext(id) ==
    /\ tool.kind \in {"checkpoint", "drop-snapshot"} /\ id \in tool.todo
    /\ IF locks[id] = "free"
       THEN /\ locks' = [locks EXCEPT ![id] = "tool"]
            /\ tool' = [tool EXCEPT !.todo = @ \ {id}]
       ELSE /\ locks' = release("tool")
            /\ tool' = noTool
    /\ UNCHANGED <<dirFaults, files, staged, tmp, moving, server, tenantDirs>>

(* With every store open the tool does its work and closes them. *)
CloseExisting ==
    /\ tool.kind \in {"checkpoint", "drop-snapshot"} /\ tool.todo = {}
    /\ locks' = release("tool")
    /\ tool' = noTool
    /\ UNCHANGED <<dirFaults, files, staged, tmp, moving, server, tenantDirs>>

(* Mutant: delete-tenant does not try the lock. *)
DeleteTenantUnlocked(id) ==
    /\ tool = noTool /\ server # "moving" /\ id \in tenantDirs \ {DefaultDir}
    /\ tool' = [noTool EXCEPT !.kind = "delete", !.target = id]
    /\ UNCHANGED <<dirFaults, files, staged, tmp, moving, server, tenantDirs, locks>>

(* delete-tenant up to the lock, which it takes and releases.  The default       *)
(* tenant, an absent one and one in use are refused.                            *)
DeleteTenant(id) ==
    /\ tool = noTool /\ server # "moving" /\ id \in tenantDirs \ {DefaultDir}
    /\ locks[id] = "free"
    /\ tool' = [noTool EXCEPT !.kind = "delete", !.target = id]
    /\ UNCHANGED <<dirFaults, files, staged, tmp, moving, server, tenantDirs, locks>>

RemoveTenant ==
    /\ tool.kind = "delete"
    /\ tenantDirs' = tenantDirs \ {tool.target}
    /\ tool' = noTool
    /\ UNCHANGED <<dirFaults, files, staged, tmp, moving, server, locks>>

DirNext ==
    \/ BeginMigration \/ FinishMigration \/ MigrationCrash \/ DirBoot \/ DirStop
    \/ \E e \in LegacyFiles \cup Stagings \cup AllDirs : MoveEntry(e)
    \/ \E kind \in {"checkpoint", "drop-snapshot"} : OpenExisting(kind)
    \/ \E id \in AllDirs : OpenNext(id) \/ DeleteTenant(id) \/ ServeTenant(id)
    \/ CloseExisting \/ RemoveTenant

-----------------------------------------------------------------------------
DirTypeOK ==
    /\ files \in [DOMAIN files -> Seq(Stagings \cup AllDirs)]
    /\ DOMAIN files \subseteq LegacyFiles
    /\ staged \subseteq Stagings /\ tmp \subseteq staged /\ tenantDirs \subseteq AllDirs
    /\ server \in {"down", "moving", "up"}
    /\ locks \in [AllDirs -> {"free", "server", "tool"}]

(* The migration is never seen half done: between boots, and while a server     *)
(* runs, the legacy store's files are all in one directory (migrateLegacy).     *)
NeverHalfMoved ==
    server # "moving" => \A f, g \in DOMAIN files : files[f] = files[g]

(* delete-tenant never removes the directory of a store that is open            *)
(* (runDeleteTenant's lock).                                                    *)
RemovedOnlyClosed ==
    [][\A id \in tenantDirs \ tenantDirs' : server # "moving" => locks[id] = "free"]_dirVars
=============================================================================
