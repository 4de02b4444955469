--------------------------- MODULE Configuration ---------------------------
(***************************************************************************)
(* The server's configuration (internal/config) and what run starts from it: *)
(* defaults, file, environment and flags overlaid in that order, the         *)
(* production lockdown, Validate, and the jobs of cmd/toise-server that the   *)
(* result turns on.                                                          *)
(*                                                                           *)
(* Abstractions.  A setting is whether it is set, on, or positive; a layer    *)
(* is the settings it names.  Settings whose value only labels or locates     *)
(* something are left out, as are malformed values, which stop the boot.      *)
(***************************************************************************)
EXTENDS Naturals, FiniteSets, Functions, TLC

CONSTANTS SettingFamilies, \* sets of settings that interact, one explored at a time
          MaxNamed         \* bound: settings a layer names

ASSUME ConfigurationAssumption == MaxNamed \in Nat

VARIABLES layers,  \* layer -> the settings it names, with their values
          loading, \* how far Load has come
          config,  \* the Config being resolved
          jobs     \* what run has started

configVars == <<layers, loading, config, jobs>>

Settings == {"Production", "GraphQLIntrospection", "Playground", "DebugUI",
             "AllowUnauthenticatedWrites", "RetentionMaxAge", "TenantRetentionMaxAge",
             "CompactionInterval", "SnapshotInterval", "LivenessSweepInterval",
             "BackupDir", "BackupInterval", "LogShipDir", "LogShipInterval",
             "LogShipS3Bucket", "LogShipS3Endpoint", "LogShipS3UseSSL",
             "TLSCertFile", "TLSKeyFile", "TLSClientCAFile", "IngestMTLSOnly",
             "TLSTerminatedUpstream", "ReadTokens", "OIDCIssuer", "DeriveOnly",
             "ListenExposed", "ShipExposed"}

(* Settings without a flag. *)
unflagged == {"TenantRetentionMaxAge", "ReadTokens", "LogShipS3Bucket",
              "LogShipS3Endpoint", "LogShipS3UseSSL"}

(* Text settings, which an empty variable leaves as they are. *)
textSettings == {"BackupDir", "LogShipDir", "LogShipS3Bucket", "LogShipS3Endpoint",
          "TLSCertFile", "TLSKeyFile", "TLSClientCAFile", "ReadTokens", "OIDCIssuer",
          "TenantRetentionMaxAge"}

defaultConfig ==
    [s \in Settings |-> s \in {"CompactionInterval", "SnapshotInterval",
        "LivenessSweepInterval", "GraphQLIntrospection", "Playground", "DebugUI",
        "AllowUnauthenticatedWrites", "LogShipS3UseSSL"}]

lockedDown == {"GraphQLIntrospection", "Playground", "DebugUI", "AllowUnauthenticatedWrites"}

(* What a layer may say about the settings of a family. *)
layerOf(layer, family) ==
    LET named == family \ (IF layer = "flags" THEN unflagged ELSE {})
        clears(f) == layer = "env" /\ \E s \in DOMAIN f : s \in textSettings /\ ~f[s]
    IN  {f \in UNION {[S -> BOOLEAN] : S \in {T \in SUBSET named : Cardinality(T) <= MaxNamed}} :
            ~clears(f)}

-----------------------------------------------------------------------------
ConfigInit ==
    /\ \E family \in SettingFamilies :
         layers \in {[file |-> a, env |-> b, flags |-> c] :
                        a \in layerOf("file", family), b \in layerOf("env", family),
                        c \in layerOf("flags", family)}
    /\ loading = "file"
    /\ config = defaultConfig
    /\ jobs = {}

(* applyFile, applyEnv and the assignments after flag.Parse: each touches what  *)
(* its layer names and keeps the rest.                                          *)
overlay(c, layer) == layer @@ c

ApplyFile ==
    /\ loading = "file"
    /\ config' = overlay(config, layers.file)
    /\ loading' = "env"
    /\ UNCHANGED <<layers, jobs>>

ApplyEnv ==
    /\ loading = "env"
    /\ config' = overlay(config, layers.env)
    /\ loading' = "flags"
    /\ UNCHANGED <<layers, jobs>>

(* The flags, then the lockdown of a production profile any layer asked for. *)
ApplyFlags ==
    LET c == overlay(config, layers.flags)
    IN  /\ loading = "flags"
        /\ config' = [s \in Settings |-> c[s] /\ (c.Production => s \notin lockedDown)]
        /\ loading' = "resolved"
        /\ UNCHANGED <<layers, jobs>>

-----------------------------------------------------------------------------
TLSEnabled(c) == c.TLSCertFile /\ c.TLSKeyFile

LogShipS3Enabled(c) == c.LogShipS3Bucket

LogShipEnabled(c) == (c.LogShipDir \/ LogShipS3Enabled(c)) /\ c.LogShipInterval

validTLS(c) ==
    /\ c.TLSCertFile = c.TLSKeyFile
    /\ c.TLSClientCAFile => TLSEnabled(c)
    /\ c.IngestMTLSOnly => /\ c.TLSClientCAFile
                           /\ c.ReadTokens \/ c.OIDCIssuer
                           /\ ~c.DeriveOnly

(* Mutant: a backup directory without an interval is accepted. *)
validJobsLoose(c) ==
    /\ c.RetentionMaxAge => c.CompactionInterval
    /\ c.LogShipDir => c.LogShipInterval
    /\ LogShipS3Enabled(c) => ~c.LogShipDir /\ c.LogShipInterval /\ c.LogShipS3Endpoint

validJobs(c) ==
    /\ c.RetentionMaxAge => c.CompactionInterval
    /\ c.BackupDir => c.BackupInterval
    /\ c.LogShipDir => c.LogShipInterval
    /\ LogShipS3Enabled(c) => ~c.LogShipDir /\ c.LogShipInterval /\ c.LogShipS3Endpoint

Validate ==
    /\ loading = "resolved"
    /\ loading' = IF validTLS(config) /\ validJobs(config) THEN "valid" ELSE "refused"
    /\ UNCHANGED <<layers, config, jobs>>

cleartextShipping(c) ==
    LogShipS3Enabled(c) /\ ~c.LogShipS3UseSSL /\ c.LogShipS3Endpoint /\ c.ShipExposed

(* The loops run starts, and how the listeners are protected. *)
started(c) ==
    {j \in {"sweep", "coalesce", "prune", "tenant prune", "snapshot", "backup", "logship",
            "tls", "mtls", "introspection", "playground", "debug ui"} :
        CASE j = "sweep" -> c.LivenessSweepInterval
          [] j = "coalesce" -> c.CompactionInterval
          [] j = "prune" -> c.CompactionInterval /\ c.RetentionMaxAge
          [] j = "tenant prune" -> c.CompactionInterval /\ c.TenantRetentionMaxAge
          [] j = "snapshot" -> c.SnapshotInterval
          [] j = "backup" -> c.BackupDir /\ c.BackupInterval
          [] j = "logship" -> LogShipEnabled(c)
          [] j = "tls" -> TLSEnabled(c)
          [] j = "mtls" -> TLSEnabled(c) /\ c.TLSClientCAFile
          [] j = "introspection" -> c.GraphQLIntrospection
          [] j = "playground" -> c.Playground
          [] j = "debug ui" -> c.DebugUI}

(* insecureConditions: what the start-up warnings and the gauge report. *)
insecure(c) ==
    LET auth == c.ReadTokens \/ c.OIDCIssuer
        tls == TLSEnabled(c) \/ c.TLSTerminatedUpstream
        reason == IF auth THEN "no_tls" ELSE IF tls THEN "no_auth" ELSE "no_auth_no_tls"
    IN  (IF c.ListenExposed /\ ~(auth /\ tls) THEN {reason} ELSE {})
        \cup (IF c.ListenExposed /\ ~auth /\ c.AllowUnauthenticatedWrites
              THEN {"unauthenticated_writes"} ELSE {})
        \cup (IF cleartextShipping(c) THEN {"cleartext"} ELSE {})

Run ==
    /\ loading = "valid"
    /\ jobs' = started(config) \cup insecure(config)
    /\ loading' = "running"
    /\ UNCHANGED <<layers, config>>

ConfigNext == ApplyFile \/ ApplyEnv \/ ApplyFlags \/ Validate \/ Run

-----------------------------------------------------------------------------
ConfigTypeOK ==
    /\ loading \in {"file", "env", "flags", "resolved", "valid", "refused", "running"}
    /\ config \in [Settings -> BOOLEAN]

(* What the settings mean together, layer by layer from the highest. *)
saidSetting(s) ==
    IF s \in DOMAIN layers.flags THEN layers.flags[s]
    ELSE IF s \in DOMAIN layers.env THEN layers.env[s]
    ELSE IF s \in DOMAIN layers.file THEN layers.file[s] ELSE defaultConfig[s]

(* The highest layer that names a setting decides it, and a production profile  *)
(* from any layer is not reopened by another (resolve).                         *)
HighestLayerDecides ==
    loading \in {"valid", "running"} =>
        \A s \in Settings : config[s] = (saidSetting(s) /\ (saidSetting("Production") => s \notin lockedDown))

(* A configuration that is accepted does what it says: a retention age is       *)
(* pruned to, a backup directory and a shipping target are written to, a        *)
(* certificate is served, a client CA verified, and a production profile opens  *)
(* none of the toggles it locks (Validate, run).                                *)
AcceptedMeansActive ==
    loading = "running" =>
        /\ config.RetentionMaxAge => "prune" \in jobs
        /\ config.BackupDir => "backup" \in jobs
        /\ config.LogShipDir \/ config.LogShipS3Bucket => "logship" \in jobs
        /\ config.TLSCertFile \/ config.TLSKeyFile => "tls" \in jobs
        /\ config.TLSClientCAFile \/ config.IngestMTLSOnly => "mtls" \in jobs
        /\ config.Production =>
             jobs \cap {"introspection", "playground", "debug ui", "unauthenticated_writes"} = {}

(* What an accepted configuration says is what runs: the layers are resolved by  *)
(* their order and nothing that was set is left inactive (resolve, Validate).    *)
AcceptedIsHonoured ==
    HighestLayerDecides /\ AcceptedMeansActive

(* The same of a tenant's own retention age (Validate). *)
TenantRetentionPruned ==
    loading = "running" /\ config.TenantRetentionMaxAge => "tenant prune" \in jobs
=============================================================================
