------------------------------ MODULE Registry ------------------------------
(***************************************************************************)
(* The tenant registry (internal/registry): one stack per tenant, opened at  *)
(* boot for every tenant on disk and on first use for the others, by         *)
(* concurrent requests that share a slot per tenant.  The open itself runs   *)
(* outside the registry's mutex.                                             *)
(*                                                                           *)
(* Abstractions.  A stack is whether it holds the reporters and the grace    *)
(* window (the four setters behave alike); what openStack reads from disk    *)
(* is modules Durability's and Memento's.  An open may fail at any time, as  *)
(* a full disk or a corrupt store makes it.                                  *)
(***************************************************************************)
EXTENDS Naturals, FiniteSets

CONSTANTS Tenants,        \* the ids in play, Default among them
          Default,
          Requests,       \* concurrent callers of For
          RegistryLimits, \* the values Limits takes
          MaxAttempts     \* bound: calls of For

ASSUME RegistryAssumption ==
    /\ Default \in Tenants /\ IsFiniteSet(Tenants)
    /\ RegistryLimits \subseteq
           [AutoCreate : BOOLEAN, Allowlist : SUBSET Tenants, MaxTenants : Nat]
    /\ MaxAttempts \in Nat

VARIABLES limits,      \* Registry.limits
          serving,     \* "boot", "setters", "serving" or "failed"
          dirs,        \* the tenants with a directory under the data dir
          unopened,    \* boot: the directories still to open
          quarantined,
          reporters,   \* whether the setters have run
          stacks,      \* tenant -> whether its engine has the reporters
          opening,     \* the tenants with a singleflight slot
          forCalls,    \* request -> its call of For
          attempts,
          minted       \* history: the tenants admitted as new ones

registryVars == <<limits, serving, dirs, unopened, quarantined, reporters, stacks,
                  opening, forCalls, attempts, minted>>

noCall == [step |-> "idle", id |-> Default, minting |-> FALSE, on |-> {},
           wired |-> FALSE, opened |-> FALSE]

openStacks == DOMAIN stacks

noStacks == [id \in {} |-> FALSE]
withStack(id, wired) ==
    [t \in openStacks \cup {id} |-> IF t = id THEN wired ELSE stacks[t]]

(* Mutant: the cap is compared with the open stacks only. *)
allowsOpenOnly(id) ==
    \/ id = Default
    \/ /\ limits.AutoCreate
       /\ limits.Allowlist # {} => id \in limits.Allowlist
       /\ limits.MaxTenants > 0 => Cardinality(openStacks) < limits.MaxTenants

(* Limits.allows, given what is open and what is being opened. *)
allows(id) ==
    \/ id = Default
    \/ /\ limits.AutoCreate
       /\ limits.Allowlist # {} => id \in limits.Allowlist
       /\ limits.MaxTenants > 0 =>
              Cardinality(openStacks) + Cardinality(opening) < limits.MaxTenants

-----------------------------------------------------------------------------
RegistryInit ==
    /\ limits \in RegistryLimits
    /\ serving = "boot"
    /\ dirs \in SUBSET Tenants
    /\ unopened = dirs
    /\ quarantined = {}
    /\ reporters = FALSE
    /\ stacks = noStacks
    /\ opening = {}
    /\ forCalls = [q \in Requests |-> noCall]
    /\ attempts = 0
    /\ minted = {}

(* openWithClock, a directory at a time: a store that does not open is          *)
(* quarantined and left on disk.                                                *)
BootTenant(id, opens) ==
    /\ serving = "boot" /\ id \in unopened
    /\ unopened' = unopened \ {id}
    /\ stacks' = IF opens THEN withStack(id, reporters) ELSE stacks
    /\ quarantined' = IF opens THEN quarantined ELSE quarantined \cup {id}
    /\ UNCHANGED <<limits, serving, dirs, reporters, opening, forCalls, attempts, minted>>

(* Then the default tenant, without which there is no server. *)
BootDefault(opens) ==
    LET ready == opens \/ Default \in openStacks
    IN  /\ serving = "boot" /\ unopened = {}
        /\ dirs' = dirs \cup {Default}
        /\ stacks' = IF Default \in openStacks THEN stacks
                     ELSE IF opens THEN withStack(Default, reporters) ELSE noStacks
        /\ serving' = IF ready THEN "setters" ELSE "failed"
        /\ UNCHANGED <<limits, unopened, quarantined, reporters, opening, forCalls,
                       attempts, minted>>

(* SetResurrectionGrace, SetPromiseReporter, SetDiscardReporter and              *)
(* SetIdentityAliasConflictReporter, which run calls before it serves.          *)
SetReporters ==
    /\ serving = "setters"
    /\ reporters' = TRUE
    /\ stacks' = [id \in openStacks |-> TRUE]
    /\ serving' = "serving"
    /\ UNCHANGED <<limits, dirs, unopened, quarantined, opening, forCalls, attempts, minted>>

-----------------------------------------------------------------------------
(* For, up to the stat that says whether the tenant would be a new one. *)
For(q, id) ==
    /\ serving = "serving" /\ attempts < MaxAttempts
    /\ forCalls[q].step = "idle"
    /\ attempts' = attempts + 1
    /\ forCalls' = [forCalls EXCEPT ![q] = [noCall EXCEPT !.step = "ensure", !.id = id,
                                                    !.minting = id \notin dirs]]
    /\ UNCHANGED <<limits, serving, dirs, unopened, quarantined, reporters, stacks,
                   opening, minted>>

returned(q) == [forCalls EXCEPT ![q] = noCall]

opener(id) == {p \in Requests : forCalls[p].id = id /\ forCalls[p].step \in {"open", "finish"}}

(* Mutant: a caller that finds a slot opens the store too. *)
ensureTwice(q) ==
    LET id == forCalls[q].id
    IN  IF id \in openStacks THEN returned(q)
        ELSE IF forCalls[q].minting /\ ~allows(id) THEN returned(q)
        ELSE [forCalls EXCEPT ![q].step = "open"]

(* The first critical section of ensure: the stack, the slot to wait on, a      *)
(* refusal, or a slot of its own.                                               *)
ensure(q) ==
    LET id == forCalls[q].id
    IN  IF id \in openStacks THEN returned(q)
        ELSE IF id \in opening THEN [forCalls EXCEPT ![q].step = "wait", ![q].on = opener(id)]
        ELSE IF forCalls[q].minting /\ ~allows(id) THEN returned(q)
        ELSE [forCalls EXCEPT ![q].step = "open"]

Ensure(q) ==
    LET id == forCalls[q].id
        reserved == ensure(q)[q].step = "open"
    IN  /\ forCalls[q].step = "ensure"
        /\ forCalls' = ensure(q)
        /\ opening' = IF reserved THEN opening \cup {id} ELSE opening
        /\ minted' = IF reserved /\ forCalls[q].minting /\ id # Default
                     THEN minted \cup {id} ELSE minted
        /\ UNCHANGED <<limits, serving, dirs, unopened, quarantined, reporters, stacks,
                       attempts>>

(* openStack, outside the mutex; a failed open leaves the directory. *)
OpenStack(q, opens) ==
    /\ forCalls[q].step = "open"
    /\ dirs' = dirs \cup {forCalls[q].id}
    /\ forCalls' = [forCalls EXCEPT ![q].step = "finish", ![q].wired = reporters,
                              ![q].opened = opens]
    /\ UNCHANGED <<limits, serving, unopened, quarantined, reporters, stacks, opening,
                   attempts, minted>>

(* The second critical section, and the close of the slot: everyone who waited  *)
(* on it returns too.                                                           *)
FinishOpen(q) ==
    LET id == forCalls[q].id
        opened == forCalls[q].opened
    IN  /\ forCalls[q].step = "finish"
        /\ stacks' = IF opened THEN withStack(id, forCalls[q].wired) ELSE stacks
        /\ opening' = opening \ {id}
        /\ minted' = IF opened THEN minted ELSE minted \ {id}
        /\ forCalls' = [p \in Requests |->
               IF p = q \/ (forCalls[p].step = "wait" /\ q \in forCalls[p].on)
               THEN noCall ELSE forCalls[p]]
        /\ UNCHANGED <<limits, serving, dirs, unopened, quarantined, reporters, attempts>>

RegistryNext ==
    \/ \E id \in Tenants, opens \in BOOLEAN : BootTenant(id, opens)
    \/ \E opens \in BOOLEAN : BootDefault(opens)
    \/ SetReporters
    \/ \E q \in Requests :
          \/ \E id \in Tenants : For(q, id)
          \/ Ensure(q)
          \/ \E opens \in BOOLEAN : OpenStack(q, opens)
          \/ FinishOpen(q)

RegistrySpec == RegistryInit /\ [][RegistryNext]_registryVars

-----------------------------------------------------------------------------
RegistryTypeOK ==
    /\ serving \in {"boot", "setters", "serving", "failed"}
    /\ dirs \subseteq Tenants /\ unopened \subseteq dirs /\ quarantined \subseteq dirs
    /\ openStacks \subseteq dirs /\ stacks \in [openStacks -> BOOLEAN]
    /\ opening \subseteq Tenants /\ minted \subseteq Tenants
    /\ \A q \in Requests : forCalls[q].step \in {"idle", "ensure", "wait", "open", "finish"}

(* Concurrent first requests never mint past max_tenants: the tenants admitted  *)
(* as new ones fit under the cap beside the default while they are open or      *)
(* being opened, however many requests passed the stat before any of them was   *)
(* (ensure, allows).                                                            *)
MintsCapped ==
    limits.MaxTenants > 0 => Cardinality(minted \cup {Default}) <= limits.MaxTenants

(* A tenant's store is opened by one request at a time and never beside a stack *)
(* that has it open: the storage engine's lock would refuse the second.  And    *)
(* whoever waits for it waits on the request that is opening it, so a failed    *)
(* open strands nobody (ensure).                                                *)
OneStorePerTenant ==
    /\ \A id \in Tenants : /\ Cardinality(opener(id)) <= 1
                           /\ id \in openStacks => opener(id) = {}
    /\ \A q \in Requests :
          forCalls[q].step = "wait" => forCalls[q].on \cap opener(forCalls[q].id) # {}
=============================================================================
