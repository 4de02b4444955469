----------------------------- MODULE Readiness -----------------------------
(***************************************************************************)
(* The readiness probe (internal/ops): concurrent calls of Readyz, each of   *)
(* which asks the stores first and compares with the last reason afterwards, *)
(* under a mutex.                                                            *)
(*                                                                           *)
(* Abstractions.  A reason is whether there is one: what Store.Healthy says  *)
(* of the tenants is one flag.                                               *)
(***************************************************************************)
EXTENDS Naturals

CONSTANTS Probes,   \* concurrent readiness probes
          MaxFlips  \* bound: changes of the stores' health

ASSUME ReadinessAssumption == MaxFlips \in Nat

VARIABLES healthy,    \* what Store.Healthy answers
          flips,
          probes,     \* probe -> the reason it holds, {} when not running
          lastReason, \* Readyz's last
          logged      \* what the last transition logged says

readinessVars == <<healthy, flips, probes, lastReason, logged>>

-----------------------------------------------------------------------------
ReadinessInit ==
    /\ healthy = TRUE /\ flips = 0
    /\ probes = [p \in Probes |-> {}]
    /\ lastReason = TRUE /\ logged = TRUE

HealthChanges ==
    /\ flips < MaxFlips
    /\ healthy' = ~healthy
    /\ flips' = flips + 1
    /\ UNCHANGED <<probes, lastReason, logged>>

(* Readyz asks the stores before it takes its mutex. *)
ProbeAsks(p) ==
    /\ probes[p] = {}
    /\ probes' = [probes EXCEPT ![p] = {healthy}]
    /\ UNCHANGED <<healthy, flips, lastReason, logged>>

(* Mutant: a recovery is not reported. *)
ProbeAnswersOnce(p) ==
    /\ probes[p] # {}
    /\ lastReason' \in probes[p]
    /\ logged' = IF FALSE \in probes[p] THEN FALSE ELSE logged
    /\ probes' = [probes EXCEPT ![p] = {}]
    /\ UNCHANGED <<healthy, flips>>

(* Then it reports a change from the reason it saw last. *)
ProbeAnswers(p) ==
    /\ probes[p] # {}
    /\ lastReason' \in probes[p]
    /\ logged' = IF lastReason' # lastReason THEN lastReason' ELSE logged
    /\ probes' = [probes EXCEPT ![p] = {}]
    /\ UNCHANGED <<healthy, flips>>

ReadinessNext ==
    HealthChanges \/ \E p \in Probes : ProbeAsks(p) \/ ProbeAnswers(p)

-----------------------------------------------------------------------------
ReadinessTypeOK ==
    /\ probes \in [Probes -> SUBSET BOOLEAN]
    /\ {healthy, lastReason, logged} \subseteq BOOLEAN /\ flips \in 0..MaxFlips

(* The prober keeps probing, and every call returns. *)
ReadinessFairness ==
    \A p \in Probes : WF_readinessVars(ProbeAsks(p)) /\ WF_readinessVars(ProbeAnswers(p))

(* The log tells the truth in the end: after concurrent probes answered out of  *)
(* order, the last transition logged says what the stores are from some point   *)
(* on, as their health changes no more (Readyz).                                *)
ReadinessReported == ReadinessFairness => <>[](logged = healthy)
=============================================================================
