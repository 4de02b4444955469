--------------------------- MODULE RegistryProofs ---------------------------
(***************************************************************************)
(* The registry opens a tenant's store once at a time and mints no tenant   *)
(* past the cap, for any number of tenants and concurrent requests.         *)
(*                                                                          *)
(* A slot and the request that works on it come and go in different steps:   *)
(* the invariant ties them together (a tenant has a slot exactly while one   *)
(* request opens it), keeps slots and stacks apart, and places every minted  *)
(* tenant among them.  The cap then follows from what allows counted when    *)
(* the last one was admitted.                                               *)
(***************************************************************************)
EXTENDS Registry, FiniteSetTheorems, TLAPS

busy(q) == forCalls[q].step \in {"open", "finish"}

(* A call: its step, its tenant and what it found. *)
Call == [step : {"idle", "ensure", "wait", "open", "finish"}, id : Tenants,
         minting : BOOLEAN, on : SUBSET Requests, wired : BOOLEAN, opened : BOOLEAN]

RegistryType ==
    /\ limits \in [AutoCreate : BOOLEAN, Allowlist : SUBSET Tenants, MaxTenants : Nat]
    /\ serving \in {"boot", "setters", "serving", "failed"}
    /\ openStacks \subseteq Tenants /\ opening \subseteq Tenants /\ unopened \subseteq Tenants
    /\ reporters \in BOOLEAN
    /\ forCalls \in [Requests -> Call]

(* Before it serves, the registry has no calls and no slots. *)
QuietBoot ==
    serving # "serving" =>
        opening = {} /\ minted = {} /\ \A q \in Requests : forCalls[q].step = "idle"

DefaultOpen == serving \in {"setters", "serving"} => Default \in openStacks

(* A tenant has a slot exactly while one request opens it, and then no stack. *)
SlotsHeld ==
    /\ \A id \in opening : \E q \in Requests : busy(q) /\ forCalls[q].id = id
    /\ \A q \in Requests : busy(q) => forCalls[q].id \in opening
    /\ \A p, q \in Requests : busy(p) /\ busy(q) /\ forCalls[p].id = forCalls[q].id => p = q
    /\ opening \cap openStacks = {}

MintsHeld == minted \subseteq openStacks \cup opening

RegistryInv ==
    RegistryType /\ QuietBoot /\ DefaultOpen /\ SlotsHeld /\ MintsHeld /\ MintsCapped

-----------------------------------------------------------------------------
LEMMA RegistryInitInv == RegistryInit => RegistryInv
  <1> SUFFICES ASSUME RegistryInit PROVE RegistryInv
    OBVIOUS
  <1>1. openStacks = {}
    BY DEF RegistryInit, openStacks, noStacks
  <1>2. RegistryType
    BY <1>1, RegistryAssumption DEF RegistryInit, RegistryType, noCall, Call
  <1>3. QuietBoot /\ DefaultOpen /\ SlotsHeld /\ MintsHeld
    BY <1>1, RegistryAssumption DEF RegistryInit, QuietBoot, DefaultOpen, SlotsHeld, MintsHeld,
                                    busy, noCall
  <1>4. minted \cup {Default} = {Default}
    BY DEF RegistryInit
  <1>5. Cardinality(minted \cup {Default}) = 1
    BY <1>4, FS_Singleton, Zenon
  <1>6. MintsCapped
    BY <1>2, <1>5 DEF MintsCapped, RegistryType
  <1> QED BY <1>2, <1>3, <1>6 DEF RegistryInv

(* A call as each step leaves it. *)
begun(id, fresh) == [noCall EXCEPT !.step = "ensure", !.id = id, !.minting = fresh]
worked(c, wired, opened) == [c EXCEPT !.step = "finish", !.wired = wired, !.opened = opened]
reserving(c) == [c EXCEPT !.step = "open"]
waiting(c, on) == [c EXCEPT !.step = "wait", !.on = on]

LEMMA CallTyped ==
    /\ \A id \in Tenants, fresh \in BOOLEAN : begun(id, fresh) \in Call /\ begun(id, fresh).step = "ensure"
    /\ noCall \in Call /\ noCall.step = "idle"
    /\ \A c \in Call, wired, opened \in BOOLEAN :
         LET d == worked(c, wired, opened) IN d \in Call /\ d.step = "finish" /\ d.id = c.id
    /\ \A c \in Call :
         LET d == reserving(c) IN d \in Call /\ d.step = "open" /\ d.id = c.id
    /\ \A c \in Call, on \in SUBSET Requests :
         LET d == waiting(c, on) IN d \in Call /\ d.step = "wait" /\ d.id = c.id
  BY RegistryAssumption DEF Call, noCall, begun, worked, reserving, waiting

(* A step that replaces one call. *)
LEMMA OneCall ==
    ASSUME RegistryInv, NEW q \in Requests, NEW c \in Call, forCalls' = [forCalls EXCEPT ![q] = c]
    PROVE  /\ forCalls' \in [Requests -> Call]
           /\ forCalls'[q] = c
           /\ \A p \in Requests \ {q} : forCalls'[p] = forCalls[p]
           /\ forCalls[q] \in Call
  BY DEF RegistryInv, RegistryType

(* The steps of the boot, which meet neither calls nor slots. *)
LEMMA BootStep ==
    ASSUME RegistryInv,
           \/ \E id \in Tenants, opens \in BOOLEAN : BootTenant(id, opens)
           \/ \E opens \in BOOLEAN : BootDefault(opens)
           \/ SetReporters
    PROVE  RegistryInv'
  <1>1. /\ serving # "serving"
        /\ UNCHANGED <<limits, opening, forCalls, minted>>
        /\ unopened' \subseteq unopened
        /\ serving' \in {"boot", "setters", "serving", "failed"}
        /\ reporters' \in BOOLEAN
    BY DEF BootTenant, BootDefault, SetReporters, RegistryInv, RegistryType
  <1>2. openStacks' \subseteq Tenants
    <2>1. ASSUME NEW id \in Tenants, NEW opens \in BOOLEAN, BootTenant(id, opens)
          PROVE  openStacks' \subseteq openStacks \cup {id}
      BY <2>1 DEF BootTenant, openStacks, withStack
    <2>2. ASSUME NEW opens \in BOOLEAN, BootDefault(opens)
          PROVE  openStacks' \subseteq openStacks \cup {Default}
      BY <2>2 DEF BootDefault, openStacks, withStack, noStacks
    <2>3. ASSUME SetReporters PROVE openStacks' = openStacks
      BY <2>3 DEF SetReporters, openStacks
    <2> QED BY <2>1, <2>2, <2>3, RegistryAssumption DEF RegistryInv, RegistryType
  <1>3. DefaultOpen'
    <2>1. ASSUME NEW id \in Tenants, NEW opens \in BOOLEAN, BootTenant(id, opens)
          PROVE  DefaultOpen'
      BY <2>1 DEF BootTenant, DefaultOpen
    <2>2. ASSUME NEW opens \in BOOLEAN, BootDefault(opens)
          PROVE  DefaultOpen'
      BY <2>2 DEF BootDefault, DefaultOpen, openStacks, withStack
    <2>3. ASSUME SetReporters PROVE DefaultOpen'
      BY <2>3 DEF SetReporters, DefaultOpen, RegistryInv, openStacks
    <2> QED BY <2>1, <2>2, <2>3
  <1>4. RegistryType'
    BY <1>1, <1>2 DEF RegistryInv, RegistryType
  <1>5. QuietBoot' /\ SlotsHeld' /\ MintsHeld'
    BY <1>1 DEF RegistryInv, QuietBoot, SlotsHeld, MintsHeld, busy
  <1>6. MintsCapped'
    BY <1>1 DEF RegistryInv, MintsCapped
  <1> QED BY <1>3, <1>4, <1>5, <1>6 DEF RegistryInv

(* A call begins, or works outside the mutex: nothing anyone else sees moves. *)
LEMMA CallStep ==
    ASSUME RegistryInv, NEW q \in Requests,
           \/ \E id \in Tenants : For(q, id)
           \/ \E opens \in BOOLEAN : OpenStack(q, opens)
    PROVE  RegistryInv'
  <1>1. /\ UNCHANGED <<limits, serving, unopened, reporters, stacks, opening, minted>>
        /\ serving = "serving" /\ openStacks' = openStacks
    BY DEF For, OpenStack, RegistryInv, QuietBoot, openStacks
  <1>2. \E c \in Call :
           /\ forCalls' = [forCalls EXCEPT ![q] = c]
           /\ c.step \in {"open", "finish"} <=> busy(q)
           /\ busy(q) => c.id = forCalls[q].id
    <2>1. ASSUME NEW id \in Tenants, For(q, id)
          PROVE  /\ forCalls[q].step = "idle"
                 /\ forCalls' = [forCalls EXCEPT ![q] = begun(id, id \notin dirs)]
      BY <2>1 DEF For, begun
    <2>2. ASSUME NEW opens \in BOOLEAN, OpenStack(q, opens)
          PROVE  /\ forCalls[q].step = "open"
                 /\ forCalls' = [forCalls EXCEPT ![q] = worked(forCalls[q], reporters, opens)]
      BY <2>2 DEF OpenStack, worked, RegistryInv, RegistryType
    <2>3. forCalls[q] \in Call /\ reporters \in BOOLEAN
      BY DEF RegistryInv, RegistryType
    <2>4. CASE \E id \in Tenants : For(q, id)
      BY <2>1, <2>4, CallTyped DEF busy
    <2>5. CASE \E opens \in BOOLEAN : OpenStack(q, opens)
      <3>1. PICK opens \in BOOLEAN : OpenStack(q, opens)
        BY <2>5
      <3> DEFINE d == worked(forCalls[q], reporters, opens)
      <3>2. d \in Call /\ d.step = "finish" /\ d.id = forCalls[q].id
        BY <2>3 DEF worked, Call
      <3> HIDE DEF d
      <3>3. forCalls[q].step = "open" /\ forCalls' = [forCalls EXCEPT ![q] = d]
        BY <2>2, <3>1 DEF d
      <3> QED BY <3>2, <3>3 DEF busy
    <2> QED BY <2>4, <2>5
  <1>3. /\ forCalls' \in [Requests -> Call]
        /\ \A p \in Requests : (busy(p))' <=> busy(p)
        /\ \A p \in Requests : busy(p) => forCalls'[p].id = forCalls[p].id
    BY <1>2, OneCall DEF busy
  <1>4. RegistryType' /\ QuietBoot' /\ DefaultOpen'
    BY <1>1, <1>3 DEF RegistryInv, RegistryType, QuietBoot, DefaultOpen
  <1>5. SlotsHeld'
    BY <1>1, <1>3 DEF RegistryInv, SlotsHeld
  <1>6. MintsHeld' /\ MintsCapped'
    BY <1>1 DEF RegistryInv, MintsHeld, MintsCapped
  <1> QED BY <1>4, <1>5, <1>6 DEF RegistryInv

(* A call that got a slot: its tenant has no stack and no other slot, and a new  *)
(* tenant was counted against what is open and being opened.                    *)
LEMMA ReserveStep ==
    ASSUME RegistryInv, NEW q \in Requests, Ensure(q), ensure(q)[q].step = "open"
    PROVE  RegistryInv'
  <1> DEFINE id == forCalls[q].id
  <1>1. /\ forCalls[q].step = "ensure" /\ id \in Tenants
        /\ UNCHANGED <<limits, serving, unopened, reporters, stacks>>
        /\ opening' = opening \cup {id}
        /\ minted' = IF forCalls[q].minting /\ id # Default THEN minted \cup {id} ELSE minted
    BY DEF Ensure, RegistryInv, RegistryType, Call
  <1>2. /\ id \notin openStacks /\ id \notin opening
        /\ forCalls[q].minting => allows(id)
        /\ forCalls' = [forCalls EXCEPT ![q] = reserving(forCalls[q])]
    <2>1. ensure(q) = forCalls' /\ forCalls'[q].step = "open"
      BY DEF Ensure
    <2>2. forCalls \in [Requests -> Call] /\ noCall.step = "idle"
      BY CallTyped DEF RegistryInv, RegistryType
    <2>3. returned(q)[q].step # "open"
      BY <2>2 DEF returned
    <2>4. [forCalls EXCEPT ![q].step = "wait", ![q].on = opener(id)][q].step # "open"
      BY <2>2 DEF Call
    <2>5. /\ id \notin openStacks /\ id \notin opening
          /\ ~(forCalls[q].minting /\ ~allows(id))
          /\ ensure(q) = [forCalls EXCEPT ![q].step = "open"]
      BY <2>1, <2>3, <2>4 DEF ensure
    <2> QED BY <2>1, <2>2, <2>5 DEF reserving
  <1>3. LET c == reserving(forCalls[q]) IN c \in Call /\ c.step = "open" /\ c.id = id
    BY CallTyped DEF RegistryInv, RegistryType
  <1>4. /\ forCalls' \in [Requests -> Call]
        /\ \A p \in Requests : forCalls'[p].id = forCalls[p].id
        /\ \A p \in Requests : (busy(p))' <=> busy(p) \/ p = q
    BY <1>2, <1>3, OneCall DEF busy
  <1>8. RegistryType' /\ QuietBoot' /\ DefaultOpen'
    BY <1>1, <1>4 DEF RegistryInv, RegistryType, QuietBoot, DefaultOpen, openStacks
  <1>5. SlotsHeld'
    BY <1>1, <1>2, <1>4 DEF RegistryInv, SlotsHeld, openStacks
  <1>6. MintsHeld'
    BY <1>1 DEF RegistryInv, MintsHeld, openStacks
  <1>7. MintsCapped'
    <2>1. CASE ~(forCalls[q].minting /\ id # Default /\ limits.MaxTenants > 0)
      BY <1>1, <2>1 DEF RegistryInv, MintsCapped
    <2>2. CASE forCalls[q].minting /\ id # Default /\ limits.MaxTenants > 0
      <3> DEFINE known == openStacks \cup opening
      <3>1. /\ IsFiniteSet(openStacks) /\ IsFiniteSet(opening)
        BY FS_Subset, RegistryAssumption DEF RegistryInv, RegistryType
      <3>2. /\ Cardinality(openStacks) \in Nat /\ Cardinality(opening) \in Nat
            /\ Cardinality(openStacks) + Cardinality(opening) < limits.MaxTenants
        BY <3>1, <2>2, <1>2, FS_CardinalityType DEF allows
      <3>3. openStacks \cap opening = {}
        BY DEF RegistryInv, SlotsHeld
      <3>4. /\ IsFiniteSet(known)
            /\ Cardinality(known) = Cardinality(openStacks) + Cardinality(opening)
        <4>1. /\ IsFiniteSet(known)
              /\ Cardinality(known) = Cardinality(openStacks) + Cardinality(opening)
                                      - Cardinality(openStacks \cap opening)
          BY <3>1, FS_Union
        <4>2. Cardinality(openStacks \cap opening) = 0
          BY <3>3, FS_EmptySet
        <4> QED BY <3>2, <4>1, <4>2
      <3>5. /\ IsFiniteSet(known \cup {id})
            /\ Cardinality(known \cup {id}) <= Cardinality(known) + 1
        <4>1. /\ IsFiniteSet(known \cup {id})
              /\ Cardinality(known \cup {id}) =
                   IF id \in known THEN Cardinality(known) ELSE Cardinality(known) + 1
          BY <3>4, FS_AddElement
        <4> QED BY <3>2, <3>4, <4>1
      <3>6. serving = "serving"
        BY <1>1 DEF RegistryInv, QuietBoot
      <3>7. minted' \cup {Default} \in SUBSET (known \cup {id})
        BY <1>1, <3>6 DEF RegistryInv, MintsHeld, DefaultOpen
      <3>8. /\ IsFiniteSet(minted' \cup {Default})
            /\ Cardinality(minted' \cup {Default}) <= Cardinality(known \cup {id})
        BY <3>5, <3>7, FS_Subset, Zenon
      <3>9. Cardinality(minted' \cup {Default}) \in Nat /\ Cardinality(known \cup {id}) \in Nat
        BY <3>5, <3>8, FS_CardinalityType
      <3>10. limits.MaxTenants \in Nat
        BY DEF RegistryInv, RegistryType
      <3>11. Cardinality(minted' \cup {Default}) <= limits.MaxTenants
        BY <3>2, <3>4, <3>5, <3>8, <3>9, <3>10
      <3> QED BY <1>1, <3>11 DEF MintsCapped
    <2> QED BY <2>1, <2>2
  <1> QED BY <1>5, <1>6, <1>7, <1>8 DEF RegistryInv

(* The first critical section otherwise: the call returns or waits. *)
LEMMA EnsureStep ==
    ASSUME RegistryInv, NEW q \in Requests, Ensure(q)
    PROVE  RegistryInv'
  <1>1. CASE ensure(q)[q].step = "open"
    BY <1>1, ReserveStep
  <1>2. CASE ensure(q)[q].step # "open"
    <2>1. /\ UNCHANGED <<limits, serving, unopened, reporters, stacks, opening, minted>>
          /\ forCalls[q].step = "ensure" /\ forCalls' = ensure(q)
      BY <1>2 DEF Ensure
    <2>2. opener(forCalls[q].id) \in SUBSET Requests
      BY DEF opener
    <2>3. \E c \in {noCall, waiting(forCalls[q], opener(forCalls[q].id))} :
             ensure(q) = [forCalls EXCEPT ![q] = c]
      <3> DEFINE id == forCalls[q].id
      <3>1. forCalls \in [Requests -> Call]
        BY DEF RegistryInv, RegistryType
      <3>2. returned(q) = [forCalls EXCEPT ![q] = noCall]
        BY DEF returned
      <3>3. [forCalls EXCEPT ![q].step = "wait", ![q].on = opener(id)]
              = [forCalls EXCEPT ![q] = waiting(forCalls[q], opener(id))]
        BY <3>1 DEF waiting
      <3>4. [forCalls EXCEPT ![q].step = "open"][q].step = "open"
        BY <3>1 DEF Call
      <3> QED BY <1>2, <3>2, <3>3, <3>4 DEF ensure
    <2>4. \A c \in {noCall, waiting(forCalls[q], opener(forCalls[q].id))} :
             c \in Call /\ c.step \notin {"open", "finish"}
      BY <2>2, CallTyped DEF RegistryInv, RegistryType
    <2>7. /\ forCalls' \in [Requests -> Call]
          /\ \A p \in Requests : (busy(p))' <=> busy(p)
          /\ \A p \in Requests : busy(p) => forCalls'[p].id = forCalls[p].id
      BY <2>1, <2>3, <2>4, OneCall DEF busy
    <2>8. RegistryType'
      BY <2>1, <2>7 DEF RegistryInv, RegistryType, openStacks
    <2>5. QuietBoot' /\ DefaultOpen' /\ SlotsHeld'
      BY <2>1, <2>7 DEF RegistryInv, QuietBoot, DefaultOpen, SlotsHeld, openStacks
    <2>6. MintsHeld' /\ MintsCapped'
      BY <2>1 DEF RegistryInv, MintsHeld, MintsCapped, openStacks
    <2> QED BY <2>5, <2>6, <2>8 DEF RegistryInv
  <1> QED BY <1>1, <1>2

(* The second critical section: the slot goes, with the stack in its place or    *)
(* with the tenant no longer counted as new.                                     *)
LEMMA FinishStep ==
    ASSUME RegistryInv, NEW q \in Requests, FinishOpen(q)
    PROVE  RegistryInv'
  <1> DEFINE id == forCalls[q].id
  <1>1. /\ busy(q) /\ id \in Tenants
        /\ UNCHANGED <<limits, serving, unopened, reporters>>
        /\ opening' = opening \ {id}
    BY DEF FinishOpen, RegistryInv, RegistryType, Call, busy
  <1>2. \/ openStacks' = openStacks \cup {id} /\ minted' = minted
        \/ openStacks' = openStacks /\ minted' = minted \ {id}
    BY DEF FinishOpen, openStacks, withStack
  <1>3. /\ forCalls' \in [Requests -> Call]
        /\ \A p \in Requests : forCalls'[p] # forCalls[p] => p = q \/ ~busy(p)
        /\ \A p \in Requests : forCalls'[p] \in {forCalls[p], noCall}
        /\ forCalls'[q] = noCall
    BY CallTyped DEF FinishOpen, RegistryInv, RegistryType, busy
  <1>4. /\ \A p \in Requests : (busy(p))' <=> busy(p) /\ p # q
        /\ \A p \in Requests : (busy(p))' => forCalls'[p].id = forCalls[p].id
    BY <1>3, CallTyped DEF busy
  <1>5. RegistryType' /\ QuietBoot' /\ DefaultOpen'
    <2>1. serving = "serving"
      BY <1>1 DEF RegistryInv, QuietBoot, busy
    <2> QED BY <1>1, <1>2, <1>3, <2>1 DEF RegistryInv, RegistryType, QuietBoot, DefaultOpen
  <1>6. SlotsHeld'
    BY <1>1, <1>2, <1>4 DEF RegistryInv, SlotsHeld
  <1>7. MintsHeld'
    BY <1>1, <1>2 DEF RegistryInv, MintsHeld
  <1>8. MintsCapped'
    <2>1. minted' \cup {Default} \in SUBSET (minted \cup {Default})
      BY <1>2
    <2>2. IsFiniteSet(minted \cup {Default})
      <3>1. minted \cup {Default} \in SUBSET Tenants
        BY RegistryAssumption DEF RegistryInv, RegistryType, MintsHeld
      <3> QED BY <3>1, FS_Subset, RegistryAssumption
    <2>3. /\ IsFiniteSet(minted' \cup {Default})
          /\ Cardinality(minted' \cup {Default}) <= Cardinality(minted \cup {Default})
      BY <2>1, <2>2, FS_Subset, Zenon
    <2>4. Cardinality(minted' \cup {Default}) \in Nat /\ Cardinality(minted \cup {Default}) \in Nat
      BY <2>2, <2>3, FS_CardinalityType
    <2>5. limits.MaxTenants \in Nat
      BY DEF RegistryInv, RegistryType
    <2> QED BY <1>1, <2>3, <2>4, <2>5 DEF RegistryInv, MintsCapped
  <1> QED BY <1>5, <1>6, <1>7, <1>8 DEF RegistryInv

(* Whoever waits, waits on the request that works on the slot of its tenant. *)
WaitsHeld ==
    \A q \in Requests : forCalls[q].step = "wait" =>
        \E p \in forCalls[q].on \cap Requests : busy(p) /\ forCalls[p].id = forCalls[q].id

LEMMA WaitStep ==
    ASSUME RegistryInv, WaitsHeld, [RegistryNext]_registryVars
    PROVE  WaitsHeld'
  <1> USE DEF busy
  <1>1. forCalls \in [Requests -> Call]
    BY DEF RegistryInv, RegistryType
  <1>2. CASE forCalls' = forCalls
    BY <1>2 DEF WaitsHeld
  <1>3. ASSUME NEW q \in Requests, NEW c \in Call, forCalls' = [forCalls EXCEPT ![q] = c],
               c.step # "wait",
               busy(q) => c.step \in {"open", "finish"} /\ c.id = forCalls[q].id
        PROVE  WaitsHeld'
    BY <1>1, <1>3 DEF WaitsHeld
  <1>4. ASSUME NEW q \in Requests, NEW id \in Tenants, For(q, id)
        PROVE  WaitsHeld'
    <2>1. /\ forCalls[q].step = "idle"
          /\ forCalls' = [forCalls EXCEPT ![q] = begun(id, id \notin dirs)]
      BY <1>4 DEF For, begun
    <2>2. begun(id, id \notin dirs) \in Call /\ begun(id, id \notin dirs).step = "ensure"
      BY CallTyped
    <2> QED BY <1>3, <2>1, <2>2
  <1>5. ASSUME NEW q \in Requests, NEW opens \in BOOLEAN, OpenStack(q, opens)
        PROVE  WaitsHeld'
    <2> DEFINE d == worked(forCalls[q], reporters, opens)
    <2>1. forCalls[q] \in Call /\ reporters \in BOOLEAN
      BY <1>1 DEF RegistryInv, RegistryType
    <2>2. d \in Call /\ d.step = "finish" /\ d.id = forCalls[q].id
      BY <2>1 DEF worked, Call
    <2>3. forCalls' = [forCalls EXCEPT ![q] = d]
      BY <1>1, <1>5 DEF OpenStack, worked
    <2> HIDE DEF d
    <2> QED BY <1>3, <2>2, <2>3
  <1>6. ASSUME NEW q \in Requests, Ensure(q)
        PROVE  WaitsHeld'
    <2> DEFINE id == forCalls[q].id
               w  == waiting(forCalls[q], opener(id))
    <2>1. forCalls[q].step = "ensure" /\ forCalls' = ensure(q) /\ forCalls[q] \in Call
      BY <1>1, <1>6 DEF Ensure
    <2>2. CASE forCalls' = [forCalls EXCEPT ![q] = noCall]
      BY <1>3, <2>1, <2>2, CallTyped
    <2>3. CASE forCalls' = [forCalls EXCEPT ![q] = reserving(forCalls[q])]
      BY <1>3, <2>1, <2>3, CallTyped
    <2>4. CASE id \in opening /\ forCalls' = [forCalls EXCEPT ![q] = w]
      <3>1. PICK p \in Requests : busy(p) /\ forCalls[p].id = id
        BY <2>4 DEF RegistryInv, SlotsHeld
      <3>2. p \in opener(id) /\ p # q
        BY <2>1, <3>1 DEF opener
      <3>3. w.step = "wait" /\ w.on = opener(id) /\ w.id = id
        BY <2>1 DEF waiting, Call
      <3> HIDE DEF w, id
      <3>4. /\ forCalls'[q] = w /\ \A r \in Requests \ {q} : forCalls'[r] = forCalls[r]
        BY <1>1, <2>4
      <3>5. \E r \in forCalls'[q].on \cap Requests :
               forCalls'[r].step \in {"open", "finish"} /\ forCalls'[r].id = forCalls'[q].id
        BY <3>1, <3>2, <3>3, <3>4
      <3>6. ASSUME NEW r \in Requests \ {q}, forCalls'[r].step = "wait"
            PROVE  \E t \in forCalls'[r].on \cap Requests :
                     forCalls'[t].step \in {"open", "finish"} /\ forCalls'[t].id = forCalls'[r].id
        BY <2>1, <3>4, <3>6 DEF WaitsHeld
      <3> QED BY <3>5, <3>6 DEF WaitsHeld
    <2>5. returned(q) = [forCalls EXCEPT ![q] = noCall]
      BY DEF returned
    <2>6. /\ [forCalls EXCEPT ![q].step = "wait", ![q].on = opener(id)] = [forCalls EXCEPT ![q] = w]
          /\ [forCalls EXCEPT ![q].step = "open"] = [forCalls EXCEPT ![q] = reserving(forCalls[q])]
      BY <1>1 DEF waiting, reserving
    <2> HIDE DEF w
    <2> QED BY <2>1, <2>2, <2>3, <2>4, <2>5, <2>6 DEF ensure
  <1>7. ASSUME NEW q \in Requests, FinishOpen(q)
        PROVE  WaitsHeld'
    <2>1. \A p \in Requests : forCalls'[p] =
             IF p = q \/ (forCalls[p].step = "wait" /\ q \in forCalls[p].on)
             THEN noCall ELSE forCalls[p]
      BY <1>7 DEF FinishOpen
    <2>2. noCall.step = "idle"
      BY DEF noCall
    <2> QED BY <2>1, <2>2 DEF WaitsHeld
  <1>8. ASSUME \/ \E id \in Tenants, opens \in BOOLEAN : BootTenant(id, opens)
               \/ \E opens \in BOOLEAN : BootDefault(opens)
               \/ SetReporters
               \/ UNCHANGED registryVars
        PROVE  forCalls' = forCalls
    BY <1>8 DEF BootTenant, BootDefault, SetReporters, registryVars
  <1> QED BY <1>2, <1>4, <1>5, <1>6, <1>7, <1>8 DEF RegistryNext

-----------------------------------------------------------------------------
(* The inductive invariant the theorems below follow from. *)
THEOREM RegistryInvariant == RegistrySpec => []RegistryInv
  <1>1. RegistryInv /\ [RegistryNext]_registryVars => RegistryInv'
    <2> SUFFICES ASSUME RegistryInv, [RegistryNext]_registryVars PROVE RegistryInv'
      OBVIOUS
    <2>1. CASE UNCHANGED registryVars
      BY <2>1 DEF registryVars, RegistryInv, RegistryType, QuietBoot, DefaultOpen, SlotsHeld,
                  MintsHeld, MintsCapped, busy, openStacks
    <2>2. CASE RegistryNext
      BY <2>2, BootStep, CallStep, EnsureStep, FinishStep DEF RegistryNext
    <2> QED BY <2>1, <2>2
  <1> QED BY <1>1, RegistryInitInv, PTL DEF RegistrySpec

(* However many requests ask for however many new tenants at once, no more are   *)
(* minted than max_tenants allows (registry.go: ensure, Limits.allows).          *)
THEOREM TenantsNeverMintedPastTheCap == RegistrySpec => []MintsCapped
  BY RegistryInvariant, PTL DEF RegistryInv

(* No two requests open one tenant's store, none opens it beside a stack, and    *)
(* none waits for it while nobody opens it (registry.go: ensure's slots).        *)
THEOREM StoresOpenedOnce == RegistrySpec => []OneStorePerTenant
  <1>1. ASSUME RegistryInv, NEW id \in Tenants
        PROVE  /\ Cardinality(opener(id)) <= 1
               /\ id \in openStacks => opener(id) = {}
    <2>1. opener(id) = {} \/ \E p : opener(id) = {p}
      <3>1. \A p, r \in opener(id) : p = r
        BY <1>1 DEF opener, RegistryInv, SlotsHeld, busy
      <3> QED BY <3>1
    <2>2. Cardinality(opener(id)) \in {0, 1}
      <3>1. CASE opener(id) = {}
        BY <3>1, FS_EmptySet
      <3>2. ASSUME NEW p, opener(id) = {p} PROVE Cardinality(opener(id)) = 1
        BY <3>2, FS_Singleton, Zenon
      <3> QED BY <2>1, <3>1, <3>2
    <2>3. id \in openStacks => opener(id) = {}
      BY <1>1 DEF opener, RegistryInv, SlotsHeld, busy
    <2> QED BY <2>2, <2>3
  <1>2. WaitsHeld => \A q \in Requests :
           forCalls[q].step = "wait" => forCalls[q].on \cap opener(forCalls[q].id) # {}
    BY DEF WaitsHeld, opener, busy
  <1>3. RegistryInit => WaitsHeld
    BY DEF RegistryInit, WaitsHeld, noCall
  <1>4. RegistryInv /\ WaitsHeld => OneStorePerTenant
    BY <1>1, <1>2 DEF OneStorePerTenant
  <1>5. RegistryInv /\ WaitsHeld /\ [RegistryNext]_registryVars => WaitsHeld'
    BY WaitStep
  <1> QED BY <1>3, <1>4, <1>5, RegistryInvariant, PTL DEF RegistrySpec
=============================================================================
