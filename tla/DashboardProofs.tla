--------------------------- MODULE DashboardProofs ---------------------------
(***************************************************************************)
(* Proofs about Dashboard: types, what a restart brings back, and by how   *)
(* much the limit on targets can be passed, for any targets, keys, tiers   *)
(* and number of requests, failures and restarts.                          *)
(***************************************************************************)
EXTENDS Dashboard, FiniteSetTheorems, TLAPS

LEMMA ActivateType ==
  ASSUME NEW key \in Keys \cup {NoKey}
  PROVE  Activate(key) \in Activation
BY DashboardAssumption DEF Activate, Activation, Free, Tiers

\* Boot files every saved raw input under its canonical form again: the map it
\* builds is the table.
LEMMA RestoredIsSaved ==
  ASSUME TypeOK, NEW act
  PROVE  Restored(act) = saved
<1> DEFINE replayed == {saved[d] : d \in Saved}
<1>1. \A d \in Saved : saved[d] \in Raws /\ CanonicalOf[saved[d]] = d
  BY DEF TypeOK, Saved
<1>2. ASSUME NEW c \in Canonicals
      PROVE  (IF \E r \in replayed : CanonicalOf[r] = c
              THEN CHOOSE r \in replayed : CanonicalOf[r] = c ELSE NoRaw) = saved[c]
  <2>1. CASE c \in Saved
    <3>1. saved[c] \in replayed /\ CanonicalOf[saved[c]] = c
      BY <1>1, <2>1
    <3>2. \A r \in replayed : CanonicalOf[r] = c => r = saved[c]
      BY <1>1
    <3>3. QED
      BY <3>1, <3>2
  <2>2. CASE c \notin Saved
    <3>1. saved[c] = NoRaw
      BY <2>2 DEF Saved
    <3>2. ~\E r \in replayed : CanonicalOf[r] = c
      BY <1>1, <2>2
    <3>3. QED
      BY <3>1, <3>2
  <2>3. QED
    BY <2>1, <2>2
<1>3. saved = [c \in Canonicals |-> saved[c]]
  BY DEF TypeOK
<1>4. QED
  BY <1>2, <1>3 DEF Restored

-----------------------------------------------------------------------------
(* Types *)

\* A request past its first step knows what it works on.
LEMMA RequestShape ==
  ASSUME TypeOK, NEW h \in Handlers
  PROVE  /\ request[h].phase \in {"add", "save"} => request[h].raw \in Raws
         /\ request[h].phase = "delete" => request[h].canonical \in Canonicals
         /\ Setting(h) =>
              /\ request[h].key \in Keys \cup {NoKey}
              /\ request[h].activation \in Activation
BY DEF TypeOK, Request, Idle, Setting

LEMMA RequestStep ==
  ASSUME TypeOK, NEW h \in Handlers, Handle(h)
  PROVE  request' \in [Handlers -> Request]
<1> SUFFICES ASSUME NEW r \in Request, request' = [request EXCEPT ![h] = r]
             PROVE  request' \in [Handlers -> Request]
  <2>1. Idle \in Request
    BY DEF Request
  <2>2. ASSUME NEW raw \in Raws, AddTargetAllowed(h, raw)
        PROVE  [phase |-> "add", raw |-> raw] \in Request
    BY DEF Request
  <2>3. ASSUME AddTarget(h)
        PROVE  [request[h] EXCEPT !.phase = "save"] \in Request
    <3>1. request[h] \in [phase : {"add", "save"}, raw : Raws]
      BY <2>3 DEF AddTarget, TypeOK, Request, Idle
    <3>2. QED
      BY <3>1 DEF Request
  <2>4. ASSUME NEW c \in Canonicals
        PROVE  [phase |-> "delete", canonical |-> c] \in Request
    BY DEF Request
  <2>5. ASSUME NEW key \in Keys \cup {NoKey}
        PROVE  [phase |-> "write", key |-> key, activation |-> Activate(key)] \in Request
    BY ActivateType DEF Request
  <2>6. ASSUME Setting(h), NEW p \in {"fill", "switch"}
        PROVE  [request[h] EXCEPT !.phase = p] \in Request
    <3>1. request[h] \in [phase : {"write", "fill", "switch"}, key : Keys \cup {NoKey},
                          activation : Activation]
      BY <2>6 DEF Setting, TypeOK, Request, Idle
    <3>2. QED
      BY <3>1 DEF Request
  <2>8. TruncateLicense(h) \/ WriteLicense(h) => Setting(h)
    BY DEF TruncateLicense, WriteLicense, Setting
  <2>7. QED
    BY <2>1, <2>2, <2>3, <2>4, <2>5, <2>6, <2>8
    DEF Handle, AddTargetAllowed, AddTarget, SaveTarget, SaveTargetFails, RemoveTarget,
        DeleteTarget, DeleteTargetFails, SetLicense, TruncateLicense,
        OpenLicenseFails, WriteLicense, WriteLicenseFails, SwitchActivation
<1>1. QED
  BY DEF TypeOK

LEMMA TypeStep ==
  ASSUME TypeOK, Next
  PROVE  TypeOK'
<1>1. ASSUME NEW h \in Handlers, Handle(h)
      PROVE  TypeOK'
  <2>1. request' \in [Handlers -> Request]
    BY <1>1, RequestStep
  <2>2. /\ registered' \in [Canonicals -> Raws \cup {NoRaw}]
        /\ \A c \in Registered' : CanonicalOf[registered'[c]] = c
    <3>1. /\ registered \in [Canonicals -> Raws \cup {NoRaw}]
          /\ \A c \in Registered : CanonicalOf[registered[c]] = c
      BY DEF TypeOK
    <3>2. CASE AddTarget(h)
      <4>1. request[h].raw \in Raws /\ CanonicalOf[request[h].raw] \in Canonicals
        BY <3>2, RequestShape, DashboardAssumption DEF AddTarget
      <4>2. QED
        BY <3>1, <3>2, <4>1 DEF AddTarget, Registered
    <3>3. CASE \E c \in Canonicals : RemoveTarget(h, c)
      BY <3>1, <3>3 DEF RemoveTarget, Registered
    <3>4. CASE UNCHANGED registered
      BY <3>1, <3>4 DEF Registered
    <3>5. QED
      BY <1>1, <3>2, <3>3, <3>4
      DEF Handle, AddTargetAllowed, SaveTarget, SaveTargetFails, DeleteTarget,
          DeleteTargetFails, SetLicense, TruncateLicense, OpenLicenseFails, WriteLicense, WriteLicenseFails,
          SwitchActivation
  <2>3. /\ saved' \in [Canonicals -> Raws \cup {NoRaw}]
        /\ \A c \in Saved' : CanonicalOf[saved'[c]] = c
        /\ warned' \in SUBSET Canonicals
    <3>1. /\ saved \in [Canonicals -> Raws \cup {NoRaw}]
          /\ \A c \in Saved : CanonicalOf[saved[c]] = c
          /\ warned \in SUBSET Canonicals
      BY DEF TypeOK
    <3>2. CASE SaveTarget(h)
      <4>1. request[h].raw \in Raws /\ CanonicalOf[request[h].raw] \in Canonicals
        BY <3>2, RequestShape, DashboardAssumption DEF SaveTarget
      <4>2. QED
        BY <3>1, <3>2, <4>1 DEF SaveTarget, Stored, Saved
    <3>3. CASE SaveTargetFails(h)
      <4>1. CanonicalOf[request[h].raw] \in Canonicals
        BY <3>3, RequestShape, DashboardAssumption DEF SaveTargetFails
      <4>2. QED
        BY <3>1, <3>3, <4>1 DEF SaveTargetFails, Saved
    <3>4. CASE DeleteTarget(h)
      BY <3>1, <3>4 DEF DeleteTarget, Saved
    <3>5. CASE UNCHANGED <<saved, warned>>
      BY <3>1, <3>5 DEF Saved
    <3>6. QED
      BY <1>1, <3>2, <3>3, <3>4, <3>5
      DEF Handle, AddTargetAllowed, AddTarget, RemoveTarget, DeleteTargetFails,
          SetLicense, TruncateLicense, OpenLicenseFails, WriteLicense, WriteLicenseFails, SwitchActivation
  <2>4. /\ file' \in Keys \cup {NoKey}
        /\ activation' \in Activation
        /\ doubt' \in SUBSET (Keys \cup {NoKey})
    <3>1. /\ file \in Keys \cup {NoKey} /\ activation \in Activation
          /\ doubt \in SUBSET (Keys \cup {NoKey})
      BY DEF TypeOK
    <3>2. CASE WriteLicense(h)
      BY <3>1, <3>2, RequestShape DEF WriteLicense, Overwritten, Setting
    <3>3. CASE SwitchActivation(h)
      BY <3>1, <3>3, RequestShape DEF SwitchActivation, Setting
    <3>4. CASE WriteLicenseFails(h)
      BY <3>1, <3>4, RequestShape DEF WriteLicenseFails, Setting
    <3>5. QED
      BY <1>1, <3>1, <3>2, <3>3, <3>4
      DEF TruncateLicense, OpenLicenseFails, Handle, AddTargetAllowed, AddTarget, SaveTarget, SaveTargetFails,
          RemoveTarget, DeleteTarget, DeleteTargetFails, SetLicense
  <2>5. /\ faults' \in [save : Nat, delete : Nat, write : Nat]
        /\ expired' \in SUBSET Keys /\ restarts' \in Nat
        /\ raced' \in SUBSET (Canonicals \cup {License}) /\ ceiling' \in Nat
    <3>1. /\ faults \in [save : Nat, delete : Nat, write : Nat]
          /\ expired \in SUBSET Keys /\ restarts \in Nat
          /\ raced \in SUBSET (Canonicals \cup {License}) /\ ceiling \in Nat
      BY DEF TypeOK
    <3>2. CASE \/ SaveTargetFails(h) \/ DeleteTargetFails(h)
               \/ OpenLicenseFails(h) \/ WriteLicenseFails(h)
      BY <3>1, <3>2
      DEF SaveTargetFails, DeleteTargetFails, OpenLicenseFails, WriteLicenseFails, Fail
    <3>3. CASE \/ \E raw \in Raws : AddTargetAllowed(h, raw)
               \/ \E c \in Canonicals : RemoveTarget(h, c)
               \/ \E key \in Keys \cup {NoKey} : SetLicense(h, key)
      BY <3>1, <3>3, DashboardAssumption DEF AddTargetAllowed, RemoveTarget, SetLicense
    <3>4. CASE SwitchActivation(h)
      <4>1. MaxTargetsOf[activation'.tier] \in Nat
        BY <2>4, DashboardAssumption DEF Activation
      <4>2. QED
        BY <3>1, <3>4, <4>1 DEF SwitchActivation, Higher
    <3>5. QED
      BY <1>1, <3>1, <3>2, <3>3, <3>4
      DEF Handle, AddTarget, SaveTarget, DeleteTarget, TruncateLicense, WriteLicense
  <2>6. QED
    BY <2>1, <2>2, <2>3, <2>4, <2>5 DEF TypeOK
<1>2. CASE \E key \in Keys : Expire(key)
  BY <1>2 DEF Expire, TypeOK, Registered, Saved
<1>3. CASE Restart
  <2>1. registered' = saved /\ Registered' = Saved /\ Saved' = Saved
    BY <1>3, RestoredIsSaved DEF Restart, Registered, Saved
  <2>2. activation' \in Activation
    BY <1>3, ActivateType DEF Restart, TypeOK
  <2>3. request' \in [Handlers -> Request]
    BY <1>3 DEF Restart, Request
  <2>4. /\ saved \in [Canonicals -> Raws \cup {NoRaw}]
        /\ \A c \in Saved : CanonicalOf[saved[c]] = c
        /\ UNCHANGED <<saved, file, expired, faults>>
        /\ warned' = {} /\ raced' = {} /\ doubt' = {} /\ restarts' \in Nat
    BY <1>3 DEF Restart, TypeOK
  <2>6. ceiling' \in Nat
    <3>1. MaxTargetsOf[activation'.tier] \in Nat /\ ceiling \in Nat
      BY <2>2, DashboardAssumption DEF Activation, TypeOK
    <3>2. QED
      BY <1>3, <3>1 DEF Restart, Higher
  <2>5. QED
    BY <2>1, <2>2, <2>3, <2>4, <2>6 DEF TypeOK
<1>4. QED
  BY <1>1, <1>2, <1>3 DEF Next

LEMMA TypeInit == Init => TypeOK
BY DashboardAssumption DEF Init, TypeOK, Registered, Saved, Activation, Free, Tiers, Request

LEMMA TypeInvariant == Spec => []TypeOK
<1>1. TypeOK /\ [Next]_vars => TypeOK'
  <2>1. CASE UNCHANGED vars
    BY <2>1 DEF vars, TypeOK, Registered, Saved
  <2>2. QED
    BY <2>1, TypeStep
<1>2. QED
  BY <1>1, TypeInit, PTL DEF Spec

\* The scheduler's map, the table, the file and the requests have their types,
\* and every raw input is filed under its canonical form.
THEOREM DashboardTypes == Spec => []TypeOK
BY TypeInvariant

\* A restart brings back every saved target, whatever the tier in force then.
THEOREM RestartKeepsTargets == Spec => RestartDropsNothing
<1>1. TypeOK /\ [Next]_vars => [restarts' # restarts => Registered' = Saved]_vars
  <2> SUFFICES ASSUME TypeOK, Next, restarts' # restarts
               PROVE  Registered' = Saved
    BY DEF vars
  <2>1. Restart
    BY DEF Next, Handle, AddTargetAllowed, AddTarget, SaveTarget, SaveTargetFails,
        RemoveTarget, DeleteTarget, DeleteTargetFails, SetLicense, TruncateLicense,
        OpenLicenseFails, WriteLicense, WriteLicenseFails, SwitchActivation, Expire
  <2>2. QED
    BY <2>1, RestoredIsSaved DEF Restart, Registered, Saved
<1>2. QED
  BY <1>1, TypeInvariant, PTL DEF Spec, RestartDropsNothing

-----------------------------------------------------------------------------
(* What a restart would restore, when deletes succeed *)

\* h has changed the map for c and has yet to change the table.
Saving(h, c) == request[h].phase = "save" /\ CanonicalOf[request[h].raw] = c

\* Map and table agree on c unless a request is in the middle of it, and the
\* requests that are pull one way.
Agree(c) ==
  /\ \A x, y \in Handlers : ~(Adding(x, c) /\ Removing(y, c))
  /\ \A h \in Handlers : /\ Saving(h, c) => c \in Registered
                         /\ Removing(h, c) => c \notin Registered
  /\ (\A h \in Handlers : ~Saving(h, c) /\ ~Removing(h, c)) /\ c \notin warned
       => (c \in Registered <=> c \in Saved)

AgreeInv == faults.delete = 0 => \A c \in Canonicals \ raced : Agree(c)

\* What one request does about one target that is not raced for.
LEMMA AgreeOne ==
  ASSUME TypeOK, NEW h \in Handlers, Handle(h),
         NEW c \in Canonicals, c \notin raced', ~DeleteTargetFails(h), Agree(c)
  PROVE  Agree(c)'
<1>1. \A x \in Handlers : x # h =>
        /\ Adding(x, c)' = Adding(x, c)
        /\ Saving(x, c)' = Saving(x, c)
        /\ Removing(x, c)' = Removing(x, c)
  <2>1. \A x \in Handlers : x # h => request'[x] = request[x]
    BY DEF TypeOK, Handle, AddTargetAllowed, AddTarget, SaveTarget, SaveTargetFails,
        RemoveTarget, DeleteTarget, DeleteTargetFails, SetLicense, TruncateLicense,
        OpenLicenseFails, WriteLicense, WriteLicenseFails, SwitchActivation
  <2>2. QED
    BY <2>1 DEF Adding, Saving, Removing
<1>2. CASE AddTarget(h)
  <2>1. /\ request'[h].phase = "save" /\ request'[h].raw = request[h].raw
        /\ request[h].raw \in Raws
    BY <1>2, RequestShape DEF AddTarget, TypeOK, Request, Idle
  <2>2. /\ Adding(h, c)' = Adding(h, c)
        /\ Saving(h, c)' = Adding(h, c)
        /\ ~Removing(h, c)' /\ ~Removing(h, c)
    BY <1>2, <2>1 DEF AddTarget, Adding, Saving, Removing
  <2>3. /\ Adding(h, c) => c \in Registered'
        /\ ~Adding(h, c) => (c \in Registered' <=> c \in Registered)
    BY <1>2, <2>1, DashboardAssumption DEF AddTarget, Adding, Registered, TypeOK
  <2>4. Saved' = Saved /\ warned' = warned
    BY <1>2 DEF AddTarget, Saved
  <2>5. ~Adding(h, c) => ~Saving(h, c)
    BY DEF Adding, Saving
  <2>6. QED
    BY <1>1, <2>2, <2>3, <2>4, <2>5 DEF Agree
<1>3. CASE SaveTarget(h)
  <2>1. request'[h].phase = "idle" /\ request[h].raw \in Raws
    BY <1>3, RequestShape DEF SaveTarget, TypeOK, Idle
  <2>2. ~Adding(h, c)' /\ ~Saving(h, c)' /\ ~Removing(h, c)' /\ ~Removing(h, c)
    BY <1>3, <2>1 DEF SaveTarget, Adding, Saving, Removing
  <2>3. /\ Saving(h, c) => c \in Saved'
        /\ ~Saving(h, c) => (c \in Saved' <=> c \in Saved) /\ (c \in warned' <=> c \in warned)
        /\ Registered' = Registered
    BY <1>3, <2>1, DashboardAssumption
    DEF SaveTarget, Saving, Stored, Saved, Registered, TypeOK
  <2>4. QED
    BY <1>1, <2>2, <2>3 DEF Agree
<1>4. CASE SaveTargetFails(h)
  <2>1. request'[h].phase = "idle"
    BY <1>4 DEF SaveTargetFails, TypeOK, Idle
  <2>2. ~Adding(h, c)' /\ ~Saving(h, c)' /\ ~Removing(h, c)' /\ ~Removing(h, c)
    BY <1>4, <2>1 DEF SaveTargetFails, Adding, Saving, Removing
  <2>3. /\ Registered' = Registered /\ Saved' = Saved
        /\ c \notin warned' => c \notin warned /\ ~Saving(h, c)
    BY <1>4 DEF SaveTargetFails, Registered, Saved, Saving
  <2>4. QED
    BY <1>1, <2>2, <2>3 DEF Agree
<1>5. ASSUME NEW d \in Canonicals, RemoveTarget(h, d)
      PROVE  Agree(c)'
  <2>1. request'[h].phase = "delete" /\ request'[h].canonical = d
    BY <1>5 DEF RemoveTarget, TypeOK
  <2>2. /\ ~Adding(h, c)' /\ ~Saving(h, c)' /\ ~Saving(h, c) /\ ~Removing(h, c)
        /\ Removing(h, c)' <=> c = d
    BY <1>5, <2>1 DEF RemoveTarget, Adding, Saving, Removing
  <2>3. /\ c = d => c \notin Registered' /\ \A x \in Handlers : ~Adding(x, c)
        /\ c # d => (c \in Registered' <=> c \in Registered)
        /\ Saved' = Saved /\ warned' = warned
    BY <1>5 DEF RemoveTarget, Registered, Saved, TypeOK
  <2>4. \A x \in Handlers : Saving(x, c) => Adding(x, c)
    BY DEF Saving, Adding
  <2>5. QED
    BY <1>1, <2>2, <2>3, <2>4 DEF Agree
<1>6. CASE DeleteTarget(h)
  <2>1. request'[h].phase = "idle"
    BY <1>6 DEF DeleteTarget, TypeOK, Idle
  <2>2. ~Adding(h, c)' /\ ~Saving(h, c)' /\ ~Removing(h, c)' /\ ~Saving(h, c)
    BY <1>6, <2>1 DEF DeleteTarget, Adding, Saving, Removing
  <2>3. /\ Removing(h, c) => c \notin Saved'
        /\ ~Removing(h, c) => (c \in Saved' <=> c \in Saved) /\ (c \in warned' <=> c \in warned)
        /\ Registered' = Registered
    BY <1>6 DEF DeleteTarget, Registered, Saved, Removing, TypeOK
  <2>4. QED
    BY <1>1, <2>2, <2>3 DEF Agree
<1>7. ASSUME NEW raw \in Raws, AddTargetAllowed(h, raw)
      PROVE  Agree(c)'
  <2>1. request'[h].phase = "add" /\ request'[h].raw = raw
    BY <1>7 DEF AddTargetAllowed, TypeOK
  <2>2. /\ ~Saving(h, c)' /\ ~Removing(h, c)' /\ ~Saving(h, c) /\ ~Removing(h, c)
        /\ Adding(h, c)' <=> CanonicalOf[raw] = c
    BY <1>7, <2>1 DEF AddTargetAllowed, Adding, Saving, Removing
  <2>3. /\ CanonicalOf[raw] = c => \A x \in Handlers : ~Removing(x, c)
        /\ Registered' = Registered /\ Saved' = Saved /\ warned' = warned
    BY <1>7 DEF AddTargetAllowed, Registered, Saved
  <2>4. QED
    BY <1>1, <2>2, <2>3 DEF Agree
<1>8. CASE \/ \E key \in Keys \cup {NoKey} : SetLicense(h, key)
           \/ TruncateLicense(h) \/ OpenLicenseFails(h)
           \/ WriteLicense(h) \/ WriteLicenseFails(h) \/ SwitchActivation(h)
  <2>1. /\ UNCHANGED <<registered, saved, warned>>
        /\ request[h].phase \notin {"add", "save", "delete"}
    BY <1>8 DEF SetLicense, TruncateLicense, OpenLicenseFails, WriteLicense, WriteLicenseFails, SwitchActivation
  <2>2. request'[h].phase \notin {"add", "save", "delete"}
    BY <1>8 DEF SetLicense, TruncateLicense, OpenLicenseFails, WriteLicense, WriteLicenseFails, SwitchActivation,
                TypeOK, Idle, Request
  <2>3. /\ ~Adding(h, c)' /\ ~Saving(h, c)' /\ ~Removing(h, c)'
        /\ ~Adding(h, c) /\ ~Saving(h, c) /\ ~Removing(h, c)
        /\ Registered' = Registered /\ Saved' = Saved /\ warned' = warned
    BY <2>1, <2>2 DEF Adding, Saving, Removing, Registered, Saved
  <2>4. QED
    BY <1>1, <2>3 DEF Agree
<1>9. QED
  BY <1>2, <1>3, <1>4, <1>5, <1>6, <1>7, <1>8 DEF Handle

LEMMA AgreeStep ==
  ASSUME TypeOK, AgreeInv, Next
  PROVE  AgreeInv'
<1>1. ASSUME NEW h \in Handlers, Handle(h)
      PROVE  AgreeInv'
  <2> SUFFICES ASSUME faults'.delete = 0, NEW c \in Canonicals, c \notin raced'
               PROVE  Agree(c)'
    BY DEF AgreeInv
  <2>1. faults.delete = 0 /\ ~DeleteTargetFails(h)
    <3>1. /\ DeleteTargetFails(h) => faults'.delete = faults.delete + 1
          /\ faults'.delete # faults.delete => DeleteTargetFails(h)
      BY <1>1 DEF TypeOK, Handle, AddTargetAllowed, AddTarget, SaveTarget, SaveTargetFails,
          RemoveTarget, DeleteTarget, DeleteTargetFails, SetLicense, TruncateLicense,
          OpenLicenseFails, WriteLicense, WriteLicenseFails, SwitchActivation, Fail
    <3>2. QED
      BY <3>1 DEF TypeOK
  <2>2. c \notin raced
    BY <1>1 DEF Handle, AddTargetAllowed, AddTarget, SaveTarget, SaveTargetFails,
        RemoveTarget, DeleteTarget, DeleteTargetFails, SetLicense, TruncateLicense,
        OpenLicenseFails, WriteLicense, WriteLicenseFails, SwitchActivation
  <2>3. Agree(c)
    BY <2>1, <2>2 DEF AgreeInv
  <2>4. QED
    BY <1>1, <2>1, <2>3, AgreeOne
<1>2. CASE \E key \in Keys : Expire(key)
  BY <1>2 DEF Expire, AgreeInv, Agree, Adding, Saving, Removing, Registered, Saved
<1>3. CASE Restart
  <2>1. Registered' = Saved /\ Saved' = Saved
    BY <1>3, RestoredIsSaved DEF Restart, Registered, Saved
  <2>2. \A h \in Handlers : request'[h].phase = "idle"
    BY <1>3 DEF Restart, Idle
  <2>3. QED
    BY <2>1, <2>2 DEF AgreeInv, Agree, Adding, Saving, Removing
<1>4. QED
  BY <1>1, <1>2, <1>3 DEF Next

\* When deletes succeed, a restart restores the targets that are being scanned,
\* except those the user was warned of and those that an add and a removal have
\* raced for.
THEOREM RestartIsExact == Spec => []RestartExactUnlessRaced
<1>1. Init => AgreeInv
  BY DEF Init, AgreeInv, Agree, Adding, Saving, Removing, Registered, Saved, Idle
<1>2. TypeOK /\ AgreeInv /\ [Next]_vars => AgreeInv'
  <2>1. CASE UNCHANGED vars
    BY <2>1 DEF vars, AgreeInv, Agree, Adding, Saving, Removing, Registered, Saved
  <2>2. QED
    BY <2>1, AgreeStep
<1>3. TypeOK /\ AgreeInv => RestartExactUnlessRaced
  <2> SUFFICES ASSUME TypeOK, AgreeInv, Quiet, faults.delete = 0
               PROVE  \A c \in Canonicals : c \notin warned /\ c \notin raced =>
                        (c \in Registered <=> c \in Saved)
    BY DEF RestartExactUnlessRaced, Registered, Saved
  <2>1. \A h \in Handlers, c \in Canonicals : ~Saving(h, c) /\ ~Removing(h, c)
    BY DEF Quiet, Saving, Removing, Idle
  <2>2. QED
    BY <2>1 DEF AgreeInv, Agree
<1>4. QED
  BY <1>1, <1>2, <1>3, TypeInvariant, PTL DEF Spec

-----------------------------------------------------------------------------
(* The limit *)

\* Requests that were allowed to add a target and have not done so yet.
Allowed == {h \in Handlers : request[h].phase = "add"}

\* The targets there are and those that are about to be, together.
LimitInv ==
  /\ ceiling # 0 => /\ MaxTargetsOf[activation.tier] # 0
                    /\ MaxTargetsOf[activation.tier] <= ceiling
  /\ restarts = 0 /\ ceiling # 0 =>
       Cardinality(Registered) + Cardinality(Allowed) < ceiling + Cardinality(Handlers)

LEMMA CountsAreNat ==
  /\ IsFiniteSet(Registered) /\ IsFiniteSet(Allowed)
  /\ IsFiniteSet(Registered') /\ IsFiniteSet(Allowed')
  /\ Cardinality(Registered) \in Nat /\ Cardinality(Allowed) \in Nat
  /\ Cardinality(Registered') \in Nat /\ Cardinality(Allowed') \in Nat
  /\ Cardinality(Handlers) \in Nat
  /\ Cardinality(Allowed') <= Cardinality(Handlers)
<1>1. /\ Registered \subseteq Canonicals /\ Registered' \subseteq Canonicals
      /\ Allowed \subseteq Handlers /\ Allowed' \subseteq Handlers
  BY DEF Registered, Allowed
<1>2. IsFiniteSet(Canonicals) /\ IsFiniteSet(Handlers)
  BY DashboardAssumption
<1>3. QED
  BY <1>1, <1>2, FS_Subset, FS_CardinalityType

LEMMA OneAtMost ==
  ASSUME NEW S, IsFiniteSet(S), NEW x, NEW T, T = S \cup {x}
  PROVE  Cardinality(T) <= Cardinality(S) + 1
<1>1. Cardinality(S) \in Nat
  BY FS_CardinalityType
<1>2. CASE x \in S
  <2>1. T = S
    BY <1>2
  <2>2. QED
    BY <1>1, <2>1
<1>3. CASE x \notin S
  <2>1. Cardinality(T) = Cardinality(S) + 1
    BY <1>3, FS_AddElement
  <2>2. QED
    BY <1>1, <2>1
<1>4. QED
  BY <1>2, <1>3

\* The highest limit so far is at least the one in force.
LEMMA CeilingStep ==
  ASSUME TypeOK, TypeOK', LimitInv,
         ceiling' = Higher(ceiling, MaxTargetsOf[activation'.tier])
  PROVE  /\ ceiling' # 0 => /\ MaxTargetsOf[activation'.tier] # 0
                            /\ MaxTargetsOf[activation'.tier] <= ceiling'
         /\ ceiling' # 0 => ceiling # 0 /\ ceiling <= ceiling'
<1>1. ceiling \in Nat /\ MaxTargetsOf[activation'.tier] \in Nat
  BY DashboardAssumption DEF TypeOK, Activation
<1>2. QED
  BY <1>1 DEF Higher

\* Only AddTarget registers a target, and it uses up its request's permission;
\* only a request that found a free place gains one.
LEMMA LimitStep ==
  ASSUME TypeOK, TypeOK', LimitInv, Next
  PROVE  LimitInv'
<1>1. /\ ceiling \in Nat /\ ceiling' \in Nat
      /\ MaxTargetsOf[activation.tier] \in Nat
  BY DashboardAssumption DEF TypeOK, Activation
<1>2. ASSUME NEW h \in Handlers, Handle(h)
      PROVE  LimitInv'
  <2>1. /\ ceiling' # 0 => /\ MaxTargetsOf[activation'.tier] # 0
                           /\ MaxTargetsOf[activation'.tier] <= ceiling'
        /\ ceiling' # 0 => ceiling # 0 /\ ceiling <= ceiling'
    <3>1. CASE SwitchActivation(h)
      BY <3>1, CeilingStep DEF SwitchActivation
    <3>2. CASE UNCHANGED <<activation, ceiling>>
      BY <1>1, <3>2 DEF LimitInv
    <3>3. QED
      BY <1>2, <3>1, <3>2 DEF Handle, AddTargetAllowed, AddTarget, SaveTarget,
          SaveTargetFails, RemoveTarget, DeleteTarget, DeleteTargetFails, SetLicense,
          TruncateLicense, OpenLicenseFails, WriteLicense, WriteLicenseFails
  <2> SUFFICES ASSUME restarts' = 0, ceiling' # 0
               PROVE  Cardinality(Registered') + Cardinality(Allowed')
                        < ceiling' + Cardinality(Handlers)
    BY <2>1 DEF LimitInv, Registered, Allowed
  <2>2. restarts = 0
    BY <1>2 DEF Handle, AddTargetAllowed, AddTarget, SaveTarget, SaveTargetFails,
        RemoveTarget, DeleteTarget, DeleteTargetFails, SetLicense, TruncateLicense,
        OpenLicenseFails, WriteLicense, WriteLicenseFails, SwitchActivation
  <2>3. Cardinality(Registered) + Cardinality(Allowed) < ceiling + Cardinality(Handlers)
    BY <2>1, <2>2 DEF LimitInv
  <2>4. CASE \E raw \in Raws : AddTargetAllowed(h, raw)
    <3>1. Registered' = Registered /\ ceiling' = ceiling
      BY <2>4 DEF AddTargetAllowed, Registered
    <3>2. Cardinality(Registered) < MaxTargetsOf[activation.tier]
      BY <2>1, <2>4 DEF AddTargetAllowed, CanAddTarget, LimitInv
    <3>3. MaxTargetsOf[activation.tier] <= ceiling
      BY <2>1 DEF LimitInv
    <3>4. QED
      BY <1>1, <3>1, <3>2, <3>3, CountsAreNat
  <2>5. CASE AddTarget(h)
    <3> DEFINE c == CanonicalOf[request[h].raw]
    <3>1. c \in Canonicals /\ request[h].raw \in Raws
      BY <2>5, RequestShape, DashboardAssumption DEF AddTarget
    <3>2. Registered' = Registered \cup {c}
      BY <2>5, <3>1, DashboardAssumption DEF AddTarget, Registered, TypeOK
    <3>3. Cardinality(Registered') <= Cardinality(Registered) + 1
      BY <3>2, CountsAreNat, OneAtMost
    <3>4. request'[h].phase = "save"
      BY <2>5 DEF AddTarget, TypeOK, Request, Idle
    <3>5. h \in Allowed /\ Allowed' = Allowed \ {h} /\ ceiling' = ceiling
      BY <2>5, <3>4 DEF AddTarget, Allowed, TypeOK
    <3>6. Cardinality(Allowed') = Cardinality(Allowed) - 1
      BY <3>5, CountsAreNat, FS_RemoveElement
    <3>7. QED
      BY <1>1, <2>3, <3>3, <3>5, <3>6, CountsAreNat
  <2>6. CASE \E c \in Canonicals : RemoveTarget(h, c)
    <3>1. Registered' \subseteq Registered
      BY <2>6 DEF RemoveTarget, Registered, TypeOK
    <3>2. Allowed' = Allowed /\ ceiling' = ceiling
      BY <2>6 DEF RemoveTarget, Allowed, TypeOK
    <3>3. Cardinality(Registered') <= Cardinality(Registered)
      BY <3>1, CountsAreNat, FS_Subset
    <3>4. QED
      BY <1>1, <2>3, <3>2, <3>3, CountsAreNat
  <2>7. ASSUME ~AddTarget(h), ~\E raw \in Raws : AddTargetAllowed(h, raw),
               ~\E c \in Canonicals : RemoveTarget(h, c)
        PROVE  Registered' = Registered /\ Allowed' = Allowed
    <3>1. Registered' = Registered
      BY <1>2, <2>7 DEF Handle, SaveTarget, SaveTargetFails, DeleteTarget,
          DeleteTargetFails, SetLicense, TruncateLicense, OpenLicenseFails, WriteLicense, WriteLicenseFails,
          SwitchActivation, Registered
    <3>2. /\ request[h].phase # "add" /\ request'[h].phase # "add"
          /\ \A x \in Handlers : x # h => request'[x] = request[x]
      BY <1>2, <2>7 DEF Handle, SaveTarget, SaveTargetFails, DeleteTarget,
          DeleteTargetFails, SetLicense, TruncateLicense, OpenLicenseFails, WriteLicense, WriteLicenseFails,
          SwitchActivation, TypeOK, Request, Idle
    <3>3. Allowed' = Allowed
      BY <3>2 DEF Allowed
    <3>4. QED
      BY <3>1, <3>3
  <2>8. QED
    BY <1>1, <2>1, <2>3, <2>4, <2>5, <2>6, <2>7, CountsAreNat
<1>3. CASE \E key \in Keys : Expire(key)
  BY <1>3 DEF Expire, LimitInv, Registered, Allowed
<1>4. CASE Restart
  <2>1. restarts' # 0
    BY <1>4 DEF Restart, TypeOK
  <2>2. ceiling' = Higher(ceiling, MaxTargetsOf[activation'.tier])
    BY <1>4 DEF Restart
  <2>3. QED
    BY <2>1, <2>2, CeilingStep DEF LimitInv
<1>5. QED
  BY <1>2, <1>3, <1>4 DEF Next

\* Requests that race past the limit pass it by less than their number, whatever
\* tiers come and go.
THEOREM OvershootIsBounded == Spec => []OvershootBounded
<1>1. Init => LimitInv
  <2> SUFFICES ASSUME Init
               PROVE  LimitInv
    OBVIOUS
  <2>1. Registered = {} /\ Allowed = {}
    BY DEF Init, Registered, Allowed, Idle
  <2>2. Cardinality(Registered) = 0 /\ Cardinality(Allowed) = 0
    BY <2>1, FS_EmptySet
  <2>3. MaxTargetsOf["free"] \in Nat
    BY DashboardAssumption DEF Tiers
  <2>4. QED
    BY <2>2, <2>3, CountsAreNat DEF Init, LimitInv, Free
<1>2. TypeOK /\ LimitInv /\ [Next]_vars => LimitInv'
  <2>1. CASE UNCHANGED vars
    BY <2>1 DEF vars, LimitInv, Registered, Allowed
  <2>2. QED
    BY <2>1, LimitStep, TypeStep
<1>3. TypeOK /\ LimitInv => OvershootBounded
  <2>1. TypeOK => ceiling \in Nat
    BY DEF TypeOK
  <2>2. QED
    BY <2>1, CountsAreNat DEF LimitInv, OvershootBounded
<1>4. QED
  BY <1>1, <1>2, <1>3, TypeInvariant, PTL DEF Spec

-----------------------------------------------------------------------------
(* The license *)

Verifies(key) == key = NoKey \/ (IssuerKey /\ KeyTier[key] # "invalid")

\* Only keys that have verified reach the file.  While one request at a time sets
\* a key, the file holds what that request has written so far, and between two
\* such requests the key in force or what a failed write has left.
LicenseInv ==
  /\ Verifies(file)
  /\ \A h \in Handlers : Setting(h) =>
       Verifies(request[h].key) /\ request[h].activation.key = request[h].key
  /\ License \notin raced =>
       /\ \A x, y \in Handlers : Setting(x) /\ Setting(y) => x = y
       /\ \A h \in Handlers : request[h].phase = "fill" => file = NoKey
       /\ \A h \in Handlers : request[h].phase = "switch" => file = request[h].key
       /\ (\A h \in Handlers : request[h].phase \notin {"fill", "switch"}) =>
            file \in {activation.key} \cup expired \cup doubt

LEMMA LicenseStep ==
  ASSUME TypeOK, LicenseInv, Next
  PROVE  LicenseInv'
<1>1. ASSUME NEW h \in Handlers, Handle(h)
      PROVE  LicenseInv'
  <2>1. \A x \in Handlers : x # h =>
          request'[x] = request[x] /\ Setting(x)' = Setting(x)
    <3>1. \A x \in Handlers : x # h => request'[x] = request[x]
      BY <1>1 DEF TypeOK, Handle, AddTargetAllowed, AddTarget, SaveTarget,
          SaveTargetFails, RemoveTarget, DeleteTarget, DeleteTargetFails, SetLicense,
          TruncateLicense, OpenLicenseFails, WriteLicense, WriteLicenseFails, SwitchActivation
    <3>2. QED
      BY <3>1 DEF Setting
  <2>2. ASSUME NEW key \in Keys \cup {NoKey}, SetLicense(h, key)
        PROVE  LicenseInv'
    <3>1. /\ request'[h] = [phase |-> "write", key |-> key, activation |-> Activate(key)]
          /\ UNCHANGED <<file, activation, expired, doubt>>
      BY <2>2 DEF SetLicense, TypeOK
    <3>2. Verifies(key) /\ Activate(key).key = key
      BY <2>2 DEF SetLicense, Accepts, Activate, Verifies, Free
    <3>3. /\ License \in raced => License \in raced'
          /\ License \notin raced' => \A x \in Handlers : ~Setting(x)
      BY <2>2 DEF SetLicense
    <3>4. QED
      BY <2>1, <3>1, <3>2, <3>3 DEF LicenseInv, Setting, Verifies
  <2>3. ASSUME TruncateLicense(h)
        PROVE  LicenseInv'
    <3>1. request[h] \in [phase : {"write", "fill", "switch"}, key : Keys \cup {NoKey},
                          activation : Activation]
      BY <2>3 DEF TruncateLicense, TypeOK, Request, Idle
    <3>2. /\ request'[h].phase = "fill" /\ request'[h].key = request[h].key
          /\ request'[h].activation = request[h].activation
          /\ file' = NoKey /\ Setting(h)
          /\ UNCHANGED <<activation, expired, doubt, raced>>
      BY <2>3, <3>1 DEF TruncateLicense, TypeOK, Setting
    <3>3. License \notin raced => \A x \in Handlers : x # h => ~Setting(x)
      BY <3>2 DEF LicenseInv
    <3>4. QED
      BY <2>1, <3>2, <3>3 DEF LicenseInv, Setting, Verifies
  <2>4. ASSUME WriteLicense(h)
        PROVE  LicenseInv'
    <3>1. request[h] \in [phase : {"write", "fill", "switch"}, key : Keys \cup {NoKey},
                          activation : Activation]
      BY <2>4 DEF WriteLicense, TypeOK, Request, Idle
    <3>2. /\ request'[h].phase = "switch" /\ request'[h].key = request[h].key
          /\ request'[h].activation = request[h].activation
          /\ Setting(h) /\ request[h].phase = "fill"
          /\ UNCHANGED <<activation, expired, doubt, raced>>
      BY <2>4, <3>1 DEF WriteLicense, TypeOK, Setting
    <3>3. /\ file' \in {request[h].key, NoKey}
          /\ file = NoKey => file' = request[h].key
      BY <2>4 DEF WriteLicense, Overwritten
    <3>4. License \notin raced => /\ file = NoKey
                                 /\ \A x \in Handlers : x # h => ~Setting(x)
      BY <3>2 DEF LicenseInv
    <3>5. QED
      BY <2>1, <3>2, <3>3, <3>4 DEF LicenseInv, Setting, Verifies
  <2>5. ASSUME WriteLicenseFails(h)
        PROVE  LicenseInv'
    <3>1. /\ request'[h].phase = "idle" /\ file' \in {file, NoKey, request[h].key}
          /\ doubt' = {NoKey, request[h].key}
          /\ Setting(h) /\ request[h].phase = "fill"
          /\ UNCHANGED <<activation, expired, raced>>
      BY <2>5 DEF WriteLicenseFails, TypeOK, Idle, Setting
    <3>2. License \notin raced => /\ file = NoKey
                                 /\ \A x \in Handlers : x # h => ~Setting(x)
      BY <3>1 DEF LicenseInv
    <3>3. QED
      BY <2>1, <3>1, <3>2 DEF LicenseInv, Setting, Verifies
  <2>9. ASSUME OpenLicenseFails(h)
        PROVE  LicenseInv'
    <3>1. /\ request'[h].phase = "idle"
          /\ Setting(h) /\ request[h].phase = "write"
          /\ UNCHANGED <<file, activation, expired, doubt, raced>>
      BY <2>9 DEF OpenLicenseFails, TypeOK, Idle, Setting
    <3>2. QED
      BY <2>1, <3>1 DEF LicenseInv, Setting, Verifies
  <2>10. ASSUME SwitchActivation(h)
         PROVE  LicenseInv'
    <3>1. /\ request'[h].phase = "idle" /\ activation' = request[h].activation
          /\ UNCHANGED <<file, expired, raced>>
          /\ request[h].phase = "switch" /\ Setting(h)
      BY <2>10 DEF SwitchActivation, TypeOK, Idle, Setting
    <3>2. QED
      BY <2>1, <3>1 DEF LicenseInv, Setting, Verifies
  <2>6. ASSUME UNCHANGED <<file, activation, expired, doubt>>,
               License \in raced => License \in raced', ~Setting(h), ~Setting(h)'
        PROVE  LicenseInv'
    <3>1. /\ request[h].phase \notin {"fill", "switch"}
          /\ request'[h].phase \notin {"fill", "switch"}
      BY <2>6 DEF Setting
    <3>2. QED
      BY <2>1, <2>6, <3>1 DEF LicenseInv, Verifies
  <2>7. CASE \/ \E raw \in Raws : AddTargetAllowed(h, raw)
             \/ AddTarget(h) \/ SaveTarget(h) \/ SaveTargetFails(h)
             \/ \E c \in Canonicals : RemoveTarget(h, c)
             \/ DeleteTarget(h) \/ DeleteTargetFails(h)
    <3>1. /\ UNCHANGED <<file, activation, expired, doubt>>
          /\ License \in raced => License \in raced'
      BY <2>7 DEF AddTargetAllowed, AddTarget, SaveTarget, SaveTargetFails,
          RemoveTarget, DeleteTarget, DeleteTargetFails
    <3>2. ~Setting(h)
      BY <2>7 DEF AddTargetAllowed, AddTarget, SaveTarget, SaveTargetFails,
          RemoveTarget, DeleteTarget, DeleteTargetFails, Setting
    <3>3. request'[h].phase \notin {"write", "fill", "switch"}
      <4>1. CASE AddTarget(h)
        BY <4>1 DEF AddTarget, TypeOK, Request, Idle
      <4>2. QED
        BY <2>7, <4>1 DEF AddTargetAllowed, SaveTarget, SaveTargetFails,
            RemoveTarget, DeleteTarget, DeleteTargetFails, TypeOK, Idle
    <3>4. ~Setting(h)'
      BY <3>3 DEF Setting
    <3>5. QED
      BY <2>6, <3>1, <3>2, <3>4
  <2>8. QED
    BY <1>1, <2>2, <2>3, <2>4, <2>5, <2>7, <2>9, <2>10 DEF Handle
<1>2. CASE \E key \in Keys : Expire(key)
  BY <1>2 DEF Expire, LicenseInv, Setting, Verifies
<1>3. CASE Restart
  <2>1. \A h \in Handlers : request'[h].phase = "idle"
    BY <1>3 DEF Restart, Idle
  <2>2. UNCHANGED <<file, expired>> /\ activation' = Activate(file)
    BY <1>3 DEF Restart
  <2>3. Activate(file).key = file \/ file \in expired
    BY DEF LicenseInv, Verifies, Activate, Free
  <2>4. QED
    BY <2>1, <2>2, <2>3 DEF LicenseInv, Setting, Verifies
<1>4. QED
  BY <1>1, <1>2, <1>3 DEF Next

\* Wherever the process ends, the license file holds the key in force, an
\* expired one, or what a write under way or a failed one has left: another key
\* that verifies, or none.
THEOREM LicenseIsPersisted == Spec => []ActivationPersisted
<1>1. Init => LicenseInv
  BY DEF Init, LicenseInv, Verifies, Setting, Idle, Free
<1>2. TypeOK /\ LicenseInv /\ [Next]_vars => LicenseInv'
  <2>1. CASE UNCHANGED vars
    BY <2>1 DEF vars, LicenseInv, Setting, Verifies
  <2>2. QED
    BY <2>1, LicenseStep
<1>3. LicenseInv => ActivationPersisted
  BY DEF LicenseInv, ActivationPersisted, Verifies
<1>4. QED
  BY <1>1, <1>2, <1>3, TypeInvariant, PTL DEF Spec
=============================================================================
