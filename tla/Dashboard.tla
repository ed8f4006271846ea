------------------------------ MODULE Dashboard ------------------------------
(***************************************************************************)
(* The handlers of the web server that change the configuration            *)
(* (web/server.go): targets are added and removed in the scheduler's map   *)
(* and in the targets table (store/sqlite.go), and license keys are        *)
(* verified, written to the license file and put in force                  *)
(* (license/license.go).  A restart rebuilds the scheduler's targets from  *)
(* the table and the activation from the file (cmd/certlight/main.go).     *)
(*                                                                         *)
(* A handler runs in its own goroutine.  One access to the scheduler's     *)
(* map, to the database or to the activation is one step, and so is each   *)
(* of the two calls to the system that os.WriteFile makes of a key;        *)
(* nothing spans two of them.                                              *)
(***************************************************************************)
EXTENDS Naturals, FiniteSets

CONSTANTS
  Raws,         \* what users type
  Canonicals,   \* host:port
  CanonicalOf,  \* ValidateTarget on the raws it accepts: [Raws -> Canonicals]
  Handlers,     \* requests in flight at once
  Keys,         \* license keys users paste
  KeyTier,      \* the tier a key is signed for, or "invalid": [Keys -> ...]
  IssuerKey,    \* was the build given the issuer's public key?
  MaxTargetsOf, \* TierLimits[tier].MaxTargets, 0 for no limit: [Tiers -> Nat]
  MaxFaults,    \* bound: failures of the database and of the disk
  MaxRestarts   \* bound: restarts

Tiers == {"free", "pro", "team"}
NoRaw == "none"
NoKey == "no key"
License == "license"

ASSUME DashboardAssumption ==
  /\ CanonicalOf \in [Raws -> Canonicals]
  /\ NoRaw \notin Raws /\ NoKey \notin Keys /\ License \notin Canonicals
  /\ KeyTier \in [Keys -> {"pro", "team", "invalid"}]
  /\ IssuerKey \in BOOLEAN
  /\ MaxTargetsOf \in [Tiers -> Nat]
  /\ IsFiniteSet(Canonicals) /\ IsFiniteSet(Handlers)
  /\ MaxFaults \in Nat /\ MaxRestarts \in Nat

VARIABLES
  registered,  \* the scheduler's map: [Canonicals -> Raws \cup {NoRaw}]
  saved,       \* the targets table, likewise
  file,        \* the key in the license file; a part of one is as good as none
  activation,  \* Server.activation: its tier and the key it comes from
  expired,     \* keys whose ExpiresAt has passed
  request,     \* request[h]: where a handler is
  warned,      \* history: targets a user was told are not persisted
  raced,       \* history: targets an add and a removal in flight at once have
               \* worked on, and License if two requests have both set a key
  doubt,       \* history: what a write that failed may have left in the file,
               \* until the next one succeeds
  ceiling,     \* history: the highest limit in force so far, 0 for none
  faults,      \* failures so far, by the step that failed
  restarts     \* restarts so far

vars == <<registered, saved, file, activation, expired, request, warned,
          raced, doubt, ceiling, faults, restarts>>

Idle == [phase |-> "idle"]

Activation == [tier : Tiers, key : Keys \cup {NoKey}]
Free == [tier |-> "free", key |-> NoKey]

\* (Mutant of Activate: the signature is not looked at.)
ActivateUnverified(key) ==
  IF IssuerKey /\ key # NoKey /\ key \notin expired
  THEN [tier |-> KeyTier[key], key |-> key] ELSE Free

\* Activate: any key that does not verify, or no longer, means the free tier.
Activate(key) ==
  IF IssuerKey /\ key # NoKey /\ KeyTier[key] # "invalid" /\ key \notin expired
  THEN [tier |-> KeyTier[key], key |-> key] ELSE Free

Registered == {c \in Canonicals : registered[c] # NoRaw}
Saved      == {c \in Canonicals : saved[c] # NoRaw}

\* (Mutant of CanAddTarget: off by one.)
CanAddTargetAtLimit(current) ==
  \/ MaxTargetsOf[activation.tier] = 0
  \/ current <= MaxTargetsOf[activation.tier]

CanAddTarget(current) ==
  \/ MaxTargetsOf[activation.tier] = 0
  \/ current < MaxTargetsOf[activation.tier]

Adding(h, c) ==
  request[h].phase \in {"add", "save"} /\ CanonicalOf[request[h].raw] = c

Removing(h, c) == request[h].phase = "delete" /\ request[h].canonical = c

Setting(h) == request[h].phase \in {"write", "fill", "switch"}

\* The higher of two limits; 0 is none.
Higher(m, n) == IF m = 0 \/ n = 0 THEN 0 ELSE IF m < n THEN n ELSE m

Fail(step) ==
  /\ faults.save + faults.delete + faults.write < MaxFaults
  /\ faults' = [faults EXCEPT ![step] = @ + 1]

-----------------------------------------------------------------------------
Init ==
  /\ registered = [c \in Canonicals |-> NoRaw]
  /\ saved      = [c \in Canonicals |-> NoRaw]
  /\ file = NoKey
  /\ activation = Free
  /\ expired = {}
  /\ request  = [h \in Handlers |-> Idle]
  /\ warned   = {}
  /\ raced    = {}
  /\ doubt    = {}
  /\ ceiling  = MaxTargetsOf["free"]
  /\ faults   = [save |-> 0, delete |-> 0, write |-> 0]
  /\ restarts = 0

\* handleAddTarget counts the targets and asks the activation; above the limit
\* the request is refused (HTTP 402).
AddTargetAllowed(h, raw) ==
  /\ request[h].phase = "idle"
  /\ CanAddTarget(Cardinality(Registered))
  /\ request' = [request EXCEPT ![h] = [phase |-> "add", raw |-> raw]]
  /\ raced' = raced \cup {c \in {CanonicalOf[raw]} : \E x \in Handlers : Removing(x, c)}
  /\ UNCHANGED <<registered, saved, file, activation, expired, warned, doubt, ceiling, faults, restarts>>

\* Scheduler.AddTarget: the map keeps the latest raw input.
AddTarget(h) ==
  /\ request[h].phase = "add"
  /\ registered' = [registered EXCEPT ![CanonicalOf[request[h].raw]] = request[h].raw]
  /\ request' = [request EXCEPT ![h].phase = "save"]
  /\ UNCHANGED <<saved, file, activation, expired, warned, raced, doubt, ceiling, faults, restarts>>

\* (Mutant of Stored: the row is not written.)
StoredNever(row, raw) == row

\* INSERT ... ON CONFLICT DO NOTHING: the table keeps the first raw input.
Stored(row, raw) == IF row = NoRaw THEN raw ELSE row

SaveTarget(h) ==
  LET c == CanonicalOf[request[h].raw] IN
  /\ request[h].phase = "save"
  /\ saved' = [saved EXCEPT ![c] = Stored(@, request[h].raw)]
  /\ warned' = warned \ {c}
  /\ request' = [request EXCEPT ![h] = Idle]
  /\ UNCHANGED <<registered, file, activation, expired, raced, doubt, ceiling, faults, restarts>>

\* The user is told that the target is scanned but not persisted.
SaveTargetFails(h) ==
  /\ request[h].phase = "save"
  /\ Fail("save")
  /\ warned' = warned \cup {CanonicalOf[request[h].raw]}
  /\ request' = [request EXCEPT ![h] = Idle]
  /\ UNCHANGED <<registered, saved, file, activation, expired, raced, doubt, ceiling, restarts>>

\* handleRemoveTarget: Scheduler.RemoveTarget ...
RemoveTarget(h, c) ==
  /\ request[h].phase = "idle"
  /\ registered' = [registered EXCEPT ![c] = NoRaw]
  /\ request' = [request EXCEPT ![h] = [phase |-> "delete", canonical |-> c]]
  /\ raced' = raced \cup {d \in {c} : \E x \in Handlers : Adding(x, d)}
  /\ UNCHANGED <<saved, file, activation, expired, warned, doubt, ceiling, faults, restarts>>

\* ... then DeleteTarget ...
DeleteTarget(h) ==
  /\ request[h].phase = "delete"
  /\ saved' = [saved EXCEPT ![request[h].canonical] = NoRaw]
  /\ warned' = warned \ {request[h].canonical}
  /\ request' = [request EXCEPT ![h] = Idle]
  /\ UNCHANGED <<registered, file, activation, expired, raced, doubt, ceiling, faults, restarts>>

\* ... whose error is dropped: the user is told it worked.
DeleteTargetFails(h) ==
  /\ request[h].phase = "delete"
  /\ Fail("delete")
  /\ request' = [request EXCEPT ![h] = Idle]
  /\ UNCHANGED <<registered, saved, file, activation, expired, warned, raced, doubt, ceiling, restarts>>

\* A key that activates nothing is refused; the empty key is how a user goes
\* back to the free tier.
Accepts(key) == key = NoKey \/ Activate(key).tier # "free"

\* handleSetLicense verifies the key ...
SetLicense(h, key) ==
  /\ request[h].phase = "idle"
  /\ Accepts(key)
  /\ request' = [request EXCEPT ![h] =
                   [phase |-> "write", key |-> key, activation |-> Activate(key)]]
  /\ raced' = raced \cup {l \in {License} : \E x \in Handlers : Setting(x)}
  /\ UNCHANGED <<registered, saved, file, activation, expired, warned, doubt, ceiling, faults, restarts>>

\* ... writes the file: os.WriteFile opens it, which truncates it ...
TruncateLicense(h) ==
  /\ request[h].phase = "write"
  /\ file' = NoKey
  /\ request' = [request EXCEPT ![h].phase = "fill"]
  /\ UNCHANGED <<registered, saved, activation, expired, warned, raced, doubt, ceiling, faults, restarts>>

OpenLicenseFails(h) ==
  /\ request[h].phase = "write"
  /\ Fail("write")
  /\ request' = [request EXCEPT ![h] = Idle]
  /\ UNCHANGED <<registered, saved, file, activation, expired, warned, raced, doubt, ceiling, restarts>>

\* The file once the key is written over what it holds: the key of another
\* request, if not empty, and when that is the longer one its end remains.
Overwritten(key) == IF file \in {NoKey, key} THEN {key} ELSE {key, NoKey}

\* ... then writes the key and closes it ...
WriteLicense(h) ==
  /\ request[h].phase = "fill"
  /\ file' \in Overwritten(request[h].key)
  /\ request' = [request EXCEPT ![h].phase = "switch"]
  /\ UNCHANGED <<registered, saved, activation, expired, warned, raced, doubt, ceiling, faults, restarts>>

\* (Mutant of WriteLicenseFails: the error is dropped, as DeleteTarget's is.)
WriteLicenseFailsUnnoticed(h) ==
  /\ request[h].phase = "fill"
  /\ Fail("write")
  /\ file' \in {file, NoKey, request[h].key}
  /\ request' = [request EXCEPT ![h].phase = "switch"]
  /\ UNCHANGED <<registered, saved, activation, expired, warned, raced, doubt, ceiling, restarts>>

\* (Writing fails after none of the key or some, closing after all of it.)
WriteLicenseFails(h) ==
  /\ request[h].phase = "fill"
  /\ Fail("write")
  /\ file' \in {file, NoKey, request[h].key}
  /\ doubt' = {NoKey, request[h].key}
  /\ request' = [request EXCEPT ![h] = Idle]
  /\ UNCHANGED <<registered, saved, activation, expired, warned, raced, ceiling, restarts>>

\* ... and puts the activation in force, under s.mu.
SwitchActivation(h) ==
  /\ request[h].phase = "switch"
  /\ activation' = request[h].activation
  /\ doubt' = {}
  /\ ceiling' = Higher(ceiling, MaxTargetsOf[activation'.tier])
  /\ request' = [request EXCEPT ![h] = Idle]
  /\ UNCHANGED <<registered, saved, file, expired, warned, raced, faults, restarts>>

\* The date of a key passes.  Nobody looks.
Expire(key) ==
  /\ key \notin expired /\ KeyTier[key] # "invalid"
  /\ expired' = expired \cup {key}
  /\ UNCHANGED <<registered, saved, file, activation, request, warned, raced, doubt, ceiling, faults, restarts>>

\* (Mutant of Restored: only as many targets as the tier allows come back.)
RestoredUpToLimit(act) ==
  IF MaxTargetsOf[act.tier] # 0 /\ Cardinality(Saved) > MaxTargetsOf[act.tier]
  THEN [c \in Canonicals |-> NoRaw] ELSE saved

\* Boot replays every saved raw input through AddTarget; no limit is asked for.
Restored(act) ==
  [c \in Canonicals |->
     LET replayed == {saved[d] : d \in Saved} IN
     IF \E r \in replayed : CanonicalOf[r] = c
     THEN CHOOSE r \in replayed : CanonicalOf[r] = c
     ELSE NoRaw]

\* The process ends, at any point of any request, and is started again.
Restart ==
  /\ restarts < MaxRestarts
  /\ restarts' = restarts + 1
  /\ activation' = Activate(file)
  /\ registered' = Restored(activation')
  /\ request' = [h \in Handlers |-> Idle]
  /\ warned' = {} /\ raced' = {} /\ doubt' = {}
  /\ ceiling' = Higher(ceiling, MaxTargetsOf[activation'.tier])
  /\ UNCHANGED <<saved, file, expired, faults>>

Handle(h) ==
  \/ \E raw \in Raws : AddTargetAllowed(h, raw)
  \/ AddTarget(h) \/ SaveTarget(h) \/ SaveTargetFails(h)
  \/ \E c \in Canonicals : RemoveTarget(h, c)
  \/ DeleteTarget(h) \/ DeleteTargetFails(h)
  \/ \E key \in Keys \cup {NoKey} : SetLicense(h, key)
  \/ TruncateLicense(h) \/ OpenLicenseFails(h)
  \/ WriteLicense(h) \/ WriteLicenseFails(h) \/ SwitchActivation(h)

Next ==
  \/ \E h \in Handlers : Handle(h)
  \/ \E key \in Keys : Expire(key)
  \/ Restart

Spec == Init /\ [][Next]_vars

-----------------------------------------------------------------------------
(* Properties *)

Request ==
  {Idle}
  \cup [phase : {"add", "save"}, raw : Raws]
  \cup [phase : {"delete"}, canonical : Canonicals]
  \cup [phase : {"write", "fill", "switch"}, key : Keys \cup {NoKey}, activation : Activation]

\* Every variable has its type, and a raw input is filed under its own
\* canonical form.
TypeOK ==
  /\ registered \in [Canonicals -> Raws \cup {NoRaw}]
  /\ saved \in [Canonicals -> Raws \cup {NoRaw}]
  /\ \A c \in Registered : CanonicalOf[registered[c]] = c
  /\ \A c \in Saved : CanonicalOf[saved[c]] = c
  /\ file \in Keys \cup {NoKey}
  /\ activation \in Activation
  /\ expired \in SUBSET Keys
  /\ request \in [Handlers -> Request]
  /\ warned \in SUBSET Canonicals
  /\ raced \in SUBSET (Canonicals \cup {License})
  /\ doubt \in SUBSET (Keys \cup {NoKey})
  /\ ceiling \in Nat
  /\ faults \in [save : Nat, delete : Nat, write : Nat]
  /\ restarts \in Nat

Quiet == \A h \in Handlers : request[h] = Idle

\* Between requests, the targets scanned are those a restart would restore,
\* except for the ones the user was told of ("a restart restores them
\* exactly", store/targets.go:3-4; web/server.go:239-240).
RestartRestoresTargets == Quiet => Registered \ warned = Saved \ warned

\* The same when deletes have succeeded and for the targets that no add has
\* raced a removal for.  Adds may race with adds and removals with removals.
RestartExactUnlessRaced ==
  Quiet /\ faults.delete = 0 =>
    Registered \ (warned \cup raced) = Saved \ (warned \cup raced)

\* Whatever has become of the license, a restart drops no saved target ("scanning
\* never stops", license/license.go:11-12).
RestartDropsNothing ==
  [][restarts' # restarts => Registered' = Saved]_vars

\* Wherever the process ends, the next one finds the key in force in the file,
\* unless that key has expired, two requests have set a key at once, or the
\* write of another key was under way or had failed (server.go:300): then it
\* finds that other key, if it was written, or none, and until the answer the
\* old one is in force.  A key that has not verified is never found.
ActivationPersisted ==
  /\ file # NoKey => KeyTier[file] # "invalid"
  /\ License \notin raced =>
       \/ file \in {activation.key} \cup expired \cup doubt
       \/ \E h \in Handlers : request[h].phase = "fill" /\ file = NoKey
       \/ \E h \in Handlers : request[h].phase = "switch" /\ file = request[h].key

\* Until a restart, which asks for no limit, the targets exceed the highest
\* limit there has been by less than the number of requests that race past it
\* (README.md:47, "Monitored hosts | 10"; handleAddTarget counts the targets
\* before it adds one).
OvershootBounded ==
  restarts = 0 /\ ceiling # 0 =>
    Cardinality(Registered) < ceiling + Cardinality(Handlers)
=============================================================================
