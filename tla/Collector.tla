------------------------------ MODULE Collector ------------------------------
(***************************************************************************)
(* certlight.Collect (certlight/collector.go) against a server that is     *)
(* reconfigured while it is watched: one connection whose certificate and  *)
(* parameters are graded, a second one that probes for legacy TLS, then    *)
(* the findings are reconciled with those on record.                       *)
(*                                                                         *)
(* Each connection sees the server as it is at that instant.  Reconcile is *)
(* one step here, and the user's decisions are left out (see Reconcile): a *)
(* finding is on record and not resolved when the last scan returned it    *)
(* (ResolveAfter is 1).                                                    *)
(***************************************************************************)
EXTENDS Integers

CONSTANTS
  Certs,        \* certificates the server may be given
  About,        \* what they say: [Certs -> Certificate]
  Servers,      \* configurations the server may have
  Ciphers, InsecureCiphers,        \* cipher suites; tls.InsecureCipherSuites()
  Algorithms, ObsoleteAlgorithms,  \* of signatures; those with SHA-1 or MD5
  None,         \* the discriminator of checks that find one thing at most
  HostIsIP,     \* is the target an address and not a name?
  Day,          \* units of time in a day
  MaxGap,       \* the server answers a scan at least this often
  MaxTime, MaxDeploys   \* bounds

TLS10 == 10
TLS11 == 11
TLS12 == 12
TLS13 == 13

\* rooted: Verify finds a path to a root, the dates apart.  length: of the
\* chain the server presents.  rsaBits: 0 for a key that is not RSA.
Certificate ==
  [notAfter : Nat, covers : BOOLEAN, rooted : BOOLEAN, length : Nat \ {0},
   selfIssued : BOOLEAN, rsaBits : Nat, signature : Algorithms]

\* min, max: the versions of TLS the server accepts.
Configuration ==
  [cert : Certs, min : TLS10..TLS13, max : TLS10..TLS13, cipher : Ciphers]

ASSUME CollectorAssumption ==
  /\ About \in [Certs -> Certificate]
  /\ Servers \subseteq {s \in Configuration : s.min <= s.max}
  /\ HostIsIP \in BOOLEAN
  /\ Day \in Nat \ {0}
  /\ {MaxGap, MaxTime, MaxDeploys} \subseteq Nat

VARIABLES
  now,        \* the clock
  server,     \* the server's configuration
  since,      \* when the server was given its certificate
  scan,       \* the local variables of Collect
  open,       \* findings on record that are not resolved
  last,       \* when the last scan that was reconciled read the clock
  witnessed,  \* history: <<configuration, time>> pairs since the scan began
  alarmed,    \* history: certificates a critical tls.expiry was on record for
  deploys     \* so far

vars == <<now, server, since, scan, open, last, witnessed, alarmed, deploys>>

-----------------------------------------------------------------------------
(* Grading *)

Critical == 4
High     == 3
Medium   == 2

\* A finding; of is the part of its fingerprint that is not the check.
Finding(check, of, severity) == [check |-> check, of |-> of, severity |-> severity]

Id(f) == <<f.check, f.of>>
Ids(findings) == {Id(f) : f \in findings}

\* (Mutants of ExpirySeverity: off by one; or the severity of the first stage
\* is not set.)
ExpirySeverityLastDay(days) ==
  IF days < 1 THEN Critical ELSE IF days <= 7 THEN High ELSE Medium

ExpirySeverityUnset(days) ==
  IF days <= 1 THEN Critical ELSE IF days <= 7 THEN High ELSE 0

ExpirySeverity(days) ==
  IF days <= 1 THEN Critical ELSE IF days <= 7 THEN High ELSE Medium

\* (Mutant of CheckExpiry: whole days are compared where instants are.)
CheckExpiryByDay(cert, t) ==
  LET days == (About[cert].notAfter - t) \div Day IN
  IF days <= 0 THEN {Finding("tls.expired", None, Critical)}
  ELSE {Finding("tls.expiry", None, ExpirySeverity(d)) : d \in {days} \cap 0..30}

\* Hours are truncated to whole days.
CheckExpiry(cert, t) ==
  IF t > About[cert].notAfter
  THEN {Finding("tls.expired", None, Critical)}
  ELSE LET days == (About[cert].notAfter - t) \div Day
       IN {Finding("tls.expiry", None, ExpirySeverity(d)) : d \in {days} \cap 0..30}

CheckHostname(cert) ==
  {Finding("tls.hostname_mismatch", None, High) :
     c \in {c \in {cert} : ~HostIsIP /\ ~About[c].covers}}

\* leaf.Verify at the time of the scan: it looks at the dates too.
Verifies(cert, t) == About[cert].rooted /\ t <= About[cert].notAfter

CheckChain(cert, t) ==
  IF Verifies(cert, t) THEN {}
  ELSE IF About[cert].length = 1 /\ ~About[cert].selfIssued
  THEN {Finding("tls.incomplete_chain", None, Medium)}
  ELSE {Finding("tls.untrusted_chain", None, High)}

\* The connection has the newest version both sides accept; this side accepts all.
CheckProtocol(s) ==
  {Finding("tls.weak_protocol", v, High) : v \in {s.max} \cap TLS10..TLS11}

CheckCipher(s) ==
  {Finding("tls.weak_cipher", c, High) : c \in {s.cipher} \cap InsecureCiphers}

CheckKeyStrength(cert) ==
  {Finding("tls.weak_key", bits, High) : bits \in {About[cert].rsaBits} \cap 1..2047}

CheckSignature(cert) ==
  {Finding("tls.legacy_signature", alg, High) :
     alg \in {About[cert].signature} \cap ObsoleteAlgorithms}

Graded(s, t) ==
  CheckExpiry(s.cert, t) \cup CheckHostname(s.cert) \cup CheckChain(s.cert, t)
  \cup CheckProtocol(s) \cup CheckCipher(s)
  \cup CheckKeyStrength(s.cert) \cup CheckSignature(s.cert)

\* (Mutant of ProbedLegacy: the probe offers TLS 1.0 only.)
ProbedTLS10(s) ==
  {Finding("tls.legacy_protocol", None, Medium) : v \in {s.min} \cap {TLS10}}

\* A handshake that offers TLS 1.0 and 1.1.
ProbedLegacy(s) ==
  {Finding("tls.legacy_protocol", None, Medium) : v \in {s.min} \cap {TLS10, TLS11}}

-----------------------------------------------------------------------------
Idle == [phase |-> "idle"]

Init ==
  /\ now = 0 /\ since = 0 /\ last = 0
  /\ server \in Servers
  /\ scan = Idle
  /\ open = {}
  /\ witnessed = {} /\ alarmed = {}
  /\ deploys = 0

\* What a scan under way could see of the server.
Witness(s, t) == witnessed' = witnessed \cup {<<s, t>> : x \in {scan} \ {Idle}}

\* Collect connects, reads the clock and grades what it got.
Dial ==
  /\ scan = Idle
  /\ scan' = [phase |-> "graded", at |-> now, since |-> since, cert |-> server.cert,
              probed |-> FALSE, findings |-> Graded(server, now)]
  /\ witnessed' = {<<server, now>>}
  /\ UNCHANGED <<now, server, since, open, last, alarmed, deploys>>

\* (Mutant of DialFails: no findings instead of an error.)
DialFailsAllClear ==
  /\ scan = Idle
  /\ scan' = [phase |-> "collected", at |-> now, since |-> since, cert |-> server.cert,
              probed |-> FALSE, findings |-> {}]
  /\ witnessed' = {<<server, now>>}
  /\ UNCHANGED <<now, server, since, open, last, alarmed, deploys>>

\* An error: nothing is reconciled.
DialFails == scan = Idle /\ UNCHANGED vars

Collected(probed, findings) ==
  [scan EXCEPT !.phase = "collected", !.probed = probed, !.findings = @ \cup findings]

\* probeLegacy on a connection of its own ...
Probe ==
  /\ scan.phase = "graded"
  /\ scan' = Collected(TRUE, ProbedLegacy(server))
  /\ UNCHANGED <<now, server, since, open, last, witnessed, alarmed, deploys>>

\* ... whose errors, however many, all mean that legacy TLS is refused.
ProbeFails ==
  /\ scan.phase = "graded"
  /\ scan' = Collected(FALSE, {})
  /\ UNCHANGED <<now, server, since, open, last, witnessed, alarmed, deploys>>

\* Reconcile: what was not returned resolves, what was is on record.
Reconcile ==
  /\ scan.phase = "collected"
  /\ open' = scan.findings
  /\ last' = scan.at
  /\ alarmed' = alarmed \cup
       {scan.cert : f \in {f \in scan.findings : f.check = "tls.expiry" /\ f.severity = Critical}}
  /\ scan' = Idle
  /\ witnessed' = {}
  /\ UNCHANGED <<now, server, since, deploys>>

\* The administrator gives the server another configuration.
Deploy(s) ==
  /\ deploys < MaxDeploys
  /\ deploys' = deploys + 1
  /\ server' = s
  /\ since' = IF s.cert = server.cert THEN since ELSE now
  /\ Witness(s, now)
  /\ UNCHANGED <<now, scan, open, last, alarmed>>

\* Time passes, but never so much that no scan of the last MaxGap is reconciled.
Tick ==
  /\ now < MaxTime /\ now - last < MaxGap
  /\ now' = now + 1
  /\ Witness(server, now')
  /\ UNCHANGED <<server, since, scan, open, last, alarmed, deploys>>

Next ==
  \/ Dial \/ DialFails \/ Probe \/ ProbeFails \/ Reconcile
  \/ \E s \in Servers : Deploy(s)
  \/ Tick

Spec == Init /\ [][Next]_vars

\* Scans go on, each ends, and the server is up again and again.
Fairness == WF_vars(Dial) /\ WF_vars(Probe \/ ProbeFails) /\ WF_vars(Reconcile)

FairSpec == Spec /\ Fairness

-----------------------------------------------------------------------------
(* Properties *)

\* What is wrong with a server, said without the collector: certificate and
\* chain are rejected, outdated or about to be, something obsolete is accepted.
Flawed(id, s, t) ==
  LET about == About[s.cert]
      left  == about.notAfter - t
      check == id[1]
      trust == IF left < 0 \/ ~about.rooted THEN
                 IF about.length > 1 \/ about.selfIssued
                 THEN "tls.untrusted_chain" ELSE "tls.incomplete_chain"
               ELSE "none"
  IN
  \/ check = "tls.expired" /\ left < 0
  \/ check = "tls.expiry" /\ 0 <= left /\ left < 31 * Day
  \/ check = "tls.hostname_mismatch" /\ ~HostIsIP /\ ~about.covers
  \/ check = trust
  \/ check = "tls.weak_protocol" /\ s.max = id[2] /\ s.max < TLS12
  \/ check = "tls.legacy_protocol" /\ s.min < TLS12
  \/ check = "tls.weak_cipher" /\ s.cipher = id[2] /\ s.cipher \in InsecureCiphers
  \/ check = "tls.weak_key" /\ about.rsaBits = id[2] /\ about.rsaBits \in 1..2047
  \/ check = "tls.legacy_signature" /\ about.signature = id[2]
       /\ about.signature \in ObsoleteAlgorithms

Findings ==
  [check : {"tls.expired", "tls.expiry", "tls.hostname_mismatch", "tls.untrusted_chain",
            "tls.incomplete_chain", "tls.weak_protocol", "tls.legacy_protocol",
            "tls.weak_cipher", "tls.weak_key", "tls.legacy_signature"},
   of : {None} \cup Ciphers \cup Algorithms \cup Nat,
   severity : Medium..Critical]

Scan == [phase : {"graded", "collected"}, at : Nat, since : Nat, cert : Certs,
         probed : BOOLEAN, findings : SUBSET Findings]

\* Every variable has its type, and findings are well-formed.
TypeOK ==
  /\ now \in Nat /\ since \in Nat /\ last \in Nat
  /\ server \in Servers
  /\ scan \in {Idle} \cup Scan
  /\ open \subseteq Findings
  /\ witnessed \subseteq Servers \X Nat
  /\ alarmed \subseteq Certs
  /\ deploys \in Nat

\* A finding resolves only if the server was without the flaw at some instant
\* of the scan (README.md:19, "auto-resolved when fixed"; core/collector.go:27-30:
\* a scan that failed or timed out is an error).
ResolvedMeansFixed ==
  [][\A id \in Ids(open) \ Ids(open') : \E w \in witnessed : ~Flawed(id, w[1], w[2])]_vars

\* The same but for the legacy finding of a scan whose probe failed: however the
\* server is reconfigured between the connections of a scan, nothing else
\* resolves that was there all along.
ResolvedMeansFixedIfProbed ==
  [][\A id \in Ids(open) \ Ids(open') :
       \/ \E w \in witnessed : ~Flawed(id, w[1], w[2])
       \/ id[1] = "tls.legacy_protocol" /\ ~scan.probed]_vars

\* A finding is opened only if the server had the flaw at some instant of the
\* scan.
OpenedMeansFlawed ==
  [][\A id \in Ids(open') \ Ids(open) : \E w \in witnessed : Flawed(id, w[1], w[2])]_vars

\* While the server answers at least every MaxGap, a certificate that was in
\* service for that long before it expired is not found to have expired unless
\* it was on record as about to, critically (README.md:15, "Expiry countdown
\* with staged severity").
ExpiryForewarned ==
  [][scan # Idle /\ scan' = Idle /\ Finding("tls.expired", None, Critical) \in open'
       /\ scan.since + MaxGap <= About[scan.cert].notAfter
     => scan.cert \in alarmed]_vars

FlawIds ==
  UNION {Ids(Graded(s, About[s.cert].notAfter) \cup Graded(s, About[s.cert].notAfter + 1)
             \cup ProbedLegacy(s)) : s \in Servers}

ProbesSucceed == <>[][~ProbeFails]_vars

\* A flaw that is fixed for good is resolved for good, and one that stays is
\* on record for good: of legacy TLS only if the probe stops failing, as it need
\* not do (collector.go:291-295).
RecordFollowsServer ==
  \A id \in FlawIds :
    /\ <>[]~Flawed(id, server, now) => <>[](id \notin Ids(open))
    /\ <>[]Flawed(id, server, now) /\ (id[1] = "tls.legacy_protocol" => ProbesSucceed)
         => <>[](id \in Ids(open))
=============================================================================
