--------------------------- MODULE CollectorProofs ---------------------------
(***************************************************************************)
(* Proofs about Collector, for any certificates, servers and               *)
(* reconfigurations: types; that no certificate that was in service long   *)
(* enough expires unannounced, as long as the server answers every two     *)
(* days; that what opens was wrong and what resolves was right.            *)
(***************************************************************************)
EXTENDS Collector, TLAPS

LEMMA LessThanTwoDays ==
  ASSUME NEW n \in Nat, n < 2 * Day
  PROVE  n \div Day \in 0..1
<1>1. Day \in Nat \ {0}
  BY CollectorAssumption
<1>2. QED
  BY <1>1, SMTT(30)

LEMMA WholeDays ==
  ASSUME NEW n \in Nat
  PROVE  n \div Day \in Nat
<1>1. Day \in Nat \ {0}
  BY CollectorAssumption
<1>2. QED
  BY <1>1, SMTT(30)

LEMMA CriticalSoon ==
  ASSUME NEW d \in 0..1
  PROVE  d \in 0..30 /\ ExpirySeverity(d) = Critical
BY DEF ExpirySeverity

\* What the collector says about expiry.
LEMMA ExpiryGrade ==
  ASSUME NEW s \in Servers, NEW t \in Nat
  PROVE  /\ \A f \in CheckExpiry(s.cert, t) : f.severity \in Medium..Critical
         /\ CheckExpiry(s.cert, t) \subseteq Graded(s, t)
         /\ Finding("tls.expired", None, Critical) \in Graded(s, t) =>
              t > About[s.cert].notAfter
         /\ t <= About[s.cert].notAfter /\ About[s.cert].notAfter - t < 2 * Day =>
              Finding("tls.expiry", None, Critical) \in Graded(s, t)
<1>1. s.cert \in Certs /\ About[s.cert].notAfter \in Nat
  BY CollectorAssumption DEF Configuration, Certificate
<1>2. \A f \in CheckExpiry(s.cert, t) : f.severity \in Medium..Critical
  BY DEF CheckExpiry, ExpirySeverity, Finding, Medium, High, Critical
<1>3. CheckExpiry(s.cert, t) \subseteq Graded(s, t)
  BY DEF Graded
<1>4. ASSUME Finding("tls.expired", None, Critical) \in Graded(s, t)
      PROVE  t > About[s.cert].notAfter
  <2>1. \A f \in Graded(s, t) \ CheckExpiry(s.cert, t) : f.check # "tls.expired"
    <3>1. \A f \in CheckHostname(s.cert) \cup CheckChain(s.cert, t) : f.check # "tls.expired"
      BY DEF CheckHostname, CheckChain, Finding
    <3>2. \A f \in CheckProtocol(s) \cup CheckCipher(s) : f.check # "tls.expired"
      BY DEF CheckProtocol, CheckCipher, Finding
    <3>3. \A f \in CheckKeyStrength(s.cert) \cup CheckSignature(s.cert) :
            f.check # "tls.expired"
      BY DEF CheckKeyStrength, CheckSignature, Finding
    <3>4. QED
      BY <3>1, <3>2, <3>3 DEF Graded
  <2>3. Finding("tls.expired", None, Critical).check = "tls.expired"
    BY DEF Finding
  <2>4. Finding("tls.expired", None, Critical) \in CheckExpiry(s.cert, t)
    BY <1>4, <2>1, <2>3
  <2>5. QED
    BY <2>4 DEF CheckExpiry, Finding
<1>5. ASSUME t <= About[s.cert].notAfter, About[s.cert].notAfter - t < 2 * Day
      PROVE  Finding("tls.expiry", None, Critical) \in Graded(s, t)
  <2> DEFINE days == (About[s.cert].notAfter - t) \div Day
  <2>1. About[s.cert].notAfter - t \in Nat
    BY <1>1, <1>5
  <2>2. days \in 0..1
    BY <1>5, <2>1, LessThanTwoDays
  <2>3. days \in {days} \cap 0..30 /\ ExpirySeverity(days) = Critical
    BY <2>2, CriticalSoon
  <2>4. ~(t > About[s.cert].notAfter)
    BY <1>1, <1>5
  <2>5. Finding("tls.expiry", None, Critical) \in CheckExpiry(s.cert, t)
    BY <2>3, <2>4 DEF CheckExpiry
  <2>6. QED
    BY <1>3, <2>5
<1>6. QED
  BY <1>2, <1>3, <1>4, <1>5

LEMMA GradedType ==
  ASSUME NEW s \in Servers, NEW t \in Nat
  PROVE  Graded(s, t) \cup ProbedLegacy(s) \subseteq Findings
<1>1. /\ s.cert \in Certs /\ s.cipher \in Ciphers /\ s.max \in Nat
      /\ About[s.cert].notAfter \in Nat
      /\ About[s.cert].signature \in Algorithms /\ About[s.cert].rsaBits \in Nat
  BY CollectorAssumption DEF Configuration, Certificate, TLS10, TLS13
<1>2. Medium \in Medium..Critical /\ High \in Medium..Critical /\ Critical \in Medium..Critical
  BY DEF Medium, High, Critical
<1>3. CheckExpiry(s.cert, t) \subseteq Findings
  <2>1. \A d : ExpirySeverity(d) \in Medium..Critical
    BY <1>2 DEF ExpirySeverity
  <2>2. QED
    BY <1>2, <2>1 DEF CheckExpiry, Findings, Finding
<1>4. CheckHostname(s.cert) \cup CheckChain(s.cert, t) \cup ProbedLegacy(s) \subseteq Findings
  BY <1>2 DEF CheckHostname, CheckChain, ProbedLegacy, Findings, Finding
<1>5. CheckProtocol(s) \cup CheckCipher(s) \subseteq Findings
  BY <1>1, <1>2 DEF CheckProtocol, CheckCipher, Findings, Finding
<1>6. CheckKeyStrength(s.cert) \cup CheckSignature(s.cert) \subseteq Findings
  BY <1>1, <1>2 DEF CheckKeyStrength, CheckSignature, Findings, Finding
<1>7. QED
  BY <1>3, <1>4, <1>5, <1>6 DEF Graded

-----------------------------------------------------------------------------
(* Types *)

LEMMA TypeInit == Init => TypeOK
BY DEF Init, TypeOK

LEMMA TypeStep ==
  ASSUME TypeOK, Next
  PROVE  TypeOK'
<1> USE DEF TypeOK
<1>1. server.cert \in Certs
  BY CollectorAssumption DEF Configuration
<1>2. ASSUME Dial PROVE TypeOK'
  <2>1. scan' \in Scan
    BY <1>1, <1>2, GradedType DEF Dial, Scan
  <2>2. witnessed' \subseteq Servers \X Nat
    BY <1>2 DEF Dial
  <2>3. QED
    BY <1>2, <2>1, <2>2 DEF Dial
<1>3. ASSUME NEW probed \in BOOLEAN, NEW findings \in SUBSET Findings,
             scan.phase = "graded", scan' = Collected(probed, findings)
      PROVE  scan' \in Scan
  <2>1. scan \in Scan
    BY <1>3 DEF Idle
  <2>2. QED
    BY <1>3, <2>1 DEF Collected, Scan
<1>4. ASSUME Probe PROVE TypeOK'
  <2>1. scan.phase = "graded" /\ scan' = Collected(TRUE, ProbedLegacy(server))
    BY <1>4 DEF Probe
  <2>2. ProbedLegacy(server) \in SUBSET Findings
    BY GradedType
  <2>3. scan' \in Scan
    BY <1>3, <2>1, <2>2
  <2>4. QED
    BY <1>4, <2>3 DEF Probe
<1>10. ASSUME ProbeFails PROVE TypeOK'
  <2>1. /\ scan.phase = "graded" /\ scan' = Collected(FALSE, {})
        /\ UNCHANGED <<now, server, since, open, last, witnessed, alarmed, deploys>>
    BY <1>10 DEF ProbeFails
  <2>2. FALSE \in BOOLEAN /\ {} \in SUBSET Findings
    OBVIOUS
  <2>3. scan' \in Scan
    BY <1>3, <2>1, <2>2, Zenon
  <2>4. QED
    BY <2>1, <2>3, Zenon
<1>5. ASSUME Reconcile PROVE TypeOK'
  <2>1. scan \in Scan
    BY <1>5 DEF Reconcile, Idle
  <2>2. /\ scan.findings \subseteq Findings /\ scan.at \in Nat /\ scan.cert \in Certs
    BY <2>1 DEF Scan
  <2>3. QED
    BY <1>5, <2>2 DEF Reconcile
<1>6. ASSUME NEW s \in Servers, Deploy(s) PROVE TypeOK'
  <2>1. witnessed' \subseteq Servers \X Nat
    BY <1>6 DEF Deploy, Witness
  <2>2. QED
    BY <1>6, <2>1 DEF Deploy
<1>7. ASSUME Tick PROVE TypeOK'
  <2>1. witnessed' \subseteq Servers \X Nat
    BY <1>7 DEF Tick, Witness
  <2>2. QED
    BY <1>7, <2>1 DEF Tick
<1>8. CASE DialFails
  BY <1>8 DEF DialFails, vars
<1>9. QED
  BY <1>2, <1>4, <1>10, <1>5, <1>6, <1>7, <1>8 DEF Next

LEMMA TypeInvariant == Spec => []TypeOK
<1>1. TypeOK /\ [Next]_vars => TypeOK'
  <2>1. CASE UNCHANGED vars
    BY <2>1 DEF vars, TypeOK
  <2>2. QED
    BY <2>1, TypeStep
<1>2. QED
  BY <1>1, TypeInit, PTL DEF Spec

\* Findings are well-formed whatever the server is configured like.
THEOREM CollectorTypes == Spec => []TypeOK
BY TypeInvariant

-----------------------------------------------------------------------------
(* No certificate expires unannounced *)

Expired  == Finding("tls.expired", None, Critical)
Expiring == Finding("tls.expiry", None, Critical)

NotAfter(cert) == About[cert].notAfter

\* A certificate in service since s that the last scan saw less than MaxGap before
\* its end, or later, is among those alarm was raised for.
Alarmed(cert, s) ==
  s < last /\ s + MaxGap <= NotAfter(cert) /\ NotAfter(cert) < last + MaxGap =>
    cert \in alarmed

\* The clock does not run away from the scans, which grade what they saw.
AlarmInv ==
  /\ last <= now /\ now <= last + MaxGap /\ since <= now
  /\ Alarmed(server.cert, since)
  /\ scan # Idle =>
       /\ last <= scan.at /\ scan.at <= now /\ scan.since <= scan.at
       /\ (scan.cert = server.cert /\ scan.since = since) \/ scan.at <= since
       /\ Alarmed(scan.cert, scan.since)
       /\ Expired \in scan.findings => NotAfter(scan.cert) < scan.at
       /\ scan.at <= NotAfter(scan.cert) /\ NotAfter(scan.cert) - scan.at < 2 * Day =>
            Expiring \in scan.findings

\* A scan that found the certificate expired comes after one that saw it less
\* than MaxGap before.
LEMMA ForewarnedStep ==
  ASSUME TypeOK, AlarmInv, scan \in Scan, Expired \in scan.findings,
         scan.since + MaxGap <= NotAfter(scan.cert)
  PROVE  scan.cert \in alarmed
<1>1. /\ scan.at \in Nat /\ scan.since \in Nat /\ NotAfter(scan.cert) \in Nat
      /\ now \in Nat /\ last \in Nat /\ MaxGap \in Nat
  BY CollectorAssumption DEF TypeOK, Scan, NotAfter, Certificate
<1>2. scan # Idle
  BY DEF Scan, Idle
<1>3. /\ NotAfter(scan.cert) < scan.at /\ scan.at <= now /\ now <= last + MaxGap
      /\ Alarmed(scan.cert, scan.since)
  BY <1>2 DEF AlarmInv
<1>4. NotAfter(scan.cert) < last + MaxGap /\ scan.since < last
  BY <1>1, <1>3
<1>5. QED
  BY <1>3, <1>4 DEF Alarmed

LEMMA AlarmStep ==
  ASSUME MaxGap <= 2 * Day, TypeOK, TypeOK', AlarmInv, Next
  PROVE  AlarmInv'
<1>1. /\ now \in Nat /\ last \in Nat /\ since \in Nat /\ MaxGap \in Nat /\ Day \in Nat \ {0}
      /\ server \in Servers /\ server.cert \in Certs
      /\ \A c \in Certs : NotAfter(c) \in Nat
  BY CollectorAssumption DEF TypeOK, NotAfter, Certificate, Configuration
<1>2. scan # Idle => /\ scan \in Scan /\ scan.at \in Nat /\ scan.since \in Nat
                     /\ scan.cert \in Certs
  BY DEF TypeOK, Scan
<1>3. ASSUME Dial PROVE AlarmInv'
  <2>1. /\ scan'.at = now /\ scan'.since = since /\ scan'.cert = server.cert
        /\ scan'.findings = Graded(server, now)
        /\ UNCHANGED <<now, server, since, last, alarmed>>
    BY <1>3 DEF Dial
  <2>2. /\ Expired \in Graded(server, now) => now > NotAfter(server.cert)
        /\ now <= NotAfter(server.cert) /\ NotAfter(server.cert) - now < 2 * Day =>
             Expiring \in Graded(server, now)
    BY <1>1, ExpiryGrade DEF Expired, Expiring, NotAfter
  <2>3. QED
    BY <1>1, <2>1, <2>2 DEF AlarmInv, Alarmed
<1>4. ASSUME NEW probed \in BOOLEAN, NEW findings \in {{}, ProbedLegacy(server)},
             scan.phase = "graded", scan' = Collected(probed, findings),
             UNCHANGED <<now, server, since, last, alarmed>>
      PROVE  AlarmInv'
  <2>1. scan \in Scan /\ scan # Idle
    BY <1>4 DEF TypeOK, Idle
  <2>2. /\ scan'.at = scan.at /\ scan'.since = scan.since /\ scan'.cert = scan.cert
        /\ scan'.findings = scan.findings \cup findings
    BY <1>4, <2>1 DEF Collected, Scan
  <2>3. Expired \notin findings
    BY <1>4 DEF ProbedLegacy, Expired, Finding
  <2>4. QED
    BY <1>4, <2>1, <2>2, <2>3 DEF AlarmInv, Alarmed
<1>5. ASSUME Reconcile PROVE AlarmInv'
  <2>1. /\ scan # Idle /\ scan' = Idle /\ last' = scan.at
        /\ UNCHANGED <<now, server, since>>
        /\ alarmed \subseteq alarmed'
    BY <1>5 DEF Reconcile, Idle
  <2>2. Expiring \in scan.findings => scan.cert \in alarmed'
    BY <1>5 DEF Reconcile, Expiring, Finding
  <2>3. /\ last <= scan.at /\ scan.at <= now /\ now <= last + MaxGap /\ since <= now
        /\ (scan.cert = server.cert /\ scan.since = since) \/ scan.at <= since
        /\ Alarmed(scan.cert, scan.since)
        /\ scan.at <= NotAfter(scan.cert) /\ NotAfter(scan.cert) - scan.at < 2 * Day =>
             Expiring \in scan.findings
    BY <2>1 DEF AlarmInv
  <2>4. ASSUME since < scan.at, since + MaxGap <= NotAfter(server.cert),
               NotAfter(server.cert) < scan.at + MaxGap
        PROVE  server.cert \in alarmed'
    <3>1. scan.cert = server.cert /\ scan.since = since
      BY <1>1, <1>2, <2>1, <2>3, <2>4
    <3>2. CASE scan.at <= NotAfter(scan.cert)
      BY <1>1, <1>2, <2>1, <2>2, <2>3, <2>4, <3>1, <3>2
    <3>3. CASE NotAfter(scan.cert) < scan.at
      <4>1. NotAfter(scan.cert) < last + MaxGap /\ scan.since < last
        BY <1>1, <1>2, <2>1, <2>3, <2>4, <3>1, <3>3
      <4>2. scan.cert \in alarmed
        BY <2>3, <2>4, <3>1, <4>1 DEF Alarmed
      <4>3. QED
        BY <2>1, <3>1, <4>2
    <3>4. QED
      BY <1>1, <1>2, <2>1, <3>2, <3>3
  <2>5. Alarmed(server.cert, since)'
    BY <2>1, <2>4 DEF Alarmed, NotAfter
  <2>6. QED
    BY <1>1, <1>2, <2>1, <2>3, <2>5 DEF AlarmInv
<1>6. ASSUME NEW s \in Servers, Deploy(s) PROVE AlarmInv'
  <2>1. /\ UNCHANGED <<now, scan, last, alarmed>> /\ server' = s
        /\ since' = IF s.cert = server.cert THEN since ELSE now
    BY <1>6 DEF Deploy
  <2>2. Alarmed(server.cert, since)'
    <3>1. CASE s.cert = server.cert
      BY <2>1, <3>1 DEF AlarmInv, Alarmed, NotAfter
    <3>2. CASE s.cert # server.cert
      BY <1>1, <2>1, <3>2 DEF AlarmInv, Alarmed
    <3>3. QED
      BY <3>1, <3>2
  <2>3. scan # Idle =>
          (scan.cert = server'.cert /\ scan.since = since') \/ scan.at <= since'
    BY <1>1, <1>2, <2>1 DEF AlarmInv
  <2>4. since' <= now /\ last <= now /\ now <= last + MaxGap
    BY <1>1, <2>1 DEF AlarmInv
  <2>5. scan # Idle =>
          /\ last <= scan.at /\ scan.at <= now /\ scan.since <= scan.at
          /\ Alarmed(scan.cert, scan.since)
          /\ Expired \in scan.findings => NotAfter(scan.cert) < scan.at
          /\ scan.at <= NotAfter(scan.cert) /\ NotAfter(scan.cert) - scan.at < 2 * Day =>
               Expiring \in scan.findings
    BY DEF AlarmInv
  <2>6. QED
    BY <2>1, <2>2, <2>3, <2>4, <2>5 DEF AlarmInv, Alarmed, NotAfter
<1>7. ASSUME Tick PROVE AlarmInv'
  <2>1. /\ now' = now + 1 /\ now - last < MaxGap
        /\ UNCHANGED <<server, since, scan, last, alarmed>>
    BY <1>7 DEF Tick
  <2>2. QED
    BY <1>1, <1>2, <2>1 DEF AlarmInv, Alarmed
<1>8. CASE DialFails
  BY <1>8 DEF DialFails, vars, AlarmInv, Alarmed
<1>9. CASE Probe \/ ProbeFails
  BY <1>4, <1>9 DEF Probe, ProbeFails
<1>10. QED
  BY <1>3, <1>5, <1>6, <1>7, <1>8, <1>9 DEF Next

\* While a scan is answered every two days, no certificate that was in service
\* for that long is found expired without a critical finding before.
THEOREM ExpiryIsForewarned ==
  ASSUME MaxGap <= 2 * Day
  PROVE  Spec => ExpiryForewarned
<1>1. Init => AlarmInv
  BY CollectorAssumption DEF Init, AlarmInv, Alarmed
<1>2. TypeOK /\ AlarmInv /\ [Next]_vars => AlarmInv'
  <2>1. CASE UNCHANGED vars
    BY <2>1 DEF vars, AlarmInv, Alarmed
  <2>2. QED
    BY <2>1, AlarmStep, TypeStep
<1>3. TypeOK /\ AlarmInv /\ [Next]_vars =>
        [scan # Idle /\ scan' = Idle /\ Finding("tls.expired", None, Critical) \in open'
           /\ scan.since + MaxGap <= About[scan.cert].notAfter
         => scan.cert \in alarmed]_vars
  <2> SUFFICES ASSUME TypeOK, AlarmInv, Next, scan # Idle, scan' = Idle,
                      Expired \in open', scan.since + MaxGap <= NotAfter(scan.cert)
               PROVE  scan.cert \in alarmed
    BY DEF vars, Expired, NotAfter
  <2>1. scan \in Scan
    BY DEF TypeOK
  <2>2. Reconcile
    BY <2>1 DEF Next, Dial, DialFails, vars, Probe, ProbeFails, Collected, Deploy, Tick,
                Idle, Scan
  <2>3. Expired \in scan.findings
    BY <2>2 DEF Reconcile
  <2>4. QED
    BY <2>1, <2>3, ForewarnedStep
<1>4. QED
  BY <1>1, <1>2, <1>3, TypeInvariant, PTL DEF Spec, ExpiryForewarned

-----------------------------------------------------------------------------
(* What opens was wrong, and what resolves was right, at some instant of the  *)
(* scan.  The checks are first shown to find exactly what Flawed says.        *)

Single == {"tls.expired", "tls.expiry", "tls.hostname_mismatch", "tls.untrusted_chain",
           "tls.incomplete_chain", "tls.legacy_protocol"}
Checks == Single \cup {"tls.weak_protocol", "tls.weak_cipher", "tls.weak_key",
                       "tls.legacy_signature"}

\* Checks that find one thing at most need no discriminator.
Plain(f) == f.check \in Checks /\ (f.check \in Single => f.of = None)

Found(check, of, findings) == \E f \in findings : f.check = check /\ f.of = of

LEMMA FoundId ==
  ASSUME NEW check, NEW of, NEW findings
  PROVE  <<check, of>> \in Ids(findings) <=> Found(check, of, findings)
  BY DEF Ids, Id, Found

LEMMA OneFound ==
  ASSUME NEW check, NEW of, NEW c, NEW o, NEW severity
  PROVE  Found(check, of, {Finding(c, o, severity)}) <=> check = c /\ of = o
  BY DEF Found, Finding

LEMMA NoneFound ==
  ASSUME NEW check, NEW of
  PROVE  ~Found(check, of, {})
  BY DEF Found

\* What a check finds that looks whether x is in S, with x as discriminator or
\* without.
Chosen(c, x, S, severity) == {Finding(c, v, severity) : v \in {x} \cap S}
Noted(c, x, S, severity)  == {Finding(c, None, severity) : v \in {x} \cap S}

LEMMA ChosenFound ==
  ASSUME NEW check, NEW of, NEW c, NEW severity, NEW x, NEW S
  PROVE  /\ Found(check, of, Chosen(c, x, S, severity)) <=> check = c /\ of = x /\ x \in S
         /\ Found(check, of, Noted(c, x, S, severity)) <=> check = c /\ of = None /\ x \in S
<1>1. CASE x \in S
  <2>1. {x} \cap S = {x}
    BY <1>1
  <2>2. /\ Chosen(c, x, S, severity) = {Finding(c, x, severity)}
        /\ Noted(c, x, S, severity) = {Finding(c, None, severity)}
    BY <2>1 DEF Chosen, Noted
  <2>3. QED
    BY <1>1, <2>2, OneFound
<1>2. CASE x \notin S
  <2>1. {x} \cap S = {}
    BY <1>2
  <2>2. Chosen(c, x, S, severity) = {} /\ Noted(c, x, S, severity) = {}
    BY <2>1 DEF Chosen, Noted
  <2>3. QED
    BY <1>2, <2>2, NoneFound
<1>3. QED
  BY <1>1, <1>2

\* Whole days are 0 to 30 when less than 31 days are left.
LEMMA DaysLeft ==
  ASSUME NEW n \in Nat
  PROVE  n \div Day \in 0..30 <=> n < 31 * Day
<1>1. Day \in Nat \ {0}
  BY CollectorAssumption
<1>2. QED
  BY <1>1, SMTT(60)

LEMMA ExpiryFinds ==
  ASSUME NEW cert \in Certs, NEW t \in Nat, NEW check, NEW of
  PROVE  Found(check, of, CheckExpiry(cert, t)) <=>
           /\ of = None
           /\ \/ check = "tls.expired" /\ About[cert].notAfter - t < 0
              \/ /\ check = "tls.expiry"
                 /\ 0 <= About[cert].notAfter - t /\ About[cert].notAfter - t < 31 * Day
<1> DEFINE left == About[cert].notAfter - t
<1>1. About[cert].notAfter \in Nat
  BY CollectorAssumption DEF Certificate
<1>2. CASE t > About[cert].notAfter
  <2>1. left < 0 /\ ~(0 <= left)
    BY <1>1, <1>2
  <2>2. CheckExpiry(cert, t) = {Finding("tls.expired", None, Critical)}
    BY <1>2 DEF CheckExpiry
  <2>3. QED
    BY <2>1, <2>2 DEF Found, Finding
<1>3. CASE ~(t > About[cert].notAfter)
  <2>1. left \in Nat /\ ~(left < 0) /\ 0 <= left
    BY <1>1, <1>3
  <2>2. CheckExpiry(cert, t) =
          {Finding("tls.expiry", None, ExpirySeverity(d)) : d \in {left \div Day} \cap 0..30}
    BY <1>3 DEF CheckExpiry
  <2>3. left \div Day \in 0..30 <=> left < 31 * Day
    BY <2>1, DaysLeft
  <2>4. Found(check, of, CheckExpiry(cert, t)) <=>
          /\ of = None /\ check = "tls.expiry"
          /\ left \div Day \in 0..30
    <3>1. CASE left \div Day \in 0..30
      <4>1. {left \div Day} \cap 0..30 = {left \div Day}
        BY <3>1
      <4>2. CheckExpiry(cert, t) = {Finding("tls.expiry", None, ExpirySeverity(left \div Day))}
        BY <2>2, <4>1
      <4>3. QED
        BY <3>1, <4>2, OneFound
    <3>2. CASE left \div Day \notin 0..30
      <4>1. {left \div Day} \cap 0..30 = {}
        BY <3>2
      <4>2. CheckExpiry(cert, t) = {}
        BY <2>2, <4>1
      <4>3. QED
        BY <3>2, <4>2, NoneFound
    <3>3. QED
      BY <3>1, <3>2
  <2>5. QED
    BY <2>1, <2>3, <2>4
<1>4. QED
  BY <1>2, <1>3

LEMMA HostnameFinds ==
  ASSUME NEW cert, NEW check, NEW of
  PROVE  Found(check, of, CheckHostname(cert)) <=>
           of = None /\ check = "tls.hostname_mismatch" /\ ~HostIsIP /\ ~About[cert].covers
<1>1. CASE ~HostIsIP /\ ~About[cert].covers
  <2>1. CheckHostname(cert) = {Finding("tls.hostname_mismatch", None, High)}
    BY <1>1 DEF CheckHostname
  <2>2. QED
    BY <1>1, <2>1, OneFound
<1>2. CASE ~(~HostIsIP /\ ~About[cert].covers)
  <2>1. CheckHostname(cert) = {}
    BY <1>2 DEF CheckHostname
  <2>2. QED
    BY <1>2, <2>1, NoneFound
<1>3. QED
  BY <1>1, <1>2

LEMMA ChainFinds ==
  ASSUME NEW cert \in Certs, NEW t \in Nat, NEW check, NEW of
  PROVE  Found(check, of, CheckChain(cert, t)) <=>
           /\ of = None
           /\ About[cert].notAfter - t < 0 \/ ~About[cert].rooted
           /\ check = IF About[cert].length > 1 \/ About[cert].selfIssued
                      THEN "tls.untrusted_chain" ELSE "tls.incomplete_chain"
<1>1. About[cert].notAfter \in Nat /\ About[cert].length \in Nat \ {0}
  BY CollectorAssumption DEF Certificate
<1>2. Verifies(cert, t) <=> ~(About[cert].notAfter - t < 0 \/ ~About[cert].rooted)
  BY <1>1 DEF Verifies
<1>3. (About[cert].length = 1 /\ ~About[cert].selfIssued)
        <=> ~(About[cert].length > 1 \/ About[cert].selfIssued)
  BY <1>1
<1>4. CASE Verifies(cert, t)
  BY <1>2, <1>4 DEF Found, CheckChain
<1>5. CASE ~Verifies(cert, t) /\ About[cert].length = 1 /\ ~About[cert].selfIssued
  <2>1. CheckChain(cert, t) = {Finding("tls.incomplete_chain", None, Medium)}
    BY <1>5 DEF CheckChain
  <2>2. QED
    BY <1>2, <1>3, <1>5, <2>1 DEF Found, Finding
<1>6. CASE ~Verifies(cert, t) /\ ~(About[cert].length = 1 /\ ~About[cert].selfIssued)
  <2>1. CheckChain(cert, t) = {Finding("tls.untrusted_chain", None, High)}
    BY <1>6 DEF CheckChain
  <2>2. QED
    BY <1>2, <1>3, <1>6, <2>1 DEF Found, Finding
<1>7. QED
  BY <1>4, <1>5, <1>6

LEMMA ProtocolFinds ==
  ASSUME NEW s \in Servers, NEW check, NEW of
  PROVE  Found(check, of, CheckProtocol(s)) <=>
           check = "tls.weak_protocol" /\ s.max = of /\ s.max < TLS12
<1>1. s.max \in TLS10..TLS13
  BY CollectorAssumption DEF Configuration
<1>2. s.max \in TLS10..TLS11 <=> s.max < TLS12
  BY <1>1 DEF TLS10, TLS11, TLS12, TLS13
<1>3. CheckProtocol(s) = Chosen("tls.weak_protocol", s.max, TLS10..TLS11, High)
  BY Zenon DEF CheckProtocol, Chosen
<1>4. \A S : Found(check, of, Chosen("tls.weak_protocol", s.max, S, High)) <=>
              check = "tls.weak_protocol" /\ of = s.max /\ s.max \in S
  BY ChosenFound
<1>5. QED
  BY <1>2, <1>3, <1>4, Zenon

LEMMA CipherFinds ==
  ASSUME NEW s, NEW check, NEW of
  PROVE  Found(check, of, CheckCipher(s)) <=>
           check = "tls.weak_cipher" /\ s.cipher = of /\ s.cipher \in InsecureCiphers
<1>1. CheckCipher(s) = Chosen("tls.weak_cipher", s.cipher, InsecureCiphers, High)
  BY Zenon DEF CheckCipher, Chosen
<1>2. QED
  BY <1>1, ChosenFound

\* Sizes of RSA keys the collector calls weak.
ShortKeys == 1..2047

LEMMA KeyStrengthFinds ==
  ASSUME NEW cert, NEW check, NEW of
  PROVE  Found(check, of, CheckKeyStrength(cert)) <=>
           /\ check = "tls.weak_key"
           /\ About[cert].rsaBits = of /\ About[cert].rsaBits \in ShortKeys
<1>1. CheckKeyStrength(cert) = Chosen("tls.weak_key", About[cert].rsaBits, ShortKeys, High)
  BY Zenon DEF CheckKeyStrength, Chosen, ShortKeys
<1>2. QED
  BY <1>1, ChosenFound

LEMMA SignatureFinds ==
  ASSUME NEW cert, NEW check, NEW of
  PROVE  Found(check, of, CheckSignature(cert)) <=>
           /\ check = "tls.legacy_signature"
           /\ About[cert].signature = of /\ About[cert].signature \in ObsoleteAlgorithms
<1>1. CheckSignature(cert)
        = Chosen("tls.legacy_signature", About[cert].signature, ObsoleteAlgorithms, High)
  BY Zenon DEF CheckSignature, Chosen
<1>2. QED
  BY <1>1, ChosenFound

LEMMA ProbeFinds ==
  ASSUME NEW s \in Servers, NEW check, NEW of
  PROVE  Found(check, of, ProbedLegacy(s)) <=>
           of = None /\ check = "tls.legacy_protocol" /\ s.min < TLS12
<1>1. s.min \in TLS10..TLS13
  BY CollectorAssumption DEF Configuration
<1>2. s.min \in {TLS10, TLS11} <=> s.min < TLS12
  BY <1>1 DEF TLS10, TLS11, TLS12, TLS13
<1>3. Found(check, of, ProbedLegacy(s)) <=>
        of = None /\ check = "tls.legacy_protocol" /\ s.min \in {TLS10, TLS11}
  <2>1. ProbedLegacy(s) = Noted("tls.legacy_protocol", s.min, {TLS10, TLS11}, Medium)
    BY Zenon DEF ProbedLegacy, Noted
  <2>2. QED
    BY <2>1, ChosenFound
<1>4. QED
  BY <1>2, <1>3

\* What the connection that is graded shows, apart from the probe.
LEMMA GradedFinds ==
  ASSUME NEW s \in Servers, NEW t \in Nat, NEW check, NEW of
  PROVE  /\ Found(check, of, Graded(s, t)) =>
              Plain([check |-> check, of |-> of]) /\ check # "tls.legacy_protocol"
         /\ Plain([check |-> check, of |-> of]) /\ check # "tls.legacy_protocol" =>
              (Found(check, of, Graded(s, t)) <=> Flawed(<<check, of>>, s, t))
<1> DEFINE expiry == Found(check, of, CheckExpiry(s.cert, t))
           host   == Found(check, of, CheckHostname(s.cert))
           chain  == Found(check, of, CheckChain(s.cert, t))
           protocol  == Found(check, of, CheckProtocol(s))
           cipher    == Found(check, of, CheckCipher(s))
           key       == Found(check, of, CheckKeyStrength(s.cert))
           signature == Found(check, of, CheckSignature(s.cert))
<1>1. s.cert \in Certs
  BY CollectorAssumption DEF Configuration
<1>2. Found(check, of, Graded(s, t)) <=> expiry \/ host \/ chain \/ protocol \/ cipher \/ key \/ signature
  BY DEF Found, Graded
<1>3. Plain([check |-> check, of |-> of]) <=>
        check \in Checks /\ (check \in Single => of = None)
  BY DEF Plain
<1> HIDE DEF expiry, host, chain, protocol, cipher, key, signature
<1>4. expiry <=> /\ of = None
                 /\ \/ check = "tls.expired" /\ About[s.cert].notAfter - t < 0
                    \/ /\ check = "tls.expiry"
                       /\ 0 <= About[s.cert].notAfter - t
                       /\ About[s.cert].notAfter - t < 31 * Day
  BY <1>1, ExpiryFinds DEF expiry
<1>5. host <=> /\ of = None /\ check = "tls.hostname_mismatch"
               /\ ~HostIsIP /\ ~About[s.cert].covers
  BY HostnameFinds DEF host
<1>6. chain <=> /\ of = None
                /\ About[s.cert].notAfter - t < 0 \/ ~About[s.cert].rooted
                /\ check = IF About[s.cert].length > 1 \/ About[s.cert].selfIssued
                           THEN "tls.untrusted_chain" ELSE "tls.incomplete_chain"
  BY <1>1, ChainFinds DEF chain
<1>7. /\ protocol <=> check = "tls.weak_protocol" /\ s.max = of /\ s.max < TLS12
      /\ cipher <=>
           check = "tls.weak_cipher" /\ s.cipher = of /\ s.cipher \in InsecureCiphers
      /\ key <=> /\ check = "tls.weak_key"
                 /\ About[s.cert].rsaBits = of /\ About[s.cert].rsaBits \in ShortKeys
      /\ signature <=> /\ check = "tls.legacy_signature"
                       /\ About[s.cert].signature = of
                       /\ About[s.cert].signature \in ObsoleteAlgorithms
  <2>1. protocol <=> check = "tls.weak_protocol" /\ s.max = of /\ s.max < TLS12
    BY ProtocolFinds DEF protocol
  <2>2. cipher <=>
          check = "tls.weak_cipher" /\ s.cipher = of /\ s.cipher \in InsecureCiphers
    BY CipherFinds DEF cipher
  <2>3. key <=> /\ check = "tls.weak_key"
                /\ About[s.cert].rsaBits = of /\ About[s.cert].rsaBits \in ShortKeys
    BY KeyStrengthFinds, Zenon DEF key
  <2>4. signature <=> /\ check = "tls.legacy_signature"
                      /\ About[s.cert].signature = of
                      /\ About[s.cert].signature \in ObsoleteAlgorithms
    BY SignatureFinds, Zenon DEF signature
  <2>5. QED
    BY <2>1, <2>2, <2>3, <2>4, Zenon
<1>8. expiry \/ host \/ chain \/ protocol \/ cipher \/ key \/ signature =>
        check \in Checks /\ (check \in Single => of = None) /\ check # "tls.legacy_protocol"
  BY <1>4, <1>5, <1>6, <1>7 DEF Checks, Single
<1>9. ASSUME check \in Checks, check \in Single => of = None, check # "tls.legacy_protocol"
      PROVE  expiry \/ host \/ chain \/ protocol \/ cipher \/ key \/ signature <=> Flawed(<<check, of>>, s, t)
  <2> DEFINE left  == About[s.cert].notAfter - t
             trust == IF left < 0 \/ ~About[s.cert].rooted THEN
                        IF About[s.cert].length > 1 \/ About[s.cert].selfIssued
                        THEN "tls.untrusted_chain" ELSE "tls.incomplete_chain"
                      ELSE "none"
             flawed == \/ check = "tls.expired" /\ left < 0
                       \/ check = "tls.expiry" /\ 0 <= left /\ left < 31 * Day
                       \/ check = "tls.hostname_mismatch" /\ ~HostIsIP /\ ~About[s.cert].covers
                       \/ check = trust
                       \/ check = "tls.weak_protocol" /\ s.max = of /\ s.max < TLS12
                       \/ check = "tls.legacy_protocol" /\ s.min < TLS12
                       \/ check = "tls.weak_cipher" /\ s.cipher = of
                            /\ s.cipher \in InsecureCiphers
                       \/ check = "tls.weak_key" /\ About[s.cert].rsaBits = of
                            /\ About[s.cert].rsaBits \in ShortKeys
                       \/ check = "tls.legacy_signature" /\ About[s.cert].signature = of
                            /\ About[s.cert].signature \in ObsoleteAlgorithms
  <2>1. Flawed(<<check, of>>, s, t) <=> flawed
    BY DEF Flawed, ShortKeys
  <2>2. check # "none"
    BY <1>9 DEF Checks, Single
  <2>3. chain <=> of = None /\ check = trust
    BY <1>6, <2>2
  <2> HIDE DEF trust
  <2>4. ASSUME check \in Single
        PROVE  expiry \/ host \/ chain \/ protocol \/ cipher \/ key \/ signature <=> flawed
    <3>1. /\ check # "tls.weak_protocol" /\ check # "tls.weak_cipher"
          /\ check # "tls.weak_key" /\ check # "tls.legacy_signature"
      BY <2>4 DEF Single
    <3>2. of = None
      BY <1>9, <2>4
    <3>3. QED
      BY <1>4, <1>5, <1>7, <1>9, <2>3, <3>1, <3>2, ZenonT(60)
  <2>5. ASSUME check \in Checks \ Single
        PROVE  expiry \/ host \/ chain \/ protocol \/ cipher \/ key \/ signature <=> flawed
    <3>1. ~expiry /\ ~host
      BY <1>4, <1>5, <2>5 DEF Single
    <3>2. ~chain /\ check # trust
      BY <1>6, <2>2, <2>5 DEF Single, trust
    <3>3. /\ check # "tls.expired" /\ check # "tls.expiry"
          /\ check # "tls.hostname_mismatch"
      BY <2>5 DEF Single
    <3>4. CASE check = "tls.weak_protocol"
      BY <1>7, <3>1, <3>2, <3>4
    <3>5. CASE check = "tls.weak_cipher"
      BY <1>7, <3>1, <3>2, <3>5
    <3>6. CASE check = "tls.weak_key"
      BY <1>7, <3>1, <3>2, <3>6
    <3>7. CASE check = "tls.legacy_signature"
      BY <1>7, <3>1, <3>2, <3>7
    <3>8. QED
      BY <2>5, <3>4, <3>5, <3>6, <3>7 DEF Checks, Single
  <2> HIDE DEF flawed
  <2>6. QED
    BY <1>9, <2>1, <2>4, <2>5, Zenon
<1>10. QED
  BY <1>2, <1>3, <1>8, <1>9

LEMMA FlawedLegacy ==
  ASSUME NEW s, NEW t, NEW of
  PROVE  Flawed(<<"tls.legacy_protocol", of>>, s, t) <=> s.min < TLS12
  BY DEF Flawed

\* What a scan holds was seen on its two connections, which it witnessed.
SeenGraded ==
  \E w \in witnessed :
    /\ Graded(w[1], w[2]) \subseteq scan.findings
    /\ \A f \in scan.findings : f.check # "tls.legacy_protocol" => f \in Graded(w[1], w[2])

SeenProbed ==
  IF scan.phase = "collected" /\ scan.probed
  THEN \E w \in witnessed :
         /\ ProbedLegacy(w[1]) \subseteq scan.findings
         /\ \A f \in scan.findings : f.check = "tls.legacy_protocol" => f \in ProbedLegacy(w[1])
  ELSE \A f \in scan.findings : f.check # "tls.legacy_protocol"

WitnessInv ==
  /\ \A f \in open : Plain(f)
  /\ scan # Idle =>
       /\ <<server, now>> \in witnessed
       /\ \A f \in scan.findings : Plain(f)
       /\ SeenGraded /\ SeenProbed

LEMMA GradedPlain ==
  ASSUME NEW s \in Servers, NEW t \in Nat
  PROVE  /\ \A f \in Graded(s, t) : Plain(f) /\ f.check # "tls.legacy_protocol"
         /\ \A f \in ProbedLegacy(s) : Plain(f) /\ f.check = "tls.legacy_protocol"
<1>1. ASSUME NEW f \in Graded(s, t)
      PROVE  Plain(f) /\ f.check # "tls.legacy_protocol"
  <2>1. Found(f.check, f.of, Graded(s, t))
    BY DEF Found
  <2>2. Plain([check |-> f.check, of |-> f.of]) /\ f.check # "tls.legacy_protocol"
    BY <2>1, GradedFinds
  <2>3. QED
    BY <2>2 DEF Plain
<1>2. ASSUME NEW f \in ProbedLegacy(s)
      PROVE  Plain(f) /\ f.check = "tls.legacy_protocol"
  <2>1. Found(f.check, f.of, ProbedLegacy(s))
    BY DEF Found
  <2>2. f.of = None /\ f.check = "tls.legacy_protocol"
    BY <2>1, ProbeFinds
  <2>3. QED
    BY <2>2 DEF Plain, Checks, Single
<1>3. QED
  BY <1>1, <1>2

\* More is witnessed while a scan is under way.
LEMMA WitnessGrows ==
  ASSUME WitnessInv, UNCHANGED <<scan, open>>, witnessed \subseteq witnessed',
         scan # Idle => <<server', now'>> \in witnessed'
  PROVE  WitnessInv'
<1>1. scan # Idle => SeenGraded' /\ SeenProbed'
  BY DEF WitnessInv, SeenGraded, SeenProbed
<1>2. QED
  BY <1>1 DEF WitnessInv

LEMMA WitnessStep ==
  ASSUME TypeOK, WitnessInv, Next
  PROVE  WitnessInv'
<1>1. server \in Servers /\ now \in Nat
  BY DEF TypeOK
<1>2. CASE Dial
  <2>1. /\ scan'.findings = Graded(server, now) /\ scan'.phase = "graded"
        /\ witnessed' = {<<server, now>>}
        /\ UNCHANGED <<now, server, open>>
    BY <1>2 DEF Dial
  <2>2. \A f \in scan'.findings : Plain(f) /\ f.check # "tls.legacy_protocol"
    BY <1>1, <2>1, GradedPlain
  <2>3. SeenGraded' /\ SeenProbed'
    BY <2>1, <2>2 DEF SeenGraded, SeenProbed
  <2>4. QED
    BY <2>1, <2>2, <2>3 DEF WitnessInv
<1>3. ASSUME NEW probed \in BOOLEAN, NEW findings, scan.phase = "graded",
             scan' = Collected(probed, findings)
      PROVE  /\ scan # Idle /\ scan'.phase = "collected" /\ scan'.probed = probed
             /\ scan'.findings = scan.findings \cup findings
             /\ \A f \in scan.findings : f.check # "tls.legacy_protocol"
             /\ SeenGraded
  <2>1. scan # Idle /\ scan \in Scan
    BY <1>3 DEF Idle, TypeOK
  <2>2. /\ scan'.phase = "collected" /\ scan'.probed = probed
        /\ scan'.findings = scan.findings \cup findings
    BY <1>3, <2>1 DEF Collected, Scan
  <2>3. SeenGraded /\ \A f \in scan.findings : f.check # "tls.legacy_protocol"
    BY <1>3, <2>1 DEF WitnessInv, SeenProbed
  <2>4. QED
    BY <2>1, <2>2, <2>3
<1>4. CASE Probe
  <2>1. /\ scan.phase = "graded" /\ scan' = Collected(TRUE, ProbedLegacy(server))
        /\ UNCHANGED <<now, server, open, witnessed>>
    BY <1>4 DEF Probe
  <2>2. /\ scan # Idle /\ scan'.phase = "collected" /\ scan'.probed
        /\ scan'.findings = scan.findings \cup ProbedLegacy(server)
        /\ \A f \in scan.findings : f.check # "tls.legacy_protocol"
        /\ SeenGraded
    BY <1>3, <2>1
  <2>3. \A f \in ProbedLegacy(server) : Plain(f) /\ f.check = "tls.legacy_protocol"
    BY <1>1, GradedPlain
  <2>4. <<server, now>> \in witnessed /\ <<server, now>>[1] = server
    BY <2>2 DEF WitnessInv
  <2>5. SeenProbed'
    BY <2>1, <2>2, <2>4 DEF SeenProbed
  <2>6. SeenGraded'
    BY <2>1, <2>2, <2>3 DEF SeenGraded
  <2>7. QED
    BY <2>1, <2>2, <2>3, <2>5, <2>6 DEF WitnessInv
<1>5. CASE ProbeFails
  <2>1. /\ scan.phase = "graded" /\ scan' = Collected(FALSE, {})
        /\ UNCHANGED <<now, server, open, witnessed>>
    BY <1>5 DEF ProbeFails
  <2>2. /\ scan # Idle /\ scan'.phase = "collected" /\ ~scan'.probed
        /\ scan'.findings = scan.findings
        /\ \A f \in scan.findings : f.check # "tls.legacy_protocol"
        /\ SeenGraded
    <3>1. FALSE \in BOOLEAN /\ scan.findings \cup {} = scan.findings
      OBVIOUS
    <3>2. scan'.probed = FALSE /\ scan'.findings = scan.findings \cup {}
      BY <1>3, <2>1, <3>1, Zenon
    <3>3. QED
      BY <1>3, <2>1, <3>1, <3>2, Zenon
  <2>3. SeenGraded' /\ SeenProbed'
    BY <2>1, <2>2 DEF SeenGraded, SeenProbed
  <2>4. QED
    BY <2>1, <2>2, <2>3 DEF WitnessInv
<1>6. CASE Reconcile
  <2>1. scan # Idle /\ open' = scan.findings /\ scan' = Idle
    BY <1>6 DEF Reconcile, Idle
  <2>2. QED
    BY <2>1 DEF WitnessInv
<1>7. ASSUME NEW s \in Servers, Deploy(s)
      PROVE  WitnessInv'
  <2>1. /\ UNCHANGED <<scan, open, now>> /\ server' = s
        /\ witnessed \subseteq witnessed'
        /\ scan # Idle => <<s, now>> \in witnessed'
    BY <1>7 DEF Deploy, Witness
  <2>2. QED
    BY <2>1, WitnessGrows
<1>8. CASE Tick
  <2>1. /\ UNCHANGED <<scan, open, server>>
        /\ witnessed \subseteq witnessed'
        /\ scan # Idle => <<server, now'>> \in witnessed'
    BY <1>8 DEF Tick, Witness
  <2>2. QED
    BY <2>1, WitnessGrows
<1>9. CASE DialFails
  BY <1>9, WitnessGrows DEF DialFails, vars, WitnessInv
<1>10. QED
  BY <1>2, <1>4, <1>5, <1>6, <1>7, <1>8, <1>9 DEF Next

LEMMA WitnessInvariant == Spec => [](TypeOK /\ WitnessInv)
<1>1. Init => TypeOK /\ WitnessInv
  BY TypeInit DEF Init, WitnessInv
<1>2. TypeOK /\ WitnessInv /\ [Next]_vars => (TypeOK /\ WitnessInv)'
  <2>1. CASE UNCHANGED vars
    <3>1. TypeOK => TypeOK'
      BY <2>1 DEF vars, TypeOK
    <3>2. WitnessInv => WitnessInv'
      BY <2>1, WitnessGrows DEF vars, WitnessInv
    <3>3. QED
      BY <3>1, <3>2
  <2>2. QED
    BY <2>1, TypeStep, WitnessStep
<1>3. QED
  BY <1>1, <1>2, PTL DEF Spec

\* The record changes when a scan is reconciled, which becomes it.
LEMMA RecordChanges ==
  ASSUME TypeOK, [Next]_vars, open' # open
  PROVE  /\ Reconcile /\ open' = scan.findings
         /\ scan # Idle /\ scan.phase = "collected"
<1>1. Reconcile
  BY DEF Next, Dial, DialFails, vars, Probe, ProbeFails, Deploy, Tick
<1>2. QED
  BY <1>1 DEF Reconcile, Idle

\* Whatever a scan opens, the server had the flaw at some instant of the scan.
THEOREM OpeningsAreFlaws == Spec => OpenedMeansFlawed
<1>1. TypeOK /\ WitnessInv /\ [Next]_vars =>
        [\A id \in Ids(open') \ Ids(open) : \E w \in witnessed : Flawed(id, w[1], w[2])]_vars
  <2> SUFFICES ASSUME TypeOK, WitnessInv, [Next]_vars, NEW id \in Ids(open') \ Ids(open)
               PROVE  \E w \in witnessed : Flawed(id, w[1], w[2])
    OBVIOUS
  <2>1. open' = scan.findings /\ scan # Idle
    BY RecordChanges
  <2>2. PICK f \in scan.findings : id = <<f.check, f.of>>
    BY <2>1 DEF Ids, Id
  <2>3. Plain(f) /\ SeenGraded /\ SeenProbed
    BY <2>1 DEF WitnessInv
  <2>4. \A w \in witnessed : w[1] \in Servers /\ w[2] \in Nat
    BY DEF TypeOK
  <2>5. CASE f.check # "tls.legacy_protocol"
    <3>1. PICK w \in witnessed : f \in Graded(w[1], w[2])
      BY <2>3, <2>5 DEF SeenGraded
    <3>2. Found(f.check, f.of, Graded(w[1], w[2]))
      BY <3>1 DEF Found
    <3>3. Flawed(<<f.check, f.of>>, w[1], w[2])
      BY <2>4, <3>2, GradedFinds
    <3>4. QED
      BY <2>2, <3>3
  <2>6. CASE f.check = "tls.legacy_protocol"
    <3>1. PICK w \in witnessed : f \in ProbedLegacy(w[1])
      BY <2>3, <2>6 DEF SeenProbed
    <3>2. Found(f.check, f.of, ProbedLegacy(w[1]))
      BY <3>1 DEF Found
    <3>3. w[1].min < TLS12
      BY <2>4, <3>2, ProbeFinds
    <3>4. Flawed(<<f.check, f.of>>, w[1], w[2])
      BY <2>6, <3>3, FlawedLegacy
    <3>5. QED
      BY <2>2, <3>4
  <2>7. QED
    BY <2>5, <2>6
<1>2. QED
  BY <1>1, WitnessInvariant, PTL DEF Spec, OpenedMeansFlawed

\* Whatever a scan resolves, the server was without the flaw at some instant of
\* the scan, unless it is the legacy finding and the probe failed.
THEOREM ResolutionsAreFixes == Spec => ResolvedMeansFixedIfProbed
<1>1. TypeOK /\ WitnessInv /\ [Next]_vars =>
        [\A id \in Ids(open) \ Ids(open') :
           \/ \E w \in witnessed : ~Flawed(id, w[1], w[2])
           \/ id[1] = "tls.legacy_protocol" /\ ~scan.probed]_vars
  <2> SUFFICES ASSUME TypeOK, WitnessInv, [Next]_vars, NEW id \in Ids(open) \ Ids(open')
               PROVE  \/ \E w \in witnessed : ~Flawed(id, w[1], w[2])
                      \/ id[1] = "tls.legacy_protocol" /\ ~scan.probed
    OBVIOUS
  <2>1. open' = scan.findings /\ scan # Idle /\ scan.phase = "collected"
    BY RecordChanges
  <2>2. PICK f \in open : id = <<f.check, f.of>>
    BY DEF Ids, Id
  <2>3. Plain(f) /\ SeenGraded /\ SeenProbed
    BY <2>1 DEF WitnessInv
  <2>4. \A w \in witnessed : w[1] \in Servers /\ w[2] \in Nat
    BY DEF TypeOK
  <2>5. ~Found(f.check, f.of, scan.findings)
    BY <2>1, <2>2, FoundId
  <2>6. CASE f.check # "tls.legacy_protocol"
    <3>1. PICK w \in witnessed : Graded(w[1], w[2]) \subseteq scan.findings
      BY <2>3 DEF SeenGraded
    <3>2. ~Found(f.check, f.of, Graded(w[1], w[2]))
      BY <2>5, <3>1 DEF Found
    <3>3. Plain([check |-> f.check, of |-> f.of])
      BY <2>3 DEF Plain
    <3>4. ~Flawed(<<f.check, f.of>>, w[1], w[2])
      BY <2>4, <2>6, <3>2, <3>3, GradedFinds
    <3>5. QED
      BY <2>2, <3>4
  <2>7. CASE f.check = "tls.legacy_protocol" /\ scan.probed
    <3>1. PICK w \in witnessed : ProbedLegacy(w[1]) \subseteq scan.findings
      BY <2>1, <2>3, <2>7 DEF SeenProbed
    <3>2. ~Found(f.check, f.of, ProbedLegacy(w[1]))
      BY <2>5, <3>1 DEF Found
    <3>3. f.of = None
      BY <2>3, <2>7 DEF Plain, Single
    <3>4. ~(w[1].min < TLS12)
      BY <2>4, <2>7, <3>2, <3>3, ProbeFinds
    <3>5. ~Flawed(<<f.check, f.of>>, w[1], w[2])
      BY <2>7, <3>4, FlawedLegacy
    <3>6. QED
      BY <2>2, <3>5
  <2>8. CASE f.check = "tls.legacy_protocol" /\ ~scan.probed
    BY <2>2, <2>8
  <2>9. QED
    BY <2>6, <2>7, <2>8
<1>2. QED
  BY <1>1, WitnessInvariant, PTL DEF Spec, ResolvedMeansFixedIfProbed
=============================================================================
