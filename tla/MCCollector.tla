---------------------------- MODULE MCCollector ----------------------------
(* Small instances of Collector.  A day has two units.  Within the bound of  *)
(* seven, old expires, wrong comes within a week of it and bare within       *)
(* thirty days.                                                              *)
EXTENDS Collector, TLC

CONSTANTS old, wrong, bare, strong, weak, sha256, sha1

Sound == [notAfter |-> 68, covers |-> TRUE, rooted |-> TRUE, length |-> 2,
          selfIssued |-> FALSE, rsaBits |-> 0, signature |-> sha256]

SomeCerts ==
  old   :> [Sound EXCEPT !.notAfter = 6, !.rsaBits = 2048] @@
  wrong :> [Sound EXCEPT !.notAfter = 20, !.covers = FALSE, !.rooted = FALSE,
              !.length = 1, !.selfIssued = TRUE, !.rsaBits = 1024, !.signature = sha1] @@
  bare  :> [Sound EXCEPT !.rooted = FALSE, !.length = 1, !.rsaBits = 2047]

SomeServers ==
  {[cert |-> old,   min |-> TLS11, max |-> TLS13, cipher |-> strong],
   [cert |-> old,   min |-> TLS12, max |-> TLS13, cipher |-> strong],
   [cert |-> wrong, min |-> TLS10, max |-> TLS10, cipher |-> weak],
   [cert |-> bare,  min |-> TLS10, max |-> TLS11, cipher |-> strong]}
=============================================================================
