---------------------------- MODULE MCCertificates ----------------------------
(***************************************************************************)
(* Certificates for TLC.  One literal host and one wildcard host: of the   *)
(* names asked for, one has a host of its own, one is under the wildcard,  *)
(* and the empty one has neither.                                          *)
(***************************************************************************)
EXTENDS Certificates

CONSTANTS a, b, star

MCLabels == {a, b, star}
MCHosts == {<<a, a, b>>, <<star, b>>}
MCMaxPair == [h \in MCHosts |-> IF h[1] = star THEN 1 ELSE 2]
MCAsked == {<<a, a, b>>, <<a, b>>, <<>>}
===============================================================================
