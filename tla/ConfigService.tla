----------------------------- MODULE ConfigService ----------------------------
(***************************************************************************)
(* What a hot reload promises to those who send requests, whatever it      *)
(* reads, however often it is asked and whatever it finds on disk: both    *)
(* servers answer from a configuration that was loaded as a whole, DNS     *)
(* moves first and only forward, HTTP moves only to what DNS serves        *)
(* already, follows it before DNS moves again, and does follow.            *)
(*                                                                         *)
(* A configuration is the edit each of its parts was read at.              *)
(***************************************************************************)
EXTENDS Naturals

CONSTANT Parts

VARIABLES
    up,         \* the process serves, or is about to
    dns, http   \* the configuration each server answers from

vars == <<up, dns, http>>

Configurations == [Parts -> Nat]

\* None is loaded.
Nothing == [p \in Parts |-> 0]

Init ==
    /\ up = TRUE
    /\ dns = Nothing
    /\ http = Nothing

\* Both servers start on one configuration.
Start ==
    /\ up
    /\ dns = Nothing
    /\ dns' \in Configurations \ {Nothing}
    /\ http' = dns'
    /\ UNCHANGED up

\* DNS moves on, to a configuration without any part older than before.
Advance ==
    /\ up
    /\ dns # Nothing
    /\ http = dns
    /\ dns' \in Configurations
    /\ \A p \in Parts : dns'[p] >= dns[p]
    /\ UNCHANGED <<up, http>>

CatchUp ==
    /\ up
    /\ http' = dns
    /\ UNCHANGED <<up, dns>>

\* Whatever ends the process, neither server moves any more.
End ==
    /\ up' = FALSE
    /\ UNCHANGED <<dns, http>>

Next == Start \/ Advance \/ CatchUp \/ End

Spec == Init /\ [][Next]_vars

FairSpec == Spec /\ WF_vars(CatchUp)
===============================================================================
