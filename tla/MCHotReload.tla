----------------------------- MODULE MCHotReload ------------------------------
(***************************************************************************)
(* HotReload for TLC.  Three edits: the files to start with, and two that  *)
(* are written between any two reads, of the same part or of two.          *)
(***************************************************************************)
EXTENDS HotReload

Content(kind, polls) == [kind |-> kind, polls |-> polls]

MCWritten ==
    [config   |-> {Content("good", Pollers), Content("good", {"configPoller"}),
                  Content("broken", {})},
     czf      |-> {Content("good", {}), Content("badNetwork", {})},
     crconfig |-> {Content(kind, {}) : kind \in {"good", "noDomain", "poison"}},
     crstates |-> {Content("good", {}), Content("broken", {})},
     certs    |-> {Content("good", {})}]
===============================================================================
