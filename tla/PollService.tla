----------------------------- MODULE PollService ------------------------------
(***************************************************************************)
(* What a poller promises to the owner that starts, stops and reconfigures *)
(* it, and to those who read the document it keeps.                        *)
(*                                                                         *)
(* When Stop has returned the poller is quiet: no poll is under way and    *)
(* nothing is published until it is started again, so that the owner may   *)
(* change its configuration without a lock.  A poll uses one configuration *)
(* from its beginning to its end, and only the end of a poll publishes.    *)
(***************************************************************************)
CONSTANTS
    Configurations, \* what the owner may tell the poller
    Answers,        \* Answers[c]: what a poll under configuration c may publish
    File            \* the document in service before the first poll

VARIABLES
    state,      \* "off", "idle" between two polls, "busy" in one
    config,     \* the configuration of the poller
    published   \* the document in service

vars == <<state, config, published>>

Init ==
    /\ state = "off"
    /\ config \in Configurations
    /\ published = File

SwitchOn ==
    /\ state = "off"
    /\ state' = "idle"
    /\ UNCHANGED <<config, published>>

\* Never out of a poll: the owner waits for its end.
SwitchOff ==
    /\ state = "idle"
    /\ state' = "off"
    /\ UNCHANGED <<config, published>>

Configure ==
    /\ state = "off"
    /\ config' \in Configurations
    /\ UNCHANGED <<state, published>>

Begin ==
    /\ state = "idle"
    /\ state' = "busy"
    /\ UNCHANGED <<config, published>>

\* A poll that got no answer leaves the document of an earlier one in service.
End ==
    /\ state = "busy"
    /\ state' = "idle"
    /\ published' \in Answers[config] \cup {published}
    /\ UNCHANGED config

Next == SwitchOn \/ SwitchOff \/ Configure \/ Begin \/ End

Spec == Init /\ [][Next]_vars
===============================================================================
