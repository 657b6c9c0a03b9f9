---------------------------- MODULE MCMonitorPoll -----------------------------
(* MonitorPoll for TLC: monitor lists of several lengths, so that a reload can *)
(* shorten the list, with and without a monitor that always answers.           *)
EXTENDS MonitorPoll

CONSTANTS m1, m2, m3

MCLists == {<<>>, <<m1, m2>>, <<m2, m1, m3>>}
===============================================================================
