--------------------------- MODULE MCCertSession ---------------------------
(* Instances of CertSession for TLC: what its ledgers are about. *)
EXTENDS CertSession

Theme(kinds, entries, flaws) ==
  [kinds |-> kinds, entries |-> entries, flaws |-> flaws, pauses |-> {1}, clockBack |-> FALSE,
   ranges |-> "all", named |-> {TRUE}, anchors |-> FALSE, series |-> {{}}]

\* What the guardian saw: episodes, a breach, a person who looks.
Seen == Theme({"FAIL_CLOSED_ENTERED", "FAIL_CLOSED_CLEARED", "LIMIT_BREACHED", "HUMAN_ACK"}, 6,
              {"none", "silent", "episodes", "reasons", "open", "preceding", "limit", "lockouts"})
\* What it counted.
Counted == Theme({"ORDER_REJECTED_LOCKED", "CONFIG_CHANGE_REJECTED", "CLOCK_ANOMALY",
                  "CLOCK_SUSPECT", "NEW_KIND"}, 4,
                 {"none", "silent", "rejected", "clock", "changes"})
\* Over days and restarts.
Days == Theme({"DAY_OPENED", "DAY_CLOSED", "LIMIT_BREACHED", "GUARDIAN_STOPPED", "crash"}, 6,
              {"none"})
\* Under a seal: whole ledgers and later segments of them; long pauses; a clock set back.
Sealed == Theme({"SEAL_CREATED", "DAY_CLOSED", "PNL_CHECKPOINT", "GUARDIAN_STOPPED", "crash"}, 6,
                {"none"})
Paused == Theme({"SEAL_CREATED", "PNL_CHECKPOINT", "GUARDIAN_STOPPED", "crash"}, 5, {"none"})
\* The document and the copy.
Shown == Theme({"DAY_OPENED", "FAIL_CLOSED_ENTERED", "PNL_CHECKPOINT"}, 4, Flaws)
\* Of one day, with the certificates of later days.
Linked == Theme({"DAY_OPENED", "DAY_CLOSED"}, 3, {"none"})

MCThemes ==
  {[Seen EXCEPT !.ranges = "suffixes"], Counted, [Days EXCEPT !.named = BOOLEAN], Sealed,
   [Sealed EXCEPT !.entries = 5, !.ranges = "suffixes", !.flaws = {"rotated"}],
   [Sealed EXCEPT !.entries = 5, !.clockBack = TRUE], [Paused EXCEPT !.pauses = {1, 20}],
   [Shown EXCEPT !.anchors = TRUE], [Linked EXCEPT !.series = SUBSET (2..5)]}
MCSealed == {Sealed}
=============================================================================
