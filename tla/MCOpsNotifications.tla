------------------------- MODULE MCOpsNotifications -------------------------
(***************************************************************************)
(* Instances of OpsNotifications for TLC.                                  *)
(***************************************************************************)
EXTENDS OpsNotifications, TLC

CONSTANTS e1, e2, e3, minor, bot, f1, f2

\* Three errors and a lesser event with one fingerprint; the bot has its own, without throttle.
MCEvents        == {e1, e2, e3, minor, bot}
MCFingerprintOf == [e \in MCEvents |-> IF e = bot THEN f2 ELSE f1]
MCSourceOf      == [e \in MCEvents |-> IF e = bot THEN "bot" ELSE "backend"]
MCSeverityOf    == [e \in MCEvents |-> IF e \in {minor, bot} THEN "warn" ELSE "error"]

\* The three errors are alike.
Alike == Permutations({e1, e2, e3})

\* An invalid setting: the default applies.
Unset == -1

\* Two errors of one route.
Burst            == {e1, e2}
BurstFingerprint == [e \in Burst |-> f1]
BurstSource      == [e \in Burst |-> "backend"]
BurstSeverity    == [e \in Burst |-> "error"]
=============================================================================
