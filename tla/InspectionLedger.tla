--------------------------- MODULE InspectionLedger ---------------------------
(***************************************************************************)
(* What the stage gate promises whatever its handlers interleave with and  *)
(* wherever they die: a ledger of inspection results that only grows, of   *)
(* stages that open one at a time behind a PASS, and of one certificate    *)
(* that stands for all of them.                                             *)
(***************************************************************************)
EXTENDS Integers

CONSTANT NumStages

VARIABLES opened,    \* the stages that are not LOCKED
          verdict,   \* the recorded result of each stage, "NONE" before it
          certified  \* the certificate of occupation exists

ledgerVars == <<opened, verdict, certified>>

Stages == 0 .. NumStages - 1

Passed(s) == verdict[s] = "PASS"

\* A permit enters with some first stages passed and the stage after them open.
Init ==
    /\ \E k \in 0 .. NumStages :
          /\ opened = {s \in Stages : s <= k}
          /\ verdict \in [Stages -> {"NONE", "PASS", "FAIL"}]
          /\ \A s \in Stages : /\ s < k => verdict[s] = "PASS"
                               /\ s = k => verdict[s] # "PASS"
                               /\ s > k => verdict[s] = "NONE"
          /\ certified = (k = NumStages)

Inspect(s, v) ==
    /\ s \in opened
    /\ verdict[s] = "NONE"
    /\ verdict' = [verdict EXCEPT ![s] = v]
    /\ UNCHANGED <<opened, certified>>

Open(s) ==
    /\ s \notin opened
    /\ \A t \in Stages : t < s => Passed(t)
    /\ opened' = opened \union {s}
    /\ UNCHANGED <<verdict, certified>>

Certify ==
    /\ ~certified
    /\ \A s \in Stages : Passed(s)
    /\ certified' = TRUE
    /\ UNCHANGED <<opened, verdict>>

Next ==
    \/ \E s \in Stages : Open(s) \/ \E v \in {"PASS", "FAIL"} : Inspect(s, v)
    \/ Certify

Spec == Init /\ [][Next]_ledgerVars

=============================================================================
