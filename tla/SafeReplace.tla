----------------------------- MODULE SafeReplace -----------------------------
(***************************************************************************)
(* What the final commit promises the owner of the target folder, without  *)
(* journal, leases, processes or crashes: a step of the program changes    *)
(* the file only by putting the artifact there or by moving the file away, *)
(* it first has the displaced content among the kept ones, it never gives  *)
(* up a kept content, and it reports one verdict, success only for an      *)
(* artifact that was installed.                                            *)
(***************************************************************************)
CONSTANTS Slot, New, Absent

VARIABLES
    final,      \* content at the final path
    owed,       \* what the user last left there
    kept,       \* contents kept in version objects and backups
    installed,  \* has the artifact been put there?
    verdict     \* OPEN, SUCCESS or HANDED_BACK

promiseVars == <<final, owed, kept, installed, verdict>>

Init ==
    /\ final \in Slot /\ owed = final /\ kept = {}
    /\ installed = FALSE /\ verdict = "OPEN"

\* The user writes or deletes the file.
UserActs ==
    /\ final' \in Slot \ {New} /\ owed' = final'
    /\ UNCHANGED <<kept, installed, verdict>>

\* The program keeps a copy of a content.
Keep ==
    /\ \E content \in Slot \ {Absent} : kept' = kept \cup {content}
    /\ UNCHANGED <<final, owed, installed, verdict>>

\* The program changes the file; what was there is kept.
Displace ==
    /\ final' \in {New, Absent}
    /\ kept' = kept \cup ({final} \ {Absent})
    /\ installed' = (installed \/ final' = New)
    /\ UNCHANGED <<owed, verdict>>

\* The program reports the outcome, once.
Conclude ==
    /\ verdict = "OPEN"
    /\ \/ verdict' = "HANDED_BACK"
       \/ verdict' = "SUCCESS" /\ installed
    /\ UNCHANGED <<final, owed, kept, installed>>

Next == UserActs \/ Keep \/ Displace \/ Conclude

Spec == Init /\ [][Next]_promiseVars
=============================================================================
