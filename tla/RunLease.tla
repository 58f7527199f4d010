------------------------------ MODULE RunLease ------------------------------
(***************************************************************************)
(* What the columns status, lease_id and lease_expires_at of an automation *)
(* run promise to everyone who reads them, whoever wrote them: a run is    *)
(* taken by one owner at a time, an owner is displaced only after its      *)
(* lease ran out, only an owned run ends, and an ended run starts again    *)
(* only by being reopened.                                                 *)
(***************************************************************************)
EXTENDS Integers

CONSTANT WritesMayFail   \* may a call fail after it took effect?

VARIABLES status, owner, live, issued

leaseVars == <<status, owner, live, issued>>

Ended  == {"succeeded", "failed", "cancelled"}
Nobody == 0

LeaseInit == status = "pending" /\ owner = Nobody /\ live = FALSE /\ issued = 0

\* A fresh owner takes a pending run, or a running one whose lease ran out.
Take == /\ status = "pending" \/ (status = "running" /\ ~live)
        /\ issued' = issued + 1
        /\ status' = "running" /\ owner' = issued + 1 /\ live' = TRUE

Renew == /\ status = "running" /\ owner # Nobody
         /\ live' = TRUE
         /\ UNCHANGED <<status, owner, issued>>

Expire == live /\ live' = FALSE /\ UNCHANGED <<status, owner, issued>>

\* The owner ends the run. The lease stays in the row and runs out.
Finish == /\ status = "running" /\ owner # Nobody
          /\ status' \in Ended
          /\ UNCHANGED <<owner, live, issued>>

\* The owner hands the running run back.
Release == /\ status = "running" /\ owner # Nobody
           /\ owner' = Nobody /\ live' = FALSE
           /\ UNCHANGED <<status, issued>>

Reopen == /\ status \in Ended
          /\ status' = "pending" /\ owner' = Nobody /\ live' = FALSE
          /\ UNCHANGED issued

\* The repair of a call that failed after it took effect marks the run ended
\* once more, whatever happened to it since.
Repair == /\ WritesMayFail
          /\ status' \in Ended
          /\ UNCHANGED <<owner, live, issued>>

LeaseNext == Take \/ Renew \/ Expire \/ Finish \/ Release \/ Reopen \/ Repair

LeaseSpec == LeaseInit /\ [][LeaseNext]_leaseVars
=============================================================================
