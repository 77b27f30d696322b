----------------------------- MODULE DropLedger -----------------------------
(***************************************************************************)
(* What the storefront promises about one limited drop, with no database,  *)
(* lock or transaction in sight: a unit is sold at most once, to one       *)
(* request, a request is told "confirmed" only if it has one, and it is    *)
(* told "refused" only when no unit remains and it has none.  A request    *)
(* that is told "unavailable" learns nothing: its unit may have been, or   *)
(* may still be, sold.                                                     *)
(***************************************************************************)
EXTENDS Naturals

CONSTANTS Requests, UnitsAvailable

VARIABLES remaining, \* units nobody owns
          sold,      \* the requests that own a unit
          answer     \* what each request has been told

ledger == <<remaining, sold, answer>>

Init == /\ remaining = UnitsAvailable
        /\ sold = {}
        /\ answer = [r \in Requests |-> "none"]

Sell(r) ==
    /\ r \notin sold
    /\ answer[r] \in {"none", "unavailable"}
    /\ remaining > 0
    /\ remaining' = remaining - 1
    /\ sold' = sold \cup {r}
    /\ UNCHANGED answer

Tell(r, what) ==
    /\ answer[r] = "none"
    /\ answer' = [answer EXCEPT ![r] = what]
    /\ UNCHANGED <<remaining, sold>>

Confirm(r) == r \in sold /\ Tell(r, "confirmed")

Refuse(r) == r \notin sold /\ remaining = 0 /\ Tell(r, "refused")

Reject(r) == r \notin sold /\ Tell(r, "rejected")

Fail(r) == Tell(r, "unavailable")

Next == \E r \in Requests :
            Sell(r) \/ Confirm(r) \/ Refuse(r) \/ Reject(r) \/ Fail(r)

Spec == Init /\ [][Next]_ledger

=============================================================================
