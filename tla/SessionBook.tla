---------------------------- MODULE SessionBook ----------------------------
(***************************************************************************)
(* What the sessions of the ScanOID server promise, with no cookie and no  *)
(* Redis in sight.  A key is fresh, then live for one owner, then dead, and *)
(* a dead key stays dead.  A request is admitted in a live session, as its  *)
(* owner, and acts as that owner until it is released, even when the        *)
(* session ends meanwhile.  Sessions implements this specification.         *)
(***************************************************************************)
CONSTANTS Keys, Emails, Requests,
          None       \* no owner

VARIABLES phase,     \* "fresh", "live" or "dead", for each key
          owner,     \* whose session a key opened
          admitted   \* the address a request acts as, or None

Init == /\ phase = [k \in Keys |-> "fresh"]
        /\ owner = [k \in Keys |-> None]
        /\ admitted = [r \in Requests |-> None]

Begin(k, e) == /\ phase[k] = "fresh"
               /\ phase' = [phase EXCEPT ![k] = "live"]
               /\ owner' = [owner EXCEPT ![k] = e]
               /\ UNCHANGED admitted

\* A logout or the end of a time to live; a logout also releases its request.
End(k) == /\ phase[k] = "live"
          /\ phase' = [phase EXCEPT ![k] = "dead"]
          /\ admitted' \in {admitted} \cup {[admitted EXCEPT ![r] = None] : r \in Requests}
          /\ UNCHANGED owner

Admit(r, k) == /\ admitted[r] = None
               /\ phase[k] = "live"
               /\ admitted' = [admitted EXCEPT ![r] = owner[k]]
               /\ UNCHANGED <<phase, owner>>

Release(S) == /\ admitted' = [r \in Requests |-> IF r \in S THEN None ELSE admitted[r]]
              /\ UNCHANGED <<phase, owner>>

Next == \/ \E k \in Keys : \/ \E e \in Emails : Begin(k, e)
                           \/ End(k)
                           \/ \E r \in Requests : Admit(r, k)
        \/ \E S \in SUBSET Requests : Release(S)

Spec == Init /\ [][Next]_<<phase, owner, admitted>>

============================================================================
