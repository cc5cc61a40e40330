---------------------------- MODULE AccountBook ----------------------------
(***************************************************************************)
(* What the account part of the ScanOID server promises, with no Redis, no *)
(* mail and no request in sight: the table of accounts and the wishes that *)
(* may change it.                                                          *)
(*                                                                         *)
(* A wish is what a person submitted about an address: to register with a  *)
(* password, to get a new password, to enter through Facebook, or to       *)
(* change the password on the account page.  An account is opened at most  *)
(* once, only by a wish to open it, and an open account changes its        *)
(* password only by a wish to change it.  Opening wishes that come second  *)
(* are ignored.  MailLinks implements this specification.                  *)
(***************************************************************************)
CONSTANTS Emails,     \* addresses, the primary key of the table users
          Passwords,  \* values of the column user_password
          None        \* no account

VARIABLES users,      \* users[e] is the password of e's account, or None
          wishes      \* every wish submitted so far

Opening  == {"registration", "facebook"}
Changing == {"recovery", "account"}

Wish == [kind : Opening \cup Changing, email : Emails, password : Passwords]

Init == /\ users = [e \in Emails |-> None]
        /\ wishes = {}

Ask(w) == /\ wishes' = wishes \cup {w}
          /\ UNCHANGED users

Open(w) == /\ w \in wishes
           /\ w.kind \in Opening
           /\ users[w.email] = None
           /\ users' = [users EXCEPT ![w.email] = w.password]
           /\ UNCHANGED wishes

Change(w) == /\ w \in wishes
             /\ w.kind \in Changing
             /\ users[w.email] # None
             /\ users' = [users EXCEPT ![w.email] = w.password]
             /\ UNCHANGED wishes

Next == \E w \in Wish : Ask(w) \/ Open(w) \/ Change(w)

Spec == Init /\ [][Next]_<<users, wishes>>

============================================================================
