----------------------------- MODULE LeasePool -----------------------------
(***************************************************************************)
(* What the warm container pool of `cdkl start-api` promises the request   *)
(* handler, whatever it does inside: a container is lent to one request at *)
(* a time, only a container that exists is lent, and until the pool is     *)
(* closed a lent container is never removed.  ContainerPool implements it. *)
(***************************************************************************)

CONSTANTS
  Requests,   (* request handlers that borrow a container        *)
  Handles,    (* containers                                      *)
  NoHandle    (* the value of a request that borrows nothing     *)

VARIABLES
  alive,      (* containers that exist                           *)
  lease,      (* the container each request borrows, or NoHandle *)
  open        (* FALSE from the moment the pool is being closed  *)

lpVars == <<alive, lease, open>>

Lent == {lease[r] : r \in Requests}

Init ==
  /\ alive = {}
  /\ lease = [r \in Requests |-> NoHandle]
  /\ open = TRUE

(* A container comes into existence, borrowed by nobody. *)
Boot(h) ==
  /\ h \notin alive
  /\ h \notin Lent
  /\ alive' = alive \union {h}
  /\ UNCHANGED <<lease, open>>

(* A request borrows a container that nobody else borrows.  A closing pool *)
(* may still lend, and may then lend a container it is about to remove.    *)
Borrow(r, h) ==
  /\ lease[r] = NoHandle
  /\ h \notin Lent
  /\ open => h \in alive
  /\ lease' = [lease EXCEPT ![r] = h]
  /\ UNCHANGED <<alive, open>>

Return(r) ==
  /\ lease[r] # NoHandle
  /\ lease' = [lease EXCEPT ![r] = NoHandle]
  /\ UNCHANGED <<alive, open>>

(* A returned container goes straight to a request that was waiting. *)
HandOver(r, s) ==
  /\ lease[r] # NoHandle
  /\ lease[s] = NoHandle
  /\ lease' = [lease EXCEPT ![r] = NoHandle, ![s] = lease[r]]
  /\ UNCHANGED <<alive, open>>

(* The pool removes a container: an idle one, or any once it is closing. *)
Remove(h) ==
  /\ h \in alive
  /\ open => h \notin Lent
  /\ alive' = alive \ {h}
  /\ UNCHANGED <<lease, open>>

Close ==
  /\ open
  /\ open' = FALSE
  /\ UNCHANGED <<alive, lease>>

Next ==
  \/ \E h \in Handles : Boot(h) \/ Remove(h)
  \/ \E r \in Requests, h \in Handles : Borrow(r, h)
  \/ \E r, s \in Requests : HandOver(r, s)
  \/ \E r \in Requests : Return(r)
  \/ Close

Spec == Init /\ [][Next]_lpVars

=============================================================================
