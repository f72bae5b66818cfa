---------------------------- MODULE Reservations ----------------------------
(***************************************************************************)
(* What the bookings collection promises: a booking appears confirmed, in  *)
(* one step, and only while no confirmed booking of its tables overlaps    *)
(* it; afterwards it can only be cancelled.  Who asks, and what is checked *)
(* when, is not part of the promise.  Booking implements this module as    *)
(* long as conflicting requests share a lock.                              *)
(***************************************************************************)
CONSTANTS
  Requests,   \* booking identifiers
  Document,   \* the documents [sector, tables, start, end, status]
  Conflicting(_, _),  \* two documents share a table at the same time
  None

VARIABLE ledger   \* identifier -> document or None

Init == ledger = [b \in Requests |-> None]

(* doc is the document that appears under b.                               *)
Book(b, doc) ==
  /\ ledger[b] = None
  /\ doc \in Document
  /\ doc.status = "CONFIRMED"
  /\ \A c \in Requests :
       ledger[c] # None /\ ledger[c].status = "CONFIRMED" => ~Conflicting(ledger[c], doc)
  /\ ledger' = [ledger EXCEPT ![b] = doc]

Cancel(b) ==
  /\ ledger[b] # None
  /\ ledger' = [ledger EXCEPT ![b].status = "CANCELLED"]

Next ==
  \/ \E b \in Requests : Book(b, ledger'[b])
  \/ \E b \in Requests : Cancel(b)

Spec == Init /\ [][Next]_ledger
=============================================================================
