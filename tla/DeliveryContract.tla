-------------------------- MODULE DeliveryContract --------------------------
(***************************************************************************)
(* What webhook delivery promises of the rows of webhook_deliveries, seen  *)
(* by the customer: which deliveries exist, which codes the endpoints have *)
(* given for them, and what the rows record.  Tasks, runs and batches are  *)
(* left out.                                                               *)
(***************************************************************************)
EXTENDS Naturals

CONSTANTS Events, Endpoints, Codes, None

VARIABLES rows, given

vars == <<rows, given>>

Delivery == Events \X Endpoints

Init ==
  /\ rows = [d \in Delivery |-> [status |-> "none", code |-> None]]
  /\ given = {}

\* The deliveries of an event are stored once and together.
Store(e, ws) ==
  /\ \A w \in Endpoints : rows[<<e, w>>].status = "none"
  /\ rows' = [d \in Delivery |->
                IF d[1] = e /\ d[2] \in ws
                  THEN [status |-> "pending", code |-> None] ELSE rows[d]]
  /\ UNCHANGED given

\* An endpoint answers a delivery that was stored.
Give(d, c) ==
  /\ rows[d].status # "none"
  /\ given' = given \cup {<<d, c>>}
  /\ UNCHANGED rows

\* A row records a code its endpoint gave, and stays recorded: a later answer
\* may replace the code.
Record(d, c) ==
  /\ <<d, c>> \in given
  /\ rows[d].status \in {"pending", "delivered"}
  /\ rows' = [rows EXCEPT ![d] = [status |-> "delivered", code |-> c]]
  /\ UNCHANGED given

\* The deliveries of an endpoint go with it, for good.
Withdraw(w) ==
  /\ rows' = [d \in Delivery |->
                IF d[2] = w /\ rows[d].status \in {"pending", "delivered"}
                  THEN [rows[d] EXCEPT !.status = "deleted"] ELSE rows[d]]
  /\ UNCHANGED given

Next ==
  \/ \E e \in Events, ws \in SUBSET Endpoints : Store(e, ws)
  \/ \E d \in Delivery, c \in Codes : Give(d, c) \/ Record(d, c)
  \/ \E w \in Endpoints : Withdraw(w)

Spec == Init /\ [][Next]_vars
=============================================================================
