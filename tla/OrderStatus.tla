---------------------------- MODULE OrderStatus ----------------------------
(***************************************************************************)
(* The statuses of an order (internal/service/order/order.go) and those the *)
(* accrual service reports for it (internal/service/order/accrual/          *)
(* interface.go), with the conversion between the two.                      *)
(***************************************************************************)
EXTENDS Naturals

Status == {"NEW", "PROCESSING", "INVALID", "PROCESSED"}

Final == {"INVALID", "PROCESSED"}

\* "unregistered" is the empty accrualStatus that stands for a 204 response.
AccrualStatus ==
  {"unregistered", "REGISTERED", "PROCESSING", "INVALID", "PROCESSED"}

\* accrualStatus.orderStatus()
StatusOf(a) == IF a \in {"unregistered", "REGISTERED"} THEN "NEW" ELSE a

\* How far a status is from the upload; the two final ones are equally far.
Rank(s) == CASE s = "NEW"        -> 0
             [] s = "PROCESSING" -> 1
             [] s \in Final      -> 2

\* What the accrual service may report after it has reported a: a final status stays
\* (SPECIFICATION.md:365); that the others only move forward is an assumption.
LaterStatuses(a) ==
  CASE a = "unregistered" -> AccrualStatus \ {"unregistered"}
    [] a = "REGISTERED"   -> {"PROCESSING"} \cup Final
    [] a = "PROCESSING"   -> Final
    [] OTHER              -> {}
=============================================================================
