------------------------ MODULE MCInvoiceNotifications ------------------------
(* InvoiceNotifications for TLC: two events tell of one invoice.           *)
EXTENDS InvoiceNotifications

CONSTANTS e1, e2, w1

MCEvents == {e1, e2}
MCWorkers == {w1}
None == {}
===============================================================================
