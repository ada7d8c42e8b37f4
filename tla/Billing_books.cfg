\* One customer, one work order, three request slots.
SPECIFICATION Spec
CONSTANTS
    c1 = c1
    c2 = c2
    Requests = {r1, r2, r3}
    Customers = {c1}
    WorkOrders = {w1}
    Attempts = {t1}
    GrandTotals = {2}
    PayAmounts = {1, 2}
    None = None
    CustomerOf <- MCCustomerOf
SYMMETRY Symmetry
INVARIANTS TypeOK LedgerBalanced MoneyMatchesDocuments InvoiceCoherent OneActiveInvoicePerWorkOrder GatewayBookedOnce AdvanceNotOverspent
PROPERTIES CancelledIsFinal LedgerImplemented
