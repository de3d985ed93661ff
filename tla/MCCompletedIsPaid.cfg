SPECIFICATION GatewaySpec
CONSTANTS
    MaxCalls = 2
    MaxTickets = 2
    Inputs <- MCInputs
    Price = 2
    Part = 1
    Amounts = {0, 10045, 10050, 10049, 9999, 20000, 12345, 12355}
    MaxSafe = 20000
INVARIANT CompletedIsPaid
CHECK_DEADLOCK FALSE
