\* One subscription whose webhooks are delivered twice, late, or fail half-way.
SPECIFICATION BillingSpec
CONSTANTS
    Subs = {"s"}
    Deliveries = {"h1", "h2"}
    MaxPeriod = 2
    MaxChanges = 3
    MaxTrouble = 1
    AtomicWrites = TRUE
    PromptMapping = TRUE
INVARIANT PaidIsServed
CHECK_DEADLOCK FALSE
