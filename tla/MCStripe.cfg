SPECIFICATION WebhookSpec
CONSTANTS
    c1 = c1
    w1 = w1
    w2 = w2
    w3 = w3
    Checkouts <- OneCheckout
    Deliveries <- ThreeDeliveries
    MaxCrashes = 1
    None = None
INVARIANT GrantedOnce
PROPERTY PaidIsGranted
PROPERTY EventuallyAccepted
CHECK_DEADLOCK FALSE
