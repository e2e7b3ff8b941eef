CONSTANTS
    None = None
    Addresses = {a1, a2}
    Drafts = {small, big}
    Large = {big}
    MaxPayments = 2

SPECIFICATION Spec
INVARIANTS TypeOK PaymentsAreConfirmed OneAtATime
PROPERTY SendingEnds
