SPECIFICATION Spec
CONSTANTS
    Ticket <- MCTickets
    Mixes <- MCMixes
    Owner <- MCOwner
    NoOwner = ""
    NoTicket = NoTicket
    WriterQueueCapacity = 2
    OwnerQueueShare = 1
    RecoverySecurityReserve = 1
INVARIANTS
    OneWriter
    PoolSound
    OwnerFIFO
    GrantSound
    GrantReachesWaiter
PROPERTIES
    RefusalsAreFair
    ImplementsSlot
