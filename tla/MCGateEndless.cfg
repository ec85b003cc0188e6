SPECIFICATION FairSpec
CONSTANTS
    Ticket <- EndlessTickets
    Mixes <- EndlessMixes
    Owner <- MCOwner
    NoOwner = ""
    NoTicket = NoTicket
    WriterQueueCapacity = 2
    OwnerQueueShare = 1
    RecoverySecurityReserve = 1
PROPERTIES
    Served
