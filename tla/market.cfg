SPECIFICATION FairSpec
CONSTANTS
    Worker = "worker"
    Scanners = {"worker", "api"}
    Transfers = {1, 2}
    MaxHeight = 2
    NamedBlocks = {1, 3}
    ReportedAs = {"confirmed", "reported"}
    Required = 2
    BatchSize = 1
    MaxPasses = 1
    MaxDeaths = 1
    Bookings = {1, 2}
    Threads = {1, 2}
    UnitsTotal = 1
    Funds = 1
    MaxCalls = 3
    MaxCrashes = 1
INVARIANTS TypeOK NoTransferSkipped CreditedOnce ActiveIsPaid
PROPERTIES TransfersAreCredited BookingsKeepEscrow ListingHeals
