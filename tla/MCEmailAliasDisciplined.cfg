CONSTANTS
    Servers = {s1, s2}
    Calls = {"c1", "c2"}
    Addresses <- MCAddresses
    Foreign = {"boss"}
    Wishes <- MCWishes
    MaxRetries = 1
    MaxAdmin = 2
    Disciplined = TRUE
    LateDelivery = FALSE
SPECIFICATION FairSpec
INVARIANTS
    TypeOK
    AcceptedIsKept
PROPERTIES
    AcceptedShowsEverywhere
    ImplementsAddressBook
