CONSTANTS
    Servers = {s1, s2}
    Calls = {"c2", "c3"}
    Addresses <- MCAddresses
    Foreign = {"boss"}
    Wishes <- MCWishes
    MaxRetries = 1
    MaxAdmin = 1
    Disciplined = TRUE
    LateDelivery = TRUE
SPECIFICATION FairSpec
PROPERTY PrimaryOnlyByAdmin
