\* Two threads serving signups and activations, replays and forged payloads.
CONSTANTS
    r1 = r1  r2 = r2  alice = alice  bob = bob
    mail1 = mail1  mail2 = mail2  notAnAddress = notAnAddress
    Threads <- MC_Threads
    Usernames <- MC_Usernames
    Addresses <- MC_Addresses
    ValidAddresses <- MC_ValidAddresses
    MaxRows = 3
SYMMETRY MC_Symmetry
SPECIFICATION Spec
INVARIANT TypeOK
INVARIANT RowsFromMailedLinks
