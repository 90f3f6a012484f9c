SPECIFICATION Spec
CONSTANTS
    o1 = o1
    o2 = o2
    s1 = s1
    s2 = s2
    s3 = s3
    k1 = k1
    Signer = {k1}
    Nobody = Nobody
    Owner = {o1, o2}
    Stack = {s1, s2, s3}
    OwnerOf <- MCOwnerOf
    MaxRevision = 2
    MaxBalance = 1
    MinEscrowBalance = 1
    MaxTransactions = 4
    MaxFailures = 1
SYMMETRY MCSymmetry
INVARIANTS
    
    ActiveStacksAreAvailable
    
    OwnersCatchUp
    SignersCatchUp
CHECK_DEADLOCK FALSE
