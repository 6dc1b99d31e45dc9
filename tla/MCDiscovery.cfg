CONSTANTS
    Scans = {s1, s2}
    Keys = {"2-21", "0-5", "1-#3"}
    Groups = {"1-#3"}
    Scenarios = {"0-5"}
    Probes <- MCProbes
    Proof <- MCProof
SPECIFICATION Spec
INVARIANTS
    TypeOK
    FoundIsEvidence
    ListensWhileRunning
PROPERTY
    ScanEnds
