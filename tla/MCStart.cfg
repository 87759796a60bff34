SPECIFICATION MCSpec
CONSTANTS
    Caps = {"setpcap", "kept", "other"}
    SetPcap = "setpcap"
    KeptBy <- MCKeptBy
    MaxWrong = 1
    KeyUsable = TRUE
    Procs = {p1, p2}
    Gens = {g1, g2}
    Docs = {d1, d2}
    Execs = {e1}
    MaxFrames = 2
    MaxStarts = 3
    MaxFaults = 1
    MaxPower = 1
    None = None
SYMMETRY Symmetry
CHECK_DEADLOCK FALSE
INVARIANTS EachInItsTime OneHolder DurableKept
