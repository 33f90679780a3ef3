\* Two request_ids, one call of each kind, failing writes, two crashes.
SPECIFICATION FairSpec
CONSTANTS
    r1 = r1
    r2 = r2
    input = input
    cancel = cancel
    put = put
    lab = lab
    nix = nix
    NoDigest = NoDigest
    Requests = {r1, r2}
    Digests = {input, cancel, put, lab, nix}
    LabCreates = {lab}
    NixCreates = {nix}
    Native = {input, cancel}
    Followed = {cancel}
    Idempotent = {cancel}
    Crashes = 2
    SaveFaults = TRUE
INVARIANTS IInv AtMostOnce ReceiptIsTrue
PROPERTIES ReceiptIsFinal Settles
