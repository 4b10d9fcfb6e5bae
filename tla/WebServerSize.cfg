CONSTANTS
    polite = polite
    hasty = hasty
    Clients = {polite, hasty}
    IoThreads = {t1, t2}
    Script <- ScriptValue
    Stream <- StreamValue
    Pipelining = {hasty}
    Nobody = Nobody
    SizeMod = 64
    MaxErrors = 1
SPECIFICATION Spec
INVARIANT SizeIsTransferred
