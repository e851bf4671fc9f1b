SPECIFICATION CliSafety
INVARIANT InterruptedAsFound
