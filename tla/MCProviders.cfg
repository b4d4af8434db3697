SPECIFICATION ProvidersSpec
CONSTANTS
  Calls = {c1, c2}
  Followed = {c1}
  Scans = {s1}
  Types = {"openai", "ollama"}
  Keyed = {"openai"}
  Parts = {"text", "error"}
  MaxParts = 2
  MaxAdapters = 2
INVARIANT RegistryHonest
PROPERTIES StreamHonest EveryStreamEnds
CHECK_DEADLOCK FALSE
