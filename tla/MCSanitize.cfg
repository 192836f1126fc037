CONSTANTS
  Word = {"home", "ann", "m", "src", "bob", "pc", "users", "c", "x", "y", "3", "7", "core", "http", "https", "ftp", "thread", "panicked", "tmp", "cache", "config", "root", "at", "K7f"}
  Number = {"3", "7"}
  Letter = {"c", "x", "y", "m"}
  Secret = {"K7f"}
  Text <- MCText
  Dirs <- MCDirs
  Env <- MCEnv
  MaxLines = 2
  MaxField = 9
SPECIFICATION Spec
INVARIANTS TypeOK NoLocalIdentity ForeignPathsGone SecretsGone RedactionsUncounted
\* A string is sanitized once.
CHECK_DEADLOCK FALSE
