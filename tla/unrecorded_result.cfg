SPECIFICATION Spec
CONSTANTS
  r1 = r1
  r2 = r2
  nightly = nightly
  out = out
  c1 = c1
  c2 = c2
  merged = merged
  Runs = {r1, r2}
  Names = {nightly}
  Elsewhere = {out}
  Commits = {c1, c2, merged}
  Merges <- MCMerges
  Contents = {c1, c2, edited}
  Lockfile <- MCLockfile
  Edited = edited
  Asked <- MCAsked
  None = None
PROPERTIES
  ClassifiedIsWritten
