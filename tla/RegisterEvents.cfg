\* A user setting, the alert words, a saved snippet and a draft; two writers.
SPECIFICATION Spec
CONSTANTS
  Tables = {settings, words, snippets, drafts}
  Early = {settings}
  Listed = {snippets, drafts}
  Asserted = {drafts}
  Writers = {w1, w2}
  MaxChanges = 3
SYMMETRY WriterSymmetry
INVARIANTS
  TypeOK
  CurrentButForRaces
CHECK_DEADLOCK FALSE
