SPECIFICATION Spec
CONSTANTS
  Migrator = {m1, m2}
  RowId = {r1, r2}
  Queue = {q1, q2}
  Key = {k1}
  NULL = NULL
SYMMETRY Symmetry
INVARIANTS
  SchemaIsTheRevisions
  HeadIsTheModels
  CommandsApply
