SPECIFICATION Spec
CONSTANTS
  Tasks = {t1, t2}
  NoTask = NoTask
  max_entries = 4
  checkpoint_interval = 3
  MaxSequence = 9
SYMMETRY Symmetry
INVARIANTS
  TypeOK Contiguous SizeBounded InFlightSound InFlightComplete CheckpointsAreRegular
