\* Also indices that the tuple of seven elements does not have.
CONSTANT MaxIndex = 8
SPECIFICATION FairSpec
PROPERTY RangeChecked
