SPECIFICATION FairSpec
CONSTANTS
  i1 = i1
  i2 = i2
  i3 = i3
  Item = {i1, i2, i3}
  Free = Free
  Away = Away
INVARIANTS
  RoundsTypeOK
PROPERTIES
  ServedUnlessOvertaken
