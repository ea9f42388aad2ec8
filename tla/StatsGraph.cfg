CONSTANTS
  SeriesInfo <- GivenNames
  Late = {"Port 1"}
  Values = {1, 3}
  MaxDataPoints = 4
  ValueMin <- Lowest
  ValueMax = 2
  Width = 4
  MaxIndex = 6
SPECIFICATION Spec
INVARIANT SizeIsLength
INVARIANT TimesEven
INVARIANT DrawnIsCurrent
INVARIANT LegendIsCurrent
PROPERTY SlidingWindow
