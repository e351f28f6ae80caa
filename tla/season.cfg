SPECIFICATION SeasonSpec
CONSTANTS
  Unplayed = Unplayed
  Sizes = {4, 5, 7}
  Windows = 8
  FirstPlayable = 2
  Late = {4}
  Scored = {3, 5}
  Forms <- MCForms
  Latecomers = {1}
  MaxCalculations = 3
  MaxCorrections = 1
PROPERTIES
  FairPlan
  
  PlayedResultsKept
CHECK_DEADLOCK FALSE
