SPECIFICATION FunctionsSpec
CONSTANTS
  Specs <- SomeSpecs
  Froms <- SomeFroms
  Links <- SomeLinks
  LastDay = 9000
  MaxSearchSteps = 8000
  Month <- MonthOf
  Day <- DayOf
  Weekday <- WeekdayOf
INVARIANT AsWritten
INVARIANT NoneIsNever
INVARIANT CoresServe
CHECK_DEADLOCK FALSE
