CONSTANTS
  Systems = {"series", "log", "reason", "commit", "ec2", "rds", "ebs", "ecs", "lambda", "fargate", "explain", "crossover", "backtest"}
  Subjects = {"a", "b"}
  Keys = {"", "k"}
  DedupWindow = 1
  MaxAge = 1
  MaxEventsPerSubject = 2
  MaxEventBytes = 820
  MaxHour = 2
  MaxEvents = 4
  Levels = {0}
  SampleHours = 4
  DayHours = 2
  RawSampleCap = 2
  HourlyCap = 2
  DailyCap = 1
  MaxSamplesPerHour = 1
  MaxSeriesBytes = 900
  RawMaxAge = 1
  HourlyMaxAge = 1
  DailyMaxAge = 2
  MaxSamples = 4
  SubjectList <- Listing
  Facts <- Known
  ScopeFrom = 1
  ScopeTo = 4
  MaxSpan = 2
  MaxRows = 1
  MaxTurns = 2
  MaxTokens = 5
  MaxUSD = 2
  MinTurnTokens = 2
  MaxToolCalls = 2
  MaxCallsPerTurn = 1
  Calls <- ToolCalls
  MaxFan = 2
  Charges <- Charged
  DatabaseCase <- BasesCase
  VolumeCase <- DisksCase
  ServiceCase <- WebCase
  FargateCase <- PodsCase
  WhatIfCase <- PolicyCase
SPECIFICATION Spec
INVARIANTS BooksBalance    
PROPERTIES  InvestigationEnds
CHECK_DEADLOCK FALSE
