CONSTANTS
  t1 = t1  t2 = t2  f1 = f1  f2 = f2  c1 = c1  c2 = c2
  LoopThread = LoopThread
  EventChannel = EventChannel
  Threads <- MCThreads
  Task <- MCTask
  Channels <- MCChannels
  MaxEvents = 2
  MaxTasks = 3
SPECIFICATION Spec
INVARIANTS NoLostWakeup IInv
PROPERTIES ImplementsTaskPool TasksStarted PollAgain
