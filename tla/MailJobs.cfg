\* Two tasks for a worker that runs one at a time and tries each twice at most.
SPECIFICATION MailSpec
CONSTANTS
  Requests = {r1, r2}
  MaxTasks = 2
  MaxRetry = 1
  Concurrency = 1
INVARIANTS
  TwiceOnlyIfLost
  OneMailPerTry
  TokenBeforeMail
PROPERTIES
  PromiseIsSettled
