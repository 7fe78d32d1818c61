\* One terminal, one session after another.
SPECIFICATION FairSpec
CONSTANTS
  t1 = t1
  t2 = t2
  c1 = c1
  l1 = l1
  s1 = s1
  s2 = s2
  h1 = h1
  h2 = h2
  Terminal = {t1}
  Client = {c1}
  Listener = {l1}
  SessionId = {s1, s2}
  TimerHandle = {h1, h2}
  None = None
  Starters = {"none", "draft", "prompt"}
  WorktreeModes = {TRUE, FALSE}
  Parents <- NoParent
  AskedIds = {None}
  SessionLimit = 1
  MaxChildren = 2
PROPERTIES UnwatchedSessionsEnd PromptIsSubmitted
