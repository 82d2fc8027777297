\* Two requests, a thread in Run(), two watchers one after the other.
CONSTANTS
  Reqs = {r1, r2}
  Runners = {t1}
  MaxWatchers = 2
  Given = {{}, {"response", "error"}}
  StartMayFail = TRUE
SPECIFICATION Spec
INVARIANT AnsweredOnce
PROPERTIES RequestAnswered DestroyReturns
