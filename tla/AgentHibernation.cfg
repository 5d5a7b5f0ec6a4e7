SPECIFICATION Spec
CONSTANTS
  p1 = p1  p2 = p2  t1 = t1  t2 = t2  s1 = s1  s2 = s2
  agent1 = agent1  helper1 = helper1  agent2 = agent2
  Panes = {p1, p2}
  Threads = {t1, t2}
  Pids = {agent1, helper1, agent2}
  Sessions = {s1, s2}
  SessionOf <- MCSessionOf
  Views <- MCViews
  Launched <- MCLaunched
  Nobody = Nobody
  NoPane = NoPane
  Free = Free
  MaxMoves = 2
  MaxFailures = 1
INVARIANT OnlyCapturedAreSignalled
PROPERTIES WokenIsSpared HibernatedMeansStopped QuietAgentsStop
