--------------------------- MODULE MCAgentWatchers ---------------------------
(* Constants of the run of AgentWatchers: an Amp thread whose log may name   *)
(* a directory, and a thread of an agent that always names its own.          *)
EXTENDS AgentWatchers, TLC

CONSTANTS s1, s2, t1, t2, d1, d2, amp1, p1, p2

File(kind, mtime, status, tool, pid, dir) ==
    [kind |-> kind, mtime |-> mtime, status |-> status, tool |-> tool, pid |-> pid, dir |-> dir]

MCDirOf   == s1 :> d1 @@ s2 :> d2

(* Who wrote the first thread's log and where it runs, and the second       *)
(* thread: an unanswered tool call, or an old thread file.                  *)
World(pid, pane, second) ==
    [files |-> t1 :> File("amp", 1, "running", FALSE, pid, NoDir) @@
               t2 :> IF second = "claude" THEN File("claude-code", 0, "running", TRUE, NoPid, d1)
                     ELSE File("amp", 0, "idle", FALSE, NoPid, NoDir),
     old   |-> t1 :> NoFile @@
               t2 :> IF second = "claude" THEN NoFile ELSE File("amp", 0, "done", FALSE, NoPid, d1),
     procs |-> amp1 :> pane,
     panes |-> p1 :> [session |-> s1, agent |-> "amp"] @@ p2 :> [session |-> s2, agent |-> "amp"]]
MCWorlds == {World(amp1, p1, "claude"), World(amp1, p1, "old"), World(amp1, NoPane, "old"),
             World(NoPid, Unborn, "claude")}
=============================================================================
