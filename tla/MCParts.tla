------------------------------- MODULE MCParts -------------------------------
(***************************************************************************)
(* One model for the parts that are used by one thread at a time: the xid  *)
(* window, the stubs, the deadlines, the text of a directory, the content  *)
(* of a file.  A behaviour is one of one part; the others stay as they     *)
(* begin.                                                                  *)
(***************************************************************************)
EXTENDS XidWindow, Marshall, Deadline, DirFormat, FileData

\* to_min doubled up to IntMax = 31.
MCLengths == <<3, 6, 12, 24>>

VARIABLE part  \* the part that runs

Init ==
    /\ part \in {"window", "stubs", "deadline", "directory", "file"}
    /\ WindowInit /\ DirInit /\ FileInit
    /\ StubInit /\ (part # "stubs" => args = <<>>)
    /\ DeadlineInit /\ (part # "deadline" => to = 0 /\ clock.tv_nsec = 0)

Next ==
    /\ \/ /\ part = "window" /\ WindowNext
          /\ UNCHANGED <<stubVars, deadlineVars, dirVars, fileVars>>
       \/ /\ part = "stubs" /\ StubNext
          /\ UNCHANGED <<windowVars, deadlineVars, dirVars, fileVars>>
       \/ /\ part = "deadline" /\ DeadlineNext
          /\ UNCHANGED <<windowVars, stubVars, dirVars, fileVars>>
       \/ /\ part = "directory" /\ DirNext
          /\ UNCHANGED <<windowVars, stubVars, deadlineVars, fileVars>>
       \/ /\ part = "file" /\ FileNext
          /\ UNCHANGED <<windowVars, stubVars, deadlineVars, dirVars>>
    /\ UNCHANGED part

Spec == Init /\ [][Next]_<<part, windowVars, stubVars, deadlineVars, dirVars, fileVars>>
=============================================================================
