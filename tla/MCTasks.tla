------------------------------- MODULE MCTasks -------------------------------
EXTENDS Tasks

MCSizeOf == [process |-> 8, space |-> 4, directory |-> 16, tables |-> 32, task |-> 8,
             stack |-> 16, context |-> 10, block |-> 6, grown |-> 10]
=============================================================================
