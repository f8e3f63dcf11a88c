----------------------------- MODULE MCCrewTasks -----------------------------
\* Three crews and one thread: the kickoff of an abandoned run keeps the next one
\* waiting, and a third comes after both.
EXTENDS CrewTasks
=============================================================================
